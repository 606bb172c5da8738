--------------------------- MODULE ExecCallsProofs --------------------------
(***************************************************************************)
(* For any calls, handlers and workflows: a call through a                 *)
(* CallResponseHandler implements CallOutcome, on its own and as a part of *)
(* Exec, and a workflow gets the response to its own call.                 *)
(***************************************************************************)
EXTENDS ExecCalls, TLAPS

Open == {"idle", "prepared", "waiting"}

\* A response activity has run for what is in the channels and in the handlers'
\* hands, and it runs only for calls that were made.
Offered ==
  /\ \A c \in accepted : caller[c] # "idle"
  /\ \A c \in Calls : attempts[c] > 0 => c \in accepted
  /\ \A c \in respCh \cup okCh : attempts[c] > 0
  /\ \A h \in Handlers : handling[h] # NoCall => attempts[handling[h]] > 0

\* Before a call returns only the caller's context can end the call's own.
Expired ==
  /\ \A c \in errCh : c \in ctxDone
  /\ \A c \in ctxDone : caller[c] \in Open => c \in expired

IInv == TypeOK /\ Offered /\ Expired

\* The invariant holds before any call is made.
LEMMA CallsInit == Init => IInv
  BY CallAssumption DEF Init, IInv, TypeOK, Offered, Expired

\* What a caller does keeps it.
LEMMA CallerStep ==
  ASSUME IInv, NEW c \in Calls, Caller(c) \/ Expire(c)
  PROVE  IInv'
<1>0. TypeOK /\ Offered /\ Expired
  BY DEF IInv
<1>1. CASE PrepareCall(c)
  BY <1>0, <1>1 DEF IInv, TypeOK, Offered, Expired, Open, Ended, PrepareCall
<1>2. CASE SignalWorkflow(c)
  BY <1>0, <1>2 DEF IInv, TypeOK, Offered, Expired, Open, Ended, SignalWorkflow
<1>3. CASE SignalFails(c)
  BY <1>0, <1>3 DEF IInv, TypeOK, Offered, Expired, Open, Ended, SignalFails, ReturnFrom
<1>4. CASE ReturnResponse(c)
  BY <1>0, <1>4 DEF IInv, TypeOK, Offered, Expired, Open, Ended, ReturnResponse, ReturnFrom
<1>5. CASE ReturnError(c)
  BY <1>0, <1>5 DEF IInv, TypeOK, Offered, Expired, Open, Ended, ReturnError, ReturnFrom
<1>6. CASE ReturnDone(c)
  BY <1>0, <1>6 DEF IInv, TypeOK, Offered, Expired, Open, Ended, ReturnDone, ReturnFrom
<1>7. CASE Expire(c)
  BY <1>0, <1>7 DEF IInv, TypeOK, Offered, Expired, Open, Ended, Expire
<1> QED BY <1>1, <1>2, <1>3, <1>4, <1>5, <1>6, <1>7 DEF Caller

\* So does the goroutine that listens for it.
LEMMA ListenerStep ==
  ASSUME IInv, NEW c \in Calls, Listener(c)
  PROVE  IInv'
<1>0. TypeOK /\ Offered /\ Expired
  BY DEF IInv
<1>1. CASE ListenContext(c)
  BY <1>0, <1>1 DEF IInv, TypeOK, Offered, Expired, Open, ListenContext
<1>2. CASE ListenResponse(c)
  BY <1>0, <1>2 DEF IInv, TypeOK, Offered, Expired, Open, ListenResponse
<1>3. CASE Delete(c)
  BY <1>0, <1>3 DEF IInv, TypeOK, Offered, Expired, Open, Delete
<1> QED BY <1>1, <1>2, <1>3 DEF Listener

\* So do the activities, also for calls that are gone.
LEMMA HandlerStep ==
  ASSUME IInv, NEW h \in Handlers, Handler(h)
  PROVE  IInv'
<1>0. TypeOK /\ Offered /\ Expired
  BY DEF IInv
<1>1. ASSUME NEW c \in Calls, LookUp(h, c) PROVE IInv'
  <2>1. attempts' \in [Calls -> 0 .. MaxAttempts] /\ attempts'[c] > 0
        /\ \A d \in Calls : attempts[d] > 0 => attempts'[d] > 0
    BY <1>0, <1>1, CallAssumption DEF TypeOK, LookUp
  <2>2. /\ handling' \in [Handlers -> Calls \cup {NoCall}]
        /\ \A g \in Handlers : handling'[g] \in {handling[g], c, NoCall}
    BY <1>0, <1>1 DEF TypeOK, LookUp
  <2>3. TypeOK' /\ Expired'
    BY <1>0, <1>1, <2>1, <2>2 DEF TypeOK, Expired, LookUp
  <2>4. Offered'
    <3>1. \A d \in Calls : attempts'[d] > 0 => d \in accepted
      BY <1>0, <1>1 DEF TypeOK, Offered, LookUp
    <3>2. \A g \in Handlers : handling'[g] # NoCall => attempts'[handling'[g]] > 0
      BY <1>0, <2>1, <2>2, CallAssumption DEF TypeOK, Offered
    <3> QED BY <1>0, <1>1, <2>1, <3>1, <3>2 DEF TypeOK, Offered, LookUp
  <2> QED BY <2>3, <2>4 DEF IInv
<1>2. CASE Deliver(h)
  BY <1>0, <1>2 DEF IInv, TypeOK, Offered, Expired, Open, Deliver
<1> QED BY <1>1, <1>2 DEF Handler

\* Every step keeps the invariant.
LEMMA CallsNext == IInv /\ [Next]_vars => IInv'
<1> SUFFICES ASSUME IInv, [Next]_vars PROVE IInv'
  OBVIOUS
<1>1. CASE Next
  BY <1>1, CallerStep, ListenerStep, HandlerStep DEF Next
<1>2. CASE UNCHANGED vars
  BY <1>2 DEF vars, IInv, TypeOK, Offered, Expired
<1> QED BY <1>1, <1>2

-----------------------------------------------------------------------------
(* No response is lost while its call waits.                               *)

\* The goroutine of a call is there from PrepareCall on, before the request is.  While
\* it listens the call's entry is in the map and okCh has room; once it has, a call
\* whose context is alive finds the response in okCh.
Listening ==
  /\ \A c \in Calls : caller[c] = "idle" <=> listener[c] = "none"
  /\ \A c \in Calls : caller[c] = "prepared" => c \notin accepted
  /\ \A c \in Calls : listener[c] = "waiting" => c \in pending /\ c \notin okCh
  /\ \A c \in Calls : /\ listener[c] \in {"deleting", "gone"}
                      /\ caller[c] \in Open /\ c \notin ctxDone
                      => c \in okCh

KeptInv == IInv /\ Listening /\ ResponseKept

\* It is so before any call.
LEMMA KeptInit == Init => KeptInv
<1> SUFFICES ASSUME Init PROVE KeptInv
  OBVIOUS
<1>1. Listening /\ ResponseKept
  BY DEF Init, Listening, ResponseKept
<1> QED BY <1>1, CallsInit DEF KeptInv

\* Callers take a response only when they return, and begin with empty channels.
LEMMA CallerKeeps ==
  ASSUME KeptInv, NEW c \in Calls, Caller(c) \/ Expire(c)
  PROVE  Listening' /\ ResponseKept'
<1>0. TypeOK /\ Offered /\ Listening /\ ResponseKept
  BY DEF KeptInv, IInv
<1>1. CASE PrepareCall(c)
  <2>1. c \notin okCh /\ c \notin accepted
    BY <1>0, <1>1 DEF Offered, PrepareCall
  <2>2. Listening'
    BY <1>0, <1>1, <2>1 DEF TypeOK, Listening, Open, PrepareCall
  <2>3. ResponseKept'
    BY <1>0, <1>1 DEF TypeOK, ResponseKept, PrepareCall
  <2> QED BY <2>2, <2>3
<1>2. CASE SignalWorkflow(c)
  <2>1. ~(attempts[c] > 0)
    BY <1>0, <1>2 DEF Offered, Listening, SignalWorkflow
  <2>2. Listening'
    BY <1>0, <1>2 DEF TypeOK, Listening, Open, SignalWorkflow
  <2>3. ResponseKept'
    BY <1>0, <1>2, <2>1 DEF TypeOK, ResponseKept, SignalWorkflow
  <2> QED BY <2>2, <2>3
<1>3. ASSUME NEW result \in Ended, ReturnFrom(c, result), caller[c] # "idle",
             okCh' \in {okCh, okCh \ {c}}, accepted' \in {accepted, accepted \cup {c}}
      PROVE  Listening' /\ ResponseKept'
  <2>1. /\ caller'[c] \notin Open
        /\ \A d \in Calls \ {c} : /\ caller'[d] = caller[d]
                                  /\ d \in okCh' <=> d \in okCh
                                  /\ d \in accepted' <=> d \in accepted
                                  /\ d \in ctxDone' <=> d \in ctxDone
        /\ UNCHANGED <<listener, pending, respCh, handling, attempts>>
    BY <1>0, <1>3 DEF TypeOK, Open, Ended, ReturnFrom
  <2>2. c \in okCh' => c \in okCh
    BY <1>3
  <2>3. Listening'
    BY <1>0, <1>3, <2>1, <2>2 DEF Listening, Open
  <2>4. ResponseKept'
    BY <1>0, <2>1 DEF ResponseKept, Open
  <2> QED BY <2>3, <2>4
<1>4. CASE SignalFails(c)
  BY <1>3, <1>4 DEF SignalFails, Ended
<1>5. CASE ReturnResponse(c)
  BY <1>3, <1>5 DEF ReturnResponse, Ended
<1>6. CASE ReturnError(c)
  BY <1>3, <1>6 DEF ReturnError, Ended
<1>7. CASE ReturnDone(c)
  BY <1>3, <1>7 DEF ReturnDone, Ended
<1>8. CASE Expire(c)
  BY <1>0, <1>8 DEF Listening, ResponseKept, Open, Expire
<1> QED BY <1>1, <1>2, <1>4, <1>5, <1>6, <1>7, <1>8 DEF Caller

\* The goroutine passes the response on before it goes.
LEMMA ListenerKeeps ==
  ASSUME KeptInv, NEW c \in Calls, Listener(c)
  PROVE  Listening' /\ ResponseKept'
<1>0. TypeOK /\ Listening /\ ResponseKept
  BY DEF KeptInv, IInv
<1>1. CASE ListenContext(c)
  BY <1>0, <1>1 DEF TypeOK, Listening, ResponseKept, Open, ListenContext
<1>2. CASE ListenResponse(c)
  BY <1>0, <1>2 DEF TypeOK, Listening, ResponseKept, Open, ListenResponse
<1>3. CASE Delete(c)
  BY <1>0, <1>3 DEF TypeOK, Listening, ResponseKept, Open, Delete
<1> QED BY <1>1, <1>2, <1>3 DEF Listener

\* An activity that finds no entry comes after the response, or too late; one that
\* finds the channel full finds the same response in it.
LEMMA HandlerKeeps ==
  ASSUME KeptInv, NEW h \in Handlers, Handler(h)
  PROVE  Listening' /\ ResponseKept'
<1>0. TypeOK /\ Listening /\ ResponseKept
  BY DEF KeptInv, IInv
<1>1. ASSUME NEW c \in Calls, LookUp(h, c) PROVE Listening' /\ ResponseKept'
  <2>1. Listening'
    BY <1>0, <1>1 DEF Listening, LookUp
  <2>2. /\ \A d \in Calls \ {c} : attempts'[d] = attempts[d]
        /\ \A g \in Handlers \ {h} : handling'[g] = handling[g]
        /\ handling[h] = NoCall /\ (c \in pending => handling'[h] = c)
        /\ UNCHANGED <<caller, ctxDone, respCh, okCh>>
    BY <1>0, <1>1 DEF TypeOK, LookUp
  <2>3. ASSUME caller[c] = "waiting", c \notin ctxDone
        PROVE  c \in okCh \/ handling'[h] = c
    <3>1. listener[c] \in {"waiting", "deleting", "gone"}
      BY <1>0, <2>3 DEF TypeOK, Listening
    <3> QED BY <1>0, <2>2, <2>3, <3>1 DEF Listening, Open
  <2>4. ASSUME NEW d \in Calls \ {c}, NEW g \in Handlers, handling[g] = d
        PROVE  handling'[g] = d
    BY <2>2, <2>4, CallAssumption
  <2>5. ResponseKept'
    BY <1>0, <2>2, <2>3, <2>4 DEF ResponseKept
  <2> QED BY <2>1, <2>5
<1>2. CASE Deliver(h)
  <2>1. Listening'
    BY <1>0, <1>2 DEF Listening, Deliver
  <2>2. /\ respCh' = respCh \cup {handling[h]}
        /\ \A g \in Handlers \ {h} : handling'[g] = handling[g]
        /\ UNCHANGED <<caller, ctxDone, okCh, attempts>>
    BY <1>0, <1>2 DEF TypeOK, Deliver
  <2>3. ResponseKept'
    BY <1>0, <2>2 DEF ResponseKept
  <2> QED BY <2>1, <2>3
<1> QED BY <1>1, <1>2 DEF Handler

\* Every step keeps it.
LEMMA KeptNext == KeptInv /\ [Next]_vars => KeptInv'
<1> SUFFICES ASSUME KeptInv, [Next]_vars PROVE KeptInv'
  OBVIOUS
<1>1. IInv'
  BY CallsNext DEF KeptInv
<1>2. CASE Next
  BY <1>1, <1>2, CallerKeeps, ListenerKeeps, HandlerKeeps DEF Next, KeptInv
<1>3. CASE UNCHANGED vars
  BY <1>1, <1>3 DEF vars, KeptInv, Listening, ResponseKept
<1> QED BY <1>2, <1>3

-----------------------------------------------------------------------------
(* Calls implement CallOutcome.                                            *)

\* No call has ended before any is made.
LEMMA OutcomeInit == Init => Abstract!OInit
  BY DEF Init, Abstract!OInit

Outcome(c) == IF caller[c] \in {"prepared", "waiting"} THEN "open" ELSE caller[c]

\* What the caller does, as CallOutcome sees it.
LEMMA CallerOutcome ==
  ASSUME IInv, NEW c \in Calls, Caller(c) \/ Expire(c)
  PROVE  [Abstract!ONext]_(Abstract!ovars)
<1>0. TypeOK /\ Offered /\ Expired
  BY DEF IInv
<1>1. CASE PrepareCall(c)
  <2>1. Abstract!Open(c)
    BY <1>0, <1>1 DEF TypeOK, PrepareCall, Abstract!Open
  <2> QED BY <2>1 DEF Abstract!ONext
<1>2. CASE SignalWorkflow(c)
  <2>1. \A d \in Calls : Outcome(d)' = Outcome(d)
    BY <1>0, <1>2 DEF TypeOK, SignalWorkflow, Outcome
  <2> QED BY <1>2, <2>1 DEF SignalWorkflow, Outcome, Abstract!ovars
<1>3. ASSUME NEW result \in Ended, caller[c] \in {"prepared", "waiting"},
             caller' = [caller EXCEPT ![c] = result], UNCHANGED <<attempts, expired>>,
             result = "response" => attempts[c] > 0,
             result = "ctxErr" => c \in expired
      PROVE  Abstract!ONext
  <2>1. Abstract!End(c, result)
    BY <1>0, <1>3 DEF TypeOK, Ended, Abstract!End
  <2> QED BY <2>1 DEF Ended, Abstract!Ended, Abstract!ONext
<1>4. CASE SignalFails(c)
  BY <1>0, <1>3, <1>4 DEF Ended, SignalFails, ReturnFrom
<1>5. CASE ReturnResponse(c)
  BY <1>0, <1>3, <1>5 DEF Ended, Offered, ReturnResponse, ReturnFrom
<1>6. CASE ReturnError(c)
  BY <1>0, <1>3, <1>6 DEF Ended, Open, Expired, ReturnError, ReturnFrom
<1>7. CASE ReturnDone(c)
  BY <1>0, <1>3, <1>7 DEF Ended, Open, Expired, ReturnDone, ReturnFrom
<1>8. CASE Expire(c)
  <2>1. Abstract!Expire(c)
    BY <1>0, <1>8 DEF TypeOK, Expire, Abstract!Expire
  <2> QED BY <2>1 DEF Abstract!ONext
<1> QED BY <1>1, <1>2, <1>4, <1>5, <1>6, <1>7, <1>8 DEF Caller

\* CallOutcome does not see the goroutine that listens, and of a handler only that
\* a response was offered.
LEMMA ServerOutcome ==
  ASSUME IInv, (\E c \in Calls : Listener(c)) \/ (\E h \in Handlers : Handler(h))
  PROVE  [Abstract!ONext]_(Abstract!ovars)
<1>0. TypeOK /\ Offered /\ Expired
  BY DEF IInv
<1>1. ASSUME UNCHANGED <<caller, attempts, expired>> PROVE UNCHANGED Abstract!ovars
  BY <1>1 DEF Abstract!ovars
<1>2. ASSUME NEW h \in Handlers, NEW c \in Calls, LookUp(h, c) PROVE Abstract!Offer(c)
  <2>1. /\ c \in accepted /\ caller[c] # "idle"
        /\ UNCHANGED <<caller, expired>>
        /\ \A d \in Calls : attempts'[d] > 0 <=> d = c \/ attempts[d] > 0
    BY <1>0, <1>2, CallAssumption DEF TypeOK, Offered, LookUp
  <2> QED BY <2>1 DEF Abstract!Offer
<1> QED BY <1>1, <1>2 DEF Listener, ListenContext, ListenResponse, Delete, Handler, Deliver, Abstract!ONext

\* Every step opens a call, offers a response, expires or ends a call as
\* CallOutcome says, or does nothing it can see.
LEMMA OutcomeNext == IInv /\ [Next]_vars => [Abstract!ONext]_(Abstract!ovars)
<1> SUFFICES ASSUME IInv, [Next]_vars PROVE [Abstract!ONext]_(Abstract!ovars)
  OBVIOUS
<1>1. CASE Next
  BY <1>1, CallerOutcome, ServerOutcome DEF Next
<1>2. CASE UNCHANGED vars
  BY <1>2 DEF vars, Abstract!ovars
<1> QED BY <1>1, <1>2

\* However callers, listeners and activities interleave, a call ends once, with a
\* response only if an activity ran for it and with a context error only if the
\* caller's context ended (response_handler.go).
THEOREM CallsImplementOutcome == Spec => EndsOnce
<1>1. IInv /\ [Next]_vars => [Abstract!ONext]_(Abstract!ovars)
  BY OutcomeNext
<1> QED BY CallsInit, CallsNext, OutcomeInit, <1>1, PTL DEF Spec, EndsOnce, Abstract!OSpec

-----------------------------------------------------------------------------
(* The same for calls as a part of Exec, and which response is whose.      *)

\* Each step of the larger system is one of CallResponse, or none of its.
LEMMA ExecStep == [ExecNext]_callVars => [Next]_vars
<1> SUFFICES ASSUME [ExecNext]_callVars PROVE [Next]_vars
  OBVIOUS
<1>1. ASSUME NEW c \in Calls, ClientCaller(c) PROVE Next
  BY <1>1 DEF ClientCaller, Next, Caller
<1>2. ASSUME NEW h \in Handlers, Finish(h) \/ \E c \in Calls : Start(h, c) PROVE Next
  BY <1>2 DEF Finish, Start, Next, Handler
<1>3. ASSUME \/ NewClient \/ CloseClient \/ CloseTarget \/ \E c \in Calls : TimeOut(c)
             \/ \E w \in WCalls : ExecExternal(w) \/ Sent(w) \/ Receive(w) \/ Signal(w)
             \/ \E p \in Parents : CloseParent(p)
             \/ \E r \in Calls \cup WCalls : Handle(r)
      PROVE  UNCHANGED vars
  BY <1>3 DEF NewClient, CloseClient, CloseTarget, TimeOut, ExecExternal, Sent, Receive,
              Signal, CloseParent, Handle
<1>4. CASE UNCHANGED callVars
  BY <1>4 DEF callVars
<1> QED BY <1>1, <1>2, <1>3, <1>4 DEF ExecNext

\* So every behaviour of Exec is one of CallResponse.
THEOREM ExecImplementsCalls == ExecSpec => Spec
<1>1. ExecInit => Init
  BY DEF ExecInit
<1> QED BY <1>1, ExecStep, PTL DEF ExecSpec, Spec

\* The parts of a call always have their types (response_handler.go).
THEOREM CallTypes == ExecSpec => []TypeOK
<1>1. IInv => TypeOK
  BY DEF IInv
<1> QED BY CallsInit, CallsNext, <1>1, ExecImplementsCalls, PTL DEF Spec

\* However the look-up, the sends, the removal of the map entry and retried activities
\* interleave, a response is not lost while its call waits (response_handler.go).
THEOREM KeepsResponse == ExecSpec => []ResponseKept
<1>1. KeptInv => ResponseKept
  BY DEF KeptInv
<1> QED BY KeptInit, KeptNext, <1>1, ExecImplementsCalls, PTL DEF Spec

\* Also with retried activities, a client that closes and a target that goes away, a
\* call ends once and with what CallOutcome allows (sqlite_temporal.pb.go).
THEOREM ExecImplementsOutcome == ExecSpec => EndsOnce
  BY ExecImplementsCalls, CallsImplementOutcome, PTL

Stages == {"idle", "sending", "waiting", "refused", "notSent", "received"}

\* A response is in the channel that belongs to its call, and what a workflow took
\* from its call's channel is its response.
InOwnChannel ==
  /\ \A m \in channels : m[2] \in WCalls /\ m[1] = SignalName(m[2])
  /\ wcall \in [WCalls -> Stages] /\ received \in [WCalls -> WCalls \cup {NoCall}]
  /\ OwnResponse

\* It is so before any call.
LEMMA ExecInitInv == ExecInit => InOwnChannel
  BY DEF ExecInit, InOwnChannel, OwnResponse, Stages

\* Names of signals differ for calls of one workflow, and those of workflows in their
\* receiver.
LEMMA OwnNames == \A v, w \in WCalls : SignalName(v) = SignalName(w) => v = w
  BY ExecAssumption DEF SignalName

\* Every step keeps it.
LEMMA ExecNextInv == InOwnChannel /\ [ExecNext]_callVars => InOwnChannel'
<1> SUFFICES ASSUME InOwnChannel, [ExecNext]_callVars PROVE InOwnChannel'
  OBVIOUS
<1>1. ASSUME NEW w \in WCalls, Receive(w) PROVE InOwnChannel'
  <2>1. PICK r \in WCalls : /\ <<SignalName(w), r>> \in channels
                            /\ channels' = channels \ {<<SignalName(w), r>>}
                            /\ received' = [received EXCEPT ![w] = r]
    BY <1>1 DEF Receive
  <2>2. r = w
    BY <2>1, OwnNames DEF InOwnChannel
  <2>3. \A v \in WCalls : SignalName(v)' = SignalName(v)
    BY DEF SignalName
  <2>4. wcall' = [wcall EXCEPT ![w] = "received"] /\ "received" \in Stages
    BY <1>1 DEF Receive, Wait, Stages
  <2> QED BY <2>1, <2>2, <2>3, <2>4 DEF InOwnChannel, OwnResponse
<1>2. ASSUME NEW w \in WCalls, Signal(w) PROVE InOwnChannel'
  BY <1>2 DEF InOwnChannel, OwnResponse, Signal, SignalName
<1>3. ASSUME NEW w \in WCalls, ExecExternal(w) \/ Sent(w) PROVE InOwnChannel'
  <2>1. PICK stage \in Stages : /\ wcall' = [wcall EXCEPT ![w] = stage]
                                /\ stage # "received" /\ UNCHANGED <<channels, received>>
    BY <1>3 DEF ExecExternal, Sent, Wait, Stages
  <2> QED BY <2>1 DEF InOwnChannel, OwnResponse, SignalName
<1>4. ASSUME UNCHANGED <<channels, wcall, received>> PROVE InOwnChannel'
  BY <1>4 DEF InOwnChannel, OwnResponse, SignalName
<1>5. ASSUME \/ NewClient \/ CloseClient \/ CloseTarget
             \/ \E c \in Calls : ClientCaller(c) \/ TimeOut(c)
             \/ \E p \in Parents : CloseParent(p)
             \/ \E r \in Calls \cup WCalls : Handle(r)
             \/ \E h \in Handlers : Finish(h) \/ \E c \in Calls : Start(h, c)
             \/ UNCHANGED callVars
      PROVE  UNCHANGED <<channels, wcall, received>>
  BY <1>5 DEF NewClient, CloseClient, CloseTarget, TimeOut, CloseParent, Handle, ClientCaller,
              Finish, Start, callVars, workflows
<1> QED BY <1>1, <1>2, <1>3, <1>4, <1>5 DEF ExecNext

\* However responses overtake each other, a workflow's call gets its own one: the
\* name of the signal has the request's id (SqliteChildRun.Exec).
THEOREM GetsOwnResponse == ExecSpec => []OwnResponse
<1>1. InOwnChannel => OwnResponse
  BY DEF InOwnChannel
<1> QED BY ExecInitInv, ExecNextInv, <1>1, PTL DEF ExecSpec
=============================================================================
