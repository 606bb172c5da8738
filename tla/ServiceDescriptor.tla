-------------------------- MODULE ServiceDescriptor -------------------------
(***************************************************************************)
(* temporalproto/cmd/protoc-gen-go_temporal/service.go: the services of a  *)
(* protobuf file as the generator sees them, and what it refuses.          *)
(*                                                                         *)
(* A service is a sequence of methods.  A method has a name, the set of    *)
(* its options, a request and a response type and, where it is a workflow, *)
(* what it refers to.  A message type maps its fields to their kinds.      *)
(***************************************************************************)
EXTENDS SequencesExt

CONSTANTS
  Empty,  (* google.protobuf.Empty                                          *)
  None    (* an optional reference that is not there                        *)

Options == {"workflow", "activity", "query", "signal", "call"}

Fields(message) == IF message = Empty THEN {} ELSE DOMAIN message
IsString(message, field) == field \in Fields(message) /\ message[field] = "string"

\* The methods among some, in the order of their definition.
Among(methods, some) ==
  LET kept[i \in 0 .. Len(methods)] ==
        IF i = 0 THEN << >>
        ELSE IF methods[i] \in some THEN Append(kept[i - 1], methods[i])
        ELSE kept[i - 1]
  IN  kept[Len(methods)]

\* newService: the methods of a kind.
Having(svc, option) == Among(svc, {m \in Range(svc) : option \in m.opts})
Names(svc, option) == {m.name : m \in Range(Having(svc, option))}

TaskQueue == "response_task_queue"
WorkflowId == "response_workflow_id"
FromClient(c) == TaskQueue \in Fields(c.in)
FromWorkflow(c) == WorkflowId \in Fields(c.in)

-----------------------------------------------------------------------------
(* Validation: the set of errors, each what is wrong and where.            *)

Unless(condition, error) == IF condition THEN {} ELSE {error}
Unresolved(refs, svc, option) == {<<option, r>> : r \in Range(refs) \ Names(svc, option)}

WorkflowErrors(svc, w) ==
  Unresolved(w.query, svc, "query") \cup Unresolved(w.signal, svc, "signal")
  \cup Unresolved(w.call, svc, "call")
  \cup Unless(w.start \in {None} \cup (Range(w.signal) \cap Names(svc, "signal")),
              <<"signal start", w.name>>)
  \cup Unless(w.idField = None \/ IsString(w.in, w.idField), <<"workflow ID field", w.name>>)

QueryErrors(q) == Unless(q.out # Empty, <<"response", q.name>>)
SignalErrors(s) == Unless(s.out = Empty, <<"response", s.name>>)

\* The response's id, too, is looked for in the request.
CallErrors(c) ==
  IF c.in = Empty THEN {<<"request", c.name>>}
  ELSE IF c.out = Empty THEN {<<"response", c.name>>}
  ELSE Unless(IsString(c.in, "id"), <<"id", c.name>>)
       \cup Unless(FromClient(c) => IsString(c.in, TaskQueue), <<TaskQueue, c.name>>)
       \cup Unless(FromClient(c) \/ FromWorkflow(c), <<"call", c.name>>)
       \cup Unless(FromWorkflow(c) => IsString(c.in, WorkflowId), <<WorkflowId, c.name>>)
       \cup Unless(IsString(c.in, "id"), <<"response id", c.name>>)

ServiceErrors(svc) ==
  (UNION {WorkflowErrors(svc, w) : w \in Range(Having(svc, "workflow"))})
  \cup (UNION {QueryErrors(q) : q \in Range(Having(svc, "query"))})
  \cup (UNION {SignalErrors(s) : s \in Range(Having(svc, "signal"))})
  \cup (UNION {CallErrors(c) : c \in Range(Having(svc, "call"))})
=============================================================================
