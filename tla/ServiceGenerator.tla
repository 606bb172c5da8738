-------------------------- MODULE ServiceGenerator --------------------------
(***************************************************************************)
(* temporalproto/cmd/protoc-gen-go_temporal: gen.go, gen_client.go and     *)
(* gen_worker.go, as what their functions declare in the generated Go file *)
(* and what the code they write there refers to.                           *)
(*                                                                         *)
(* A Go name is a pair: what it is called, with a place for the name of    *)
(* the protobuf method, and that method's name.  Methods of a Go type have *)
(* the type in front.  A field of a message is written as a triple.        *)
(***************************************************************************)
EXTENDS ServiceDescriptor, Naturals

CONSTANT Files  (* the files to generate from: sequences of services        *)

\* Services are sequences of methods, and these have a name.
ASSUME FileAssumption ==
  \A f \in Files :
    /\ f \in Seq({f[i] : i \in DOMAIN f})
    /\ \A i \in DOMAIN f : /\ f[i] \in Seq({f[i][k] : k \in DOMAIN f[i]})
                           /\ \A k \in DOMAIN f[i] : f[i][k].name # None

VARIABLES
  file,
  begun,     (* how many of its services genService has been called for     *)
  steps,     (* the generating functions still to be called for the last one *)
  declared,  (* names declared in the generated file                        *)
  clashes,   (* names declared again                                        *)
  used,      (* names and fields referred to                                *)
  failed,    (* services with errors                                        *)
  result     (* of gen()                                                    *)

vars == <<file, begun, steps, declared, clashes, used, failed, result>>

\* What a generating function writes.
Writes(declares, uses) == [declares |-> declares, uses |-> uses]
Of(name, methods) == {<<name, m>> : m \in methods}
In(type, w, members) == {<<type, w.name, m>> : m \in members}
FieldsOf(message, fields) == {<<"field", message, f>> : f \in fields}

\* The calls among some names that a client, and that a workflow, can make.
Calls(svc, names) == {c \in Range(Having(svc, "call")) : c.name \in names}
FromClients(svc, names) == {c.name : c \in {d \in Calls(svc, names) : FromClient(d)}}
FromWorkflows(svc, names) == {c.name : c \in {d \in Calls(svc, names) : FromWorkflow(d)}}

\* Methods of the interfaces Client and SomeWorkflowRun: calls only if a client
\* can make them.
ClientMethods(svc) ==
  Of("Client.Execute%", Names(svc, "workflow")) \cup Of("Client.Get%", Names(svc, "workflow"))
  \cup Of("Client.%", Names(svc, "query") \cup Names(svc, "signal")
                      \cup FromClients(svc, Names(svc, "call")))
RunMethods(svc, w) ==
  Range(w.query) \cup Range(w.signal) \cup FromClients(svc, Range(w.call))

-----------------------------------------------------------------------------
(* gen.go and gen_client.go.                                               *)

genConstants(m, option) ==
  IF option = "call" THEN Writes({<<"%SignalName", m.name>>, <<"%ResponseName", m.name>>}, {})
  ELSE Writes({<<"%Name", m.name>>}, {})

genClientInterface(svc) ==
  Writes({<<"Client", None>>}, Of("%Run", Names(svc, "workflow")))
genClientOptions == Writes({<<"ClientOptions", None>>}, {<<"CallResponseHandler", None>>})
genCallResponseHandler == Writes({<<"CallResponseHandler", None>>}, {})
genClientImplStruct == Writes({<<"clientImpl", None>>}, {<<"CallResponseHandler", None>>})

\* It returns the implementation as a Client, so that has the methods of Client.
genClientImplConstructor(svc) ==
  Writes({<<"NewClient", None>>},
         {<<"Client", None>>, <<"ClientOptions", None>>, <<"clientImpl", None>>}
         \cup ClientMethods(svc)
         \cup Of("%ResponseName", FromClients(svc, Names(svc, "call"))))

\* The implementation of Execute returns the workflow's run as its interface.
genClientImplWorkflowMethods(svc, w) ==
  Writes({<<"Client.Execute%", w.name>>, <<"Client.Get%", w.name>>},
         {<<"clientImpl", None>>, <<"%Name", w.name>>, <<"%Run", w.name>>, <<"private %Run", w.name>>}
         \cup In("%Run", w, RunMethods(svc, w)) \cup Of("%Name", {w.start} \ {None})
         \cup FieldsOf(w.in, {w.idField} \ {None}))

genClientImplQueryMethod(q) ==
  Writes({<<"Client.%", q.name>>}, {<<"clientImpl", None>>, <<"%Name", q.name>>})
genClientImplSignalMethod(s) == genClientImplQueryMethod(s)
genClientImplCallMethod(c) ==
  Writes({<<"Client.%", c.name>>},
         {<<"clientImpl", None>>, <<"%SignalName", c.name>>}
         \cup FieldsOf(c.in, {"id", TaskQueue}))

genWorkflowRunInterface(w) == Writes({<<"%Run", w.name>>}, {})
genWorkflowRunImpl(w) ==
  LET members == Range(w.query) \cup Range(w.signal) \cup Range(w.call)
  IN  Writes({<<"private %Run", w.name>>} \cup In("%Run", w, members),
             {<<"clientImpl", None>>} \cup Of("Client.%", members))

-----------------------------------------------------------------------------
(* gen_worker.go.                                                          *)

genWorkflowImplInterface(w) ==
  Writes({<<"%Impl", w.name>>} \cup In("%Impl", w, Range(w.query)), {})

genWorkflowInput(w) ==
  LET members == Range(w.signal) \cup Range(w.call)
  IN  Writes({<<"%Input", w.name>>} \cup In("%Input", w, members), Of("%", members))

genWorkflowWorker(w) ==
  Writes(Of("private %Worker", {w.name}) \cup Of("Build%", {w.name}) \cup Of("Register%", {w.name}),
         {<<"%Input", w.name>>, <<"%Impl", w.name>>}
         \cup In("%Input", w, Range(w.signal) \cup Range(w.call)) \cup In("%Impl", w, Range(w.query))
         \cup Of("%Name", {w.name} \cup Range(w.signal) \cup Range(w.query))
         \cup Of("%SignalName", Range(w.call)))

genSignal(s) == Writes({<<"%", s.name>>}, {})

\* Respond has to return on every path; it does where there is a branch for one
\* kind of caller or a final one.
genCall(c) ==
  Writes({<<"%", c.name>>}
         \cup (IF FromClient(c) \/ FromWorkflow(c) THEN {<<"%.Respond returns", c.name>>} ELSE {}),
         {<<"%.Respond returns", c.name>>, <<"%ResponseName", c.name>>}
         \cup FieldsOf(c.out, {"id"})
         \cup FieldsOf(c.in, {"id"} \cup ({TaskQueue, WorkflowId} \cap Fields(c.in))))

genWorkflowChild(svc, w) ==
  LET calls == FromWorkflows(svc, Range(w.call))
  IN  Writes({<<"%Child", w.name>>, <<"%ChildRun", w.name>>}
             \cup In("%ChildRun", w, Range(w.signal) \cup calls),
             Of("%Name", {w.name} \cup Range(w.signal)) \cup FieldsOf(w.in, {w.idField} \ {None})
             \cup Of("%ResponseExternal", calls) \cup Of("%ResponseName", calls)
             \cup Of("%SignalName", calls))

genSignalExternal(s) == Writes({<<"%External", s.name>>}, {<<"%Name", s.name>>})

genCallExternal(c) ==
  Writes({<<"%External", c.name>>, <<"%ResponseExternal", c.name>>},
         {<<"%ResponseName", c.name>>, <<"%SignalName", c.name>>}
         \cup FieldsOf(c.in, {"id", WorkflowId} \cup ({TaskQueue} \cap Fields(c.in))))

genActivitiesImpl(svc) ==
  LET names == Names(svc, "activity")
  IN  IF names = {} THEN Writes({}, {})
      ELSE Writes({<<"ActivitiesImpl", None>>, <<"RegisterActivities", None>>}, Of("Register%", names))

genActivity(a) ==
  Writes({<<"Register%", a.name>>, <<"%", a.name>>, <<"%Local", a.name>>, <<"%Future", a.name>>},
         {<<"%Name", a.name>>})

-----------------------------------------------------------------------------
(* The calls of generating functions for a service, in their order.        *)

Once(gen) == <<[gen |-> gen, of |-> None]>>
EachOf(gens, methods) ==
  FlattenSeq([i \in DOMAIN methods |->
                [j \in DOMAIN gens |-> [gen |-> gens[j], of |-> methods[i]]]])
Each(gen, methods) == EachOf(<<gen>>, methods)

\* Mutant of genWorker: the types of responses are written for calls of clients.
genWorkerClients(svc) ==
  FlattenSeq(<<EachOf(<<"genWorkflowImplInterface", "genWorkflowInput", "genWorkflowWorker">>,
                      Having(svc, "workflow")),
    Each("genSignal", Having(svc, "signal")), Each("genCall", Having(svc, "call")),
    Each("genWorkflowChild", Having(svc, "workflow")), Each("genSignalExternal", Having(svc, "signal")),
    Each("genCallExternal", Among(Having(svc, "call"), {c \in Range(svc) : FromClient(c)})),
    Once("genActivitiesImpl"), Each("genActivity", Having(svc, "activity"))>>)

genWorker(svc) ==
  FlattenSeq(<<EachOf(<<"genWorkflowImplInterface", "genWorkflowInput", "genWorkflowWorker">>,
                      Having(svc, "workflow")),
    Each("genSignal", Having(svc, "signal")), Each("genCall", Having(svc, "call")),
    Each("genWorkflowChild", Having(svc, "workflow")), Each("genSignalExternal", Having(svc, "signal")),
    Each("genCallExternal", Among(Having(svc, "call"), {c \in Range(svc) : FromWorkflow(c)})),
    Once("genActivitiesImpl"), Each("genActivity", Having(svc, "activity"))>>)

genClient(svc) ==
  FlattenSeq(<<Once("genClientInterface"), Once("genClientOptions"), Once("genCallResponseHandler"),
    Once("genClientImplStruct"), Once("genClientImplConstructor"),
    Each("genClientImplWorkflowMethods", Having(svc, "workflow")),
    Each("genClientImplQueryMethod", Having(svc, "query")),
    Each("genClientImplSignalMethod", Having(svc, "signal")),
    Each("genClientImplCallMethod", Having(svc, "call")),
    EachOf(<<"genWorkflowRunInterface", "genWorkflowRunImpl">>, Having(svc, "workflow"))>>)

genService(svc) ==
  Each("workflow", Having(svc, "workflow")) \o Each("activity", Having(svc, "activity"))
  \o Each("query", Having(svc, "query")) \o Each("signal", Having(svc, "signal"))
  \o Each("call", Having(svc, "call")) \o genClient(svc) \o genWorker(svc)

Written(svc, gen, m) ==
  CASE gen \in Options -> genConstants(m, gen)
    [] gen = "genClientInterface" -> genClientInterface(svc)
    [] gen = "genClientOptions" -> genClientOptions
    [] gen = "genCallResponseHandler" -> genCallResponseHandler
    [] gen = "genClientImplStruct" -> genClientImplStruct
    [] gen = "genClientImplConstructor" -> genClientImplConstructor(svc)
    [] gen = "genClientImplWorkflowMethods" -> genClientImplWorkflowMethods(svc, m)
    [] gen = "genClientImplQueryMethod" -> genClientImplQueryMethod(m)
    [] gen = "genClientImplSignalMethod" -> genClientImplSignalMethod(m)
    [] gen = "genClientImplCallMethod" -> genClientImplCallMethod(m)
    [] gen = "genWorkflowRunInterface" -> genWorkflowRunInterface(m)
    [] gen = "genWorkflowRunImpl" -> genWorkflowRunImpl(m)
    [] gen = "genWorkflowImplInterface" -> genWorkflowImplInterface(m)
    [] gen = "genWorkflowInput" -> genWorkflowInput(m)
    [] gen = "genWorkflowWorker" -> genWorkflowWorker(m)
    [] gen = "genSignal" -> genSignal(m)
    [] gen = "genCall" -> genCall(m)
    [] gen = "genWorkflowChild" -> genWorkflowChild(svc, m)
    [] gen = "genSignalExternal" -> genSignalExternal(m)
    [] gen = "genCallExternal" -> genCallExternal(m)
    [] gen = "genActivitiesImpl" -> genActivitiesImpl(svc)
    [] gen = "genActivity" -> genActivity(m)

\* The pointers to fields of a call that a function uses without a check, which
\* are nil if validation accepts a call without the field.
Dereferences(gen) ==
  CASE gen = "genClientImplCallMethod" -> {"id", TaskQueue}
    [] gen \in {"genCall", "genCallExternal"} -> {"id"}
    [] OTHER -> {}
IsNil(step) == \E f \in Dereferences(step.gen) : f \notin Fields(step.of.in)

-----------------------------------------------------------------------------
Init ==
  /\ file \in Files /\ begun = 0 /\ steps = << >>
  /\ declared = {} /\ clashes = {} /\ used = {} /\ failed = {} /\ result = "running"

\* Services are gone through to the last, whatever is wrong with one.
NewService ==
  /\ result = "running" /\ steps = << >> /\ begun < Len(file) /\ begun' = begun + 1
  /\ \/ /\ ServiceErrors(file[begun + 1]) = {}
        /\ steps' = genService(file[begun + 1]) /\ UNCHANGED failed
     \/ /\ ServiceErrors(file[begun + 1]) # {}
        /\ failed' = failed \cup {begun + 1} /\ UNCHANGED steps
  /\ UNCHANGED <<file, declared, clashes, used, result>>

Generate ==
  LET w == Written(file[begun], Head(steps).gen, Head(steps).of)
  IN  /\ result = "running" /\ steps # << >> /\ ~IsNil(Head(steps))
      /\ clashes' = clashes \cup (declared \cap w.declares)
      /\ declared' = declared \cup w.declares /\ used' = used \cup w.uses
      /\ steps' = Tail(steps)
      /\ UNCHANGED <<file, begun, failed, result>>

\* A nil pointer ends the program.
Panic ==
  /\ result = "running" /\ steps # << >> /\ IsNil(Head(steps)) /\ result' = "panic"
  /\ UNCHANGED <<file, begun, steps, declared, clashes, used, failed>>

Finish ==
  /\ result = "running" /\ steps = << >> /\ begun = Len(file)
  /\ result' = (IF failed = {} THEN "ok" ELSE "error")
  /\ UNCHANGED <<file, begun, steps, declared, clashes, used, failed>>

Next == NewService \/ Generate \/ Panic \/ Finish

Spec == Init /\ [][Next]_vars

-----------------------------------------------------------------------------
(* Properties.                                                             *)

Methods == UNION {Range(file[i]) : i \in DOMAIN file}

\* What the generator leaves to the author of a file: a method has one option, a
\* workflow lists an item once, methods of all services have different names,
\* and a call has a response_task_queue and a response with an id.
WellFormed ==
  /\ \A i, j \in DOMAIN file : \A k \in DOMAIN file[i], l \in DOMAIN file[j] :
       file[i][k].name = file[j][l].name => i = j /\ k = l
  /\ \A m \in Methods :
       /\ \A o, p \in m.opts : o = p
       /\ \A refs \in {m.query, m.signal, m.call} : IsInjective(refs)
       /\ "call" \in m.opts => FromClient(m) /\ IsString(m.out, "id")

\* The Go file compiles: every name, method, field and constant that one
\* generating function refers to is written by another, and none twice - but for
\* the names that every service has, if there are several services in the file.
Compiles ==
  WellFormed =>
    /\ result # "panic"
    /\ result = "ok" =>
         /\ \A n \in used : IF n[1] = "field" THEN IsString(n[2], n[3]) ELSE n \in declared
         /\ \A n \in clashes : n[2] = None /\ Len(file) > 1

\* What sdk.proto says of calls ("either or both of response_task_queue or
\* response_workflow_id"): a file that passes validation is generated.
GeneratesAccepted == result # "panic"

\* What README.md says of calls ("Every call response must have an id field"): a
\* file whose calls have none is not accepted.
ResponseHasId ==
  result = "ok" => \A m \in Methods : "call" \in m.opts => "id" \in Fields(m.out)
=============================================================================
