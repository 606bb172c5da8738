-------------------------- MODULE MCServiceGenerator ------------------------
(* ServiceGenerator on files in which one method, or one service, varies. *)
EXTENDS ServiceGenerator

Kinds == {"string", "bytes"}
Messages(fields) == UNION {[some -> Kinds] : some \in SUBSET fields}
Ided == [id |-> "string"]
Refs(name) == {<< >>, <<name>>, <<"Missing">>}

Method(name, option, in, out) ==
  [name |-> name, opts |-> {option}, in |-> in, out |-> out,
   query |-> << >>, signal |-> << >>, call |-> << >>, start |-> None, idField |-> None]
Workflow(in, query, signal, call, start, idField) ==
  [Method("W", "workflow", in, Empty) EXCEPT
     !.query = query, !.signal = signal, !.call = call, !.start = start, !.idField = idField]

W == Workflow(Ided, <<"Q">>, <<"S">>, <<"C">>, "S", "id")
A == Method("A", "activity", Empty, Ided)
Q == Method("Q", "query", Empty, Ided)
S == Method("S", "signal", Ided, Empty)
C == Method("C", "call", Ided @@ (TaskQueue :> "string") @@ (WorkflowId :> "string"), Ided)

WorkflowFiles ==
  {<< <<Workflow(in, q, s, c, start, idField), A, Q, S, C>> >> :
     in \in {Empty} \cup Messages({"id"}), q \in Refs("Q"), s \in Refs("S"), c \in Refs("C"),
     start \in {None, "S", "Q"}, idField \in {None, "id"}}
CallFiles ==
  {<< <<W, A, Q, S, Method("C", "call", in, out)>> >> :
     in \in {Empty} \cup Messages({"id", TaskQueue, WorkflowId}), out \in {Empty} \cup Messages({"id"})}
QueryAndSignalFiles ==
  {<< <<W, Method("Q", "query", in, out), S, C>> >> : in, out \in {Empty, Ided}}
  \cup {<< <<W, Q, Method("S", "signal", in, out), C>> >> : in, out \in {Empty, Ided}}
\* A second service, whose call may be a bad one, and a method with two options.
OtherFiles ==
  {<< >>, << << >> >>, << <<[W EXCEPT !.opts = {"workflow", "activity"}], Q, S, C>> >>}
  \cup {<<first, second>> :
          first \in {<<W, Q, S, C>>, <<W, Q, S>>},
          second \in {<<Method("D", "call", in, Ided), Method("B", "activity", Ided, Empty)>> :
                        in \in {Empty, C.in}}}

AllFiles == WorkflowFiles \cup CallFiles \cup QueryAndSignalFiles \cup OtherFiles
=============================================================================
