------------------------------ MODULE SurfaceRules ------------------------------
(***************************************************************************)
(* What the surfaces to users and to HTTP compute: questions and answers   *)
(* (plugin-interaction), who may reach the web console, its templates and  *)
(* tools (plugin-web-ui), and the run endpoints (plugin-hono).             *)
(*                                                                         *)
(* A string is [core, padded]: what trim() leaves, and whether there is    *)
(* white space around it.  Rejected stands for a validation error.         *)
(***************************************************************************)
EXTENDS Integers, Sequences, FiniteSets, SequencesExt

CONSTANTS Rejected, WrongType

Blank(x) == x.core = ""
Has(f, r) == f \in DOMAIN r
Cores(s) == [i \in DOMAIN s |-> s[i].core]

\* The loops that trim ids and refuse blank and repeated ones.
NormalizedIds(ids) ==
  IF (\E i \in DOMAIN ids : Blank(ids[i])) \/ ~ IsInjective(Cores(ids)) THEN Rejected ELSE Cores(ids)

(***************************************************************************)
(* Questions, answers and task lists                                       *)
(***************************************************************************)
FreezeChoices(kind, choices) ==
  CASE kind = "text" -> IF choices = <<>> THEN <<>> ELSE Rejected
    [] OTHER -> IF choices = <<>> THEN Rejected ELSE NormalizedIds(choices)

NormalizeQuestion(q) ==
  IF \/ q.kind \notin {"text", "single_choice", "multi_choice"}
     \/ Has("id", q) /\ Blank(q.id)
     \/ Has("timeoutMs", q) /\ q.timeoutMs <= 0
     \/ Blank(q.text)
     \/ FreezeChoices(q.kind, q.choices) = Rejected
  THEN Rejected
  ELSE [id |-> IF Has("id", q) THEN q.id.core ELSE "generated", kind |-> q.kind, choices |-> FreezeChoices(q.kind, q.choices)]

\* Mutant: ids are compared before they are trimmed.
NormalizeChoiceIdsRaw(question, response, many) ==
  LET raw == IF Has("choiceIds", response) THEN response.choiceIds
             ELSE IF Has("choiceId", response) THEN <<response.choiceId>> ELSE <<>>
  IN IF \/ ~ many /\ Len(raw) # 1
        \/ raw = <<>>
        \/ ~ IsInjective(raw)
        \/ ~ ToSet(Cores(raw)) \subseteq ToSet(question.choices)
     THEN Rejected ELSE Cores(raw)

\* choiceIds is looked at before choiceId.
NormalizeChoiceIds(question, response, many) ==
  LET raw == IF Has("choiceIds", response) THEN response.choiceIds
             ELSE IF Has("choiceId", response) THEN <<response.choiceId>> ELSE <<>>
  IN IF \/ ~ many /\ Len(raw) # 1
        \/ raw = <<>>
        \/ NormalizedIds(raw) = Rejected
        \/ ~ ToSet(NormalizedIds(raw)) \subseteq ToSet(question.choices)
     THEN Rejected ELSE NormalizedIds(raw)

NormalizeResponse(question, response) ==
  CASE question.kind = "text" ->
         IF Has("text", response) /\ ~ Blank(response.text) THEN <<response.text.core>> ELSE Rejected
    [] question.kind = "single_choice" -> NormalizeChoiceIds(question, response, FALSE)
    [] OTHER -> NormalizeChoiceIds(question, response, TRUE)

\* The JSON body of an answer; it, or a field, may be of the wrong type.
NormalizeResponsePayload(body) ==
  IF body = WrongType THEN Rejected
  ELSE IF (\E f \in DOMAIN body : body[f] = WrongType) \/ {"choiceId", "choiceIds"} \subseteq DOMAIN body
  THEN Rejected ELSE [f \in DOMAIN body \cap {"text", "choiceId", "choiceIds"} |-> body[f]]

CancelReason(body) ==
  LET given == body # WrongType /\ Has("reason", body) /\ body.reason # WrongType /\ ~ Blank(body.reason)
  IN IF given THEN body.reason.core ELSE "Question was cancelled by the user."

\* POST /questions/:id/answer; pending is a question, or <<>> when there is none.
AnswerStatus(pending, json, body) ==
  CASE ~ json -> 400
    [] NormalizeResponsePayload(body) = Rejected -> 400
    [] pending = <<>> -> 404
    [] NormalizeResponse(pending, NormalizeResponsePayload(body)) = Rejected -> 400
    [] OTHER -> 200

CancelStatus(pending, json) == IF ~ json THEN 400 ELSE IF pending = <<>> THEN 404 ELSE 200

FreezeTasks(tasks) ==
  IF (\E i \in DOMAIN tasks : tasks[i].status \notin {"pending", "in_progress", "completed"} \/ Blank(tasks[i].description))
     \/ NormalizedIds([i \in DOMAIN tasks |-> tasks[i].id]) = Rejected
  THEN Rejected ELSE [i \in DOMAIN tasks |-> [id |-> tasks[i].id.core, status |-> tasks[i].status]]

NormalizeTaskList(list) ==
  IF FreezeTasks(list.tasks) = Rejected \/ (Has("listId", list) /\ Blank(list.listId)) THEN Rejected
  ELSE [listId |-> IF Has("listId", list) THEN list.listId.core ELSE "default", tasks |-> FreezeTasks(list.tasks)]

SummarizeTaskList(list) ==
  [status \in {"pending", "in_progress", "completed"} |-> Cardinality({i \in DOMAIN list.tasks : list.tasks[i].status = status})]

\* An answer that is accepted answers the question: a text that is not blank, one
\* of the choices, or several of them without repetition; and a client error is
\* told apart from a question that is gone.
AnswersFit(q, json, body) ==
  LET question == NormalizeQuestion(q)
      payload  == NormalizeResponsePayload(body)
      status   == AnswerStatus(question, json, body)
      answer   == NormalizeResponse(question, payload)
  IN question # Rejected =>
       /\ IsInjective(question.choices)
       /\ (question.kind = "text") = (question.choices = <<>>)
       /\ status \in {200, 400}
       /\ AnswerStatus(<<>>, json, body) \in {400, 404}
       /\ status = 200 =>
            /\ IsInjective(answer) /\ answer # <<>>
            /\ question.kind # "text" => ToSet(answer) \subseteq ToSet(question.choices)
            /\ question.kind # "multi_choice" => Len(answer) = 1
       /\ CancelStatus(question, json) = 200 => CancelReason(body) # ""

\* The summary of a task list that is accepted counts each of its tasks once.
TasksCounted(list) ==
  LET done == NormalizeTaskList(list)
      sums == SummarizeTaskList(done)
  IN done # Rejected =>
       /\ sums["pending"] + sums["in_progress"] + sums["completed"] = Len(list.tasks)
       /\ IsInjective([i \in DOMAIN done.tasks |-> done.tasks[i].id])

(***************************************************************************)
(* Who may reach the web console                                           *)
(***************************************************************************)
\* An address: a name, IPv4 by its first byte, IPv4 mapped into IPv6, or IPv6 as
\* the groups before and after its "::".
ExpandedGroups(a) == IF a.compressed THEN a.head \o [i \in 1..(8 - Len(a.head) - Len(a.tail)) |-> 0] \o a.tail ELSE a.head

IsLoopback(a) ==
  CASE a.kind = "name" -> a.name = "localhost"
    [] a.kind \in {"v4", "mapped"} -> a.first = 127
    [] a.kind = "v6" -> LET groups == ExpandedGroups(a)
                        IN Len(groups) = 8 /\ (\A i \in 1..7 : groups[i] = 0) /\ groups[8] = 1

\* The server's view of the peer comes first; the request's own host is looked
\* at only where there is none and the host has been told to trust it.
ValidateExposure(request, security) ==
  \/ Has("peer", request) /\ IsLoopback(request.peer)
  \/ ~ Has("peer", request) /\ security.trustUrl /\ IsLoopback(request.host)
  \/ security.allowRemote /\ security.authorize # "none"

SafeMethods == {"GET", "HEAD", "OPTIONS"}
HasSessionToken(request) == request.token = "right"

ValidateOrigin(request) == request.origin \in {"none", "same"}

AuthorizeRead(request, security) ==
  \/ request.method \notin SafeMethods \/ ~ security.tokenForRead
  \/ request.path \in {"/health", "/session"}
  \/ HasSessionToken(request)

\* Mutant: the token alone decides.
AuthorizeMutationByToken(request) == request.method \in SafeMethods \/ HasSessionToken(request)

AuthorizeMutation(request) ==
  request.method \in SafeMethods \/ (ValidateOrigin(request) /\ HasSessionToken(request))

\* The middleware and then the route; routes that change something ask again.
Reaches(request, security) ==
  /\ ValidateExposure(request, security)
  /\ security.authorize \in {"none", "yes"}
  /\ AuthorizeRead(request, security)
  /\ AuthorizeMutation(request)

\* What changes something is reached only with the token, from the same origin or
\* none, and from this machine unless the host opted in to remote requests with a
\* check of its own; IPv6 loopback is ::1 however it is written.
ConsoleGuarded(request, security) ==
  /\ Reaches(request, security) /\ request.method \notin SafeMethods =>
       request.token = "right" /\ request.origin # "other"
  /\ Reaches(request, security) /\ Has("peer", request) /\ ~ IsLoopback(request.peer) =>
       security.allowRemote /\ security.authorize = "yes"
  /\ Reaches(request, security) /\ security.tokenForRead /\ request.path = "/config" => request.token = "right"

LoopbackIsOne(address) ==
  address.kind = "v6" /\ Len(ExpandedGroups(address)) = 8 =>
    (IsLoopback(address) <=> ExpandedGroups(address) = <<0, 0, 0, 0, 0, 0, 0, 1>>)

(***************************************************************************)
(* Templates and the agent's tools                                         *)
(***************************************************************************)
\* A runnable template writes a framework file, one agent and one harness.
RunnableTemplate(agent, protocol, roles, edges) ==
  [status |-> "runnable", agent |-> agent, primaryAgent |-> agent, harnessAgent |-> agent,
   protocol |-> protocol, roles |-> roles, edges |-> edges, effects |-> {"fs.read"}]

PreviewTemplate == [status |-> "preview", effects |-> {}]

Hierarchical == RunnableTemplate("hierarchical-planner", "hierarchy", <<"planner", "researcher", "builder", "verifier">>,
  {<<"planner", "researcher">>, <<"planner", "builder">>, <<"builder", "verifier">>, <<"verifier", "planner">>})
Pipeline == RunnableTemplate("pipeline-intake", "pipeline", <<"intake", "draft", "review", "final">>,
  {<<"intake", "draft">>, <<"draft", "review">>, <<"review", "final">>})
CriticVerifier == RunnableTemplate("critic-verifier-builder", "verifier-loop", <<"builder", "critic", "verifier">>,
  {<<"builder", "critic">>, <<"critic", "builder">>, <<"critic", "verifier">>})
HubSpoke == RunnableTemplate("hub-spoke-coordinator", "squad", <<"hub", "spoke-a", "spoke-b", "spoke-c">>,
  ({"hub"} \X {"spoke-a", "spoke-b", "spoke-c"}) \cup ({"spoke-a", "spoke-b", "spoke-c"} \X {"hub"}))

Previews == {"star-router", "peer-swarm", "blackboard", "debate", "market-bidding", "map-reduce"}
Templates ==
  [id \in Previews \cup {"hierarchical", "pipeline", "critic-verifier", "hub-spoke"} |->
     CASE id = "hierarchical" -> Hierarchical [] id = "pipeline" -> Pipeline
       [] id = "critic-verifier" -> CriticVerifier [] id = "hub-spoke" -> HubSpoke [] OTHER -> PreviewTemplate]

\* applyTemplate(): what is done, and under which key it is remembered.
ApplyTemplate(id, input, stored) ==
  CASE id \notin DOMAIN Templates -> "unknown"
    [] Templates[id].status # "runnable" -> "preview only"
    [] ~ Has("dryRun", input) \/ (Has("dryRun", input) /\ input.dryRun) -> "previewed"
    [] ~ Has("key", input) \/ (Has("key", input) /\ Blank(input.key)) -> "no key"
    [] <<id, input.key>> \in stored -> "answered before"
    [] OTHER -> "applied"

\* The tools an agent gets, with the effects a role's policy looks at.
AgentTools ==
  [web_ui_list_config |-> {"fs.read"}, web_ui_read_config |-> {"fs.read"},
   web_ui_validate_yaml |-> {"fs.read"}, web_ui_apply_template |-> {"fs.read", "fs.write"}]

\* Only a runnable template that is not a dry run and has a key not used before
\* writes, and its graph is one of its own roles, each of them reachable; a tool
\* without fs.write writes nothing.
TemplatesApply(id, input, stored) ==
  /\ ApplyTemplate(id, input, stored) = "applied" =>
       /\ Has("dryRun", input) /\ ~ input.dryRun /\ <<id, input.key>> \notin stored
       /\ LET t == Templates[id]
              Reached[n \in Nat] == IF n = 0 THEN {t.roles[1]}
                                    ELSE Reached[n - 1] \cup {e[2] : e \in {f \in t.edges : f[1] \in Reached[n - 1]}}
          IN /\ t.edges \subseteq ToSet(t.roles) \X ToSet(t.roles)
             /\ Reached[Len(t.roles)] = ToSet(t.roles) /\ IsInjective(t.roles)
             /\ \A other \in DOMAIN Templates \ Previews : other # id => Templates[other].agent # t.agent
  /\ \A tool \in DOMAIN AgentTools : "fs.write" \in AgentTools[tool] => tool = "web_ui_apply_template"

(***************************************************************************)
(* The run endpoints                                                       *)
(***************************************************************************)
\* readRequestText(): the sizes of the chunks that arrive.
\* Mutant: each chunk is compared with the limit alone.
ReadTextByChunk(chunks, limit) == IF \E i \in DOMAIN chunks : chunks[i] > limit THEN Rejected ELSE FoldLeft(+, 0, chunks)

ReadText(chunks, limit) ==
  LET size[n \in 0..Len(chunks)] == IF n = 0 THEN 0 ELSE size[n - 1] + chunks[n]
  IN IF \E n \in DOMAIN size : size[n] > limit THEN Rejected ELSE size[Len(chunks)]

MaxBodyBytes(configured) == IF configured < 1 THEN Rejected ELSE configured

\* A JSON object with an input is unpacked, anything else is the input.
ReadPayload(size, body) ==
  CASE size = 0 -> [input |-> "undefined"]
    [] body = "broken" -> Rejected
    [] body = "envelope" -> [input |-> "inner"]
    [] OTHER -> [input |-> body]

\* POST /run and POST /run/stream
RunStatus(mode, streams, refused, chunks, limit, body) ==
  CASE mode = "stream" /\ ~ streams -> 501
    [] refused -> 401
    [] ReadText(chunks, limit) = Rejected -> 400
    [] ReadPayload(ReadText(chunks, limit), body) = Rejected -> 400
    [] OTHER -> 200

\* createHonoSseResponse(): steps are what the iterator answers to next(), and
\* "abort" is the request's signal, seen before the iterator is asked again.
SseResponse(steps, abortAt) ==
  LET Stops(i) == i = abortAt \/ steps[i] \in {"done", "throw"}
      ends     == {i \in DOMAIN steps : Stops(i)}
      last     == IF ends = {} THEN Len(steps) + 1 ELSE CHOOSE i \in ends : \A j \in ends : i <= j
  IN [sent   |-> SubSeq(steps, 1, last - 1),
      errors |-> last \in DOMAIN steps /\ last # abortAt /\ steps[last] = "throw",
      cleaned |-> last \in DOMAIN steps /\ (last = abortAt \/ steps[last] = "throw")]

\* What runs is a body within the limit, as a whole and not in each of its parts,
\* asked for by somebody who was let in; and a stream sends what the iterator
\* gave before its end, and returns it when it is broken off.
RunsGuarded(mode, streams, refused, chunks, limit, body) ==
  LET total == FoldLeft(+, 0, chunks)
  IN MaxBodyBytes(limit) # Rejected /\ RunStatus(mode, streams, refused, chunks, limit, body) = 200 =>
       /\ total <= limit /\ ~ refused /\ (mode = "stream" => streams)
       /\ total > 0 => body # "broken"

StreamsInOrder(steps, abortAt) ==
  LET r == SseResponse(steps, abortAt)
  IN /\ IsPrefix(r.sent, steps) /\ ToSet(r.sent) \cap {"done", "throw"} = {}
     /\ r.errors => r.cleaned
     /\ abortAt \in DOMAIN steps /\ ToSet(SubSeq(steps, 1, abortAt)) \cap {"done", "throw"} = {} => r.cleaned
=============================================================================
