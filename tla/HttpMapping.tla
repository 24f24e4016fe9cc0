----------------------------- MODULE HttpMapping -----------------------------
(***************************************************************************)
(* What a call of the API turns into on its way there and back: the        *)
(* generated client (internal/adapters/apiclient) builds a request, the    *)
(* generated server (internal/adapters/httpapi/server.gen.go) routes,      *)
(* binds and decodes it, a response type writes the outcome, the client    *)
(* parses it, and the driver of the acceptance specifications              *)
(* (specifications/container) makes of that what its caller is told.       *)
(*                                                                         *)
(* A path is the sequence of its segments, a JSON object a function from   *)
(* the fields that are present, a Location its path and its number.        *)
(***************************************************************************)
EXTENDS ProjectionTables

CONSTANT Garbled   \* a body that breaks off half way

-----------------------------------------------------------------------------
(***************************************************************************)
(* The client builds a request.                                            *)
(***************************************************************************)
NewRequest(method, path, query, body) ==
  [method |-> method, path |-> path, query |-> query, body |-> body]

\* json.Marshal with omitempty: a field that is nil is left out.
Marshal(object) == [f \in {g \in DOMAIN object : object[g] # Nil} |-> object[f]]

StartConversationBody(cmd) ==
  Marshal([resourceUrl |-> cmd.resource, threadTitle |-> cmd.title, author |-> cmd.author,
           recipients |-> cmd.recipients, message |-> cmd.message])

AddThreadBody(cmd) ==
  Marshal([threadTitle |-> cmd.title, author |-> cmd.author,
           recipients |-> cmd.recipients, message |-> cmd.message])

ReplyToThreadBody(cmd) == Marshal([author |-> cmd.author, text |-> cmd.message])

NewGetConversationsByParticipantRequest(cmd) ==
  NewRequest("GET", <<"conversations">>, [participant_id |-> cmd.participant], Nil)

NewStartConversationRequest(cmd) ==
  NewRequest("POST", <<"conversations">>, <<>>, StartConversationBody(cmd))

NewListConversationEventsRequest(cmd) ==
  NewRequest("GET", <<"conversations", cmd.conversation, "events">>, <<>>, Nil)

NewAddThreadRequest(cmd) ==
  NewRequest("POST", <<"conversations", cmd.conversation, "threads">>, <<>>, AddThreadBody(cmd))

NewReplyToThreadRequest(cmd) ==
  NewRequest("POST", <<"conversations", cmd.conversation, "threads", cmd.thread, "messages">>,
             <<>>, ReplyToThreadBody(cmd))

ParticipantPath(cmd) ==
  <<"conversations", cmd.conversation, "threads", cmd.thread, "participants", cmd.participant>>

NewRemoveThreadParticipantRequest(cmd) == NewRequest("DELETE", ParticipantPath(cmd), <<>>, Nil)

NewAddThreadParticipantRequest(cmd) == NewRequest("PUT", ParticipantPath(cmd), <<>>, Nil)

\* Mutant of NewGetConversationRequest: after is not passed on.
NewGetConversationRequestNow(cmd) ==
  NewRequest("GET", <<"conversations", cmd.conversation>>, <<>>, Nil)

NewGetConversationRequest(cmd) ==
  NewRequest("GET", <<"conversations", cmd.conversation>>, Marshal([after |-> cmd.after]), Nil)

RequestFor(cmd) ==
  CASE cmd.kind = "byParticipant"     -> NewGetConversationsByParticipantRequest(cmd)
    [] cmd.kind = "start"             -> NewStartConversationRequest(cmd)
    [] cmd.kind = "events"            -> NewListConversationEventsRequest(cmd)
    [] cmd.kind = "addThread"         -> NewAddThreadRequest(cmd)
    [] cmd.kind = "reply"             -> NewReplyToThreadRequest(cmd)
    [] cmd.kind = "removeParticipant" -> NewRemoveThreadParticipantRequest(cmd)
    [] cmd.kind = "addParticipant"    -> NewAddThreadParticipantRequest(cmd)
    [] cmd.kind = "get"               -> NewGetConversationRequest(cmd)

-----------------------------------------------------------------------------
(***************************************************************************)
(* The server routes it and makes a command of it.                         *)
(***************************************************************************)
Handle(method, pattern, operation) ==
  [method |-> method, pattern |-> pattern, operation |-> operation]

\* Mutant of Routes: PUT and DELETE of a participant are swapped.
RoutesSwapped ==
  {Handle("GET",    <<"conversations">>, "byParticipant"),
   Handle("POST",   <<"conversations">>, "start"),
   Handle("GET",    <<"conversations", "{}", "events">>, "events"),
   Handle("POST",   <<"conversations", "{}", "threads">>, "addThread"),
   Handle("POST",   <<"conversations", "{}", "threads", "{}", "messages">>, "reply"),
   Handle("PUT",    <<"conversations", "{}", "threads", "{}", "participants", "{}">>, "removeParticipant"),
   Handle("DELETE", <<"conversations", "{}", "threads", "{}", "participants", "{}">>, "addParticipant"),
   Handle("GET",    <<"conversations", "{}">>, "get")}

Routes ==
  {Handle("GET",    <<"conversations">>, "byParticipant"),
   Handle("POST",   <<"conversations">>, "start"),
   Handle("GET",    <<"conversations", "{}", "events">>, "events"),
   Handle("POST",   <<"conversations", "{}", "threads">>, "addThread"),
   Handle("POST",   <<"conversations", "{}", "threads", "{}", "messages">>, "reply"),
   Handle("DELETE", <<"conversations", "{}", "threads", "{}", "participants", "{}">>, "removeParticipant"),
   Handle("PUT",    <<"conversations", "{}", "threads", "{}", "participants", "{}">>, "addParticipant"),
   Handle("GET",    <<"conversations", "{}">>, "get")}

\* net/http.ServeMux: a wildcard stands for one segment that is not empty.
Matches(route, request) ==
  /\ route.method = request.method
  /\ Len(route.pattern) = Len(request.path)
  /\ \A i \in DOMAIN route.pattern : IF route.pattern[i] = "{}"
                                     THEN request.path[i] # ""
                                     ELSE request.path[i] = route.pattern[i]

\* What a request is if it does not become a command: answered by the mux, or
\* by the error handlers of wrapper and strict handler.
Unrouted  == [kind |-> "unrouted"]
Malformed == [kind |-> "malformed"]

\* A decoded JSON object or query has nil for a field that is absent.
Field(object, f) == IF f \in DOMAIN object THEN object[f] ELSE Nil

\* The wrappers take the parameters from the path and the query.
BindGetConversationsByParticipant(request) ==
  IF Field(request.query, "participant_id") = Nil
  THEN Malformed
  ELSE [kind |-> "byParticipant", participant |-> request.query.participant_id]

BindListConversationEvents(request) ==
  [kind |-> "events", conversation |-> request.path[2]]

BindAddThread(request) == [conversation |-> request.path[2]]

BindReplyToThread(request) == [conversation |-> request.path[2], thread |-> request.path[4]]

BindRemoveThreadParticipant(request) ==
  [kind |-> "removeParticipant", conversation |-> request.path[2], thread |-> request.path[4],
   participant |-> request.path[6]]

BindAddThreadParticipant(request) ==
  [kind |-> "addParticipant", conversation |-> request.path[2], thread |-> request.path[4],
   participant |-> request.path[6]]

BindGetConversation(request) ==
  [kind |-> "get", conversation |-> request.path[2], after |-> Field(request.query, "after")]

\* The strict handlers decode the body.
DecodeStartConversation(body) ==
  IF body = Garbled THEN Malformed
  ELSE [kind |-> "start", resource |-> Field(body, "resourceUrl"),
        title |-> Field(body, "threadTitle"), author |-> Field(body, "author"),
        recipients |-> Field(body, "recipients"), message |-> Field(body, "message")]

DecodeAddThread(params, body) ==
  IF body = Garbled THEN Malformed
  ELSE [kind |-> "addThread", conversation |-> params.conversation,
        title |-> Field(body, "threadTitle"), author |-> Field(body, "author"),
        recipients |-> Field(body, "recipients"), message |-> Field(body, "message")]

DecodeReplyToThread(params, body) ==
  IF body = Garbled THEN Malformed
  ELSE [kind |-> "reply", conversation |-> params.conversation, thread |-> params.thread,
        author |-> Field(body, "author"), message |-> Field(body, "text")]

CommandOf(operation, request) ==
  CASE operation = "byParticipant"     -> BindGetConversationsByParticipant(request)
    [] operation = "start"             -> DecodeStartConversation(request.body)
    [] operation = "events"            -> BindListConversationEvents(request)
    [] operation = "addThread"         -> DecodeAddThread(BindAddThread(request), request.body)
    [] operation = "reply"             -> DecodeReplyToThread(BindReplyToThread(request), request.body)
    [] operation = "removeParticipant" -> BindRemoveThreadParticipant(request)
    [] operation = "addParticipant"    -> BindAddThreadParticipant(request)
    [] operation = "get"               -> BindGetConversation(request)

ServeHTTP(request) ==
  LET matching == {route \in Routes : Matches(route, request)}
  IN  IF matching = {}
      THEN Unrouted
      ELSE CommandOf((CHOOSE route \in matching : TRUE).operation, request)

-----------------------------------------------------------------------------
(***************************************************************************)
(* The server writes the outcome: a status and what goes with it.          *)
(***************************************************************************)
Outcome(status, content) == [status |-> status, content |-> content]

Response(status, type, location, body) ==
  [status |-> status, type |-> type, location |-> location, body |-> body]

\* http.Error and the mux write plain text.
TextResponse(status) == Response(status, "text", Nil, Nil)

Location(result) == [path |-> <<"conversations", result.conversation>>, after |-> result.sequence]

\* The response types of an operation: those with a Location or no content at
\* all, and those with JSON.  For any other outcome the handler returns the
\* error, and the strict handler makes it 500.
Visit(outcome, bare, json) ==
  CASE outcome.status \in json -> Response(outcome.status, "json", Nil, outcome.content)
    [] outcome.status \in bare -> Response(outcome.status, "none", outcome.content, Nil)
    [] OTHER -> TextResponse("500")

VisitGetConversationsByParticipant(outcome) == Visit(outcome, {}, {"200"})

\* Mutant of VisitStartConversation: the refusal is written as plain text.
VisitStartConversationAsText(outcome) ==
  IF outcome.status = "400" THEN TextResponse("400") ELSE Visit(outcome, {"202"}, {})

VisitStartConversation(outcome)       == Visit(outcome, {"202"}, {"400"})

VisitListConversationEvents(outcome)  == Visit(outcome, {}, {"200", "404"})

VisitAddThread(outcome)               == Visit(outcome, {"202"}, {"400", "404"})

VisitReplyToThread(outcome)           == Visit(outcome, {"202"}, {"400", "403", "404"})

VisitRemoveThreadParticipant(outcome) == Visit(outcome, {"202", "204"}, {"400", "404"})

VisitAddThreadParticipant(outcome)    == Visit(outcome, {"202", "204"}, {"400", "404"})

VisitGetConversation(outcome)         == Visit(outcome, {"202"}, {"200", "404"})

ResponseTo(cmd, outcome) ==
  CASE cmd.kind = "unrouted"          -> TextResponse("404")
    [] cmd.kind = "malformed"         -> TextResponse("400")
    [] cmd.kind = "byParticipant"     -> VisitGetConversationsByParticipant(outcome)
    [] cmd.kind = "start"             -> VisitStartConversation(outcome)
    [] cmd.kind = "events"            -> VisitListConversationEvents(outcome)
    [] cmd.kind = "addThread"         -> VisitAddThread(outcome)
    [] cmd.kind = "reply"             -> VisitReplyToThread(outcome)
    [] cmd.kind = "removeParticipant" -> VisitRemoveThreadParticipant(outcome)
    [] cmd.kind = "addParticipant"    -> VisitAddThreadParticipant(outcome)
    [] cmd.kind = "get"               -> VisitGetConversation(outcome)

(***************************************************************************)
(* Views and events in JSON.  A view is the list of its threads, and a     *)
(* message in it an author.                                                *)
(***************************************************************************)
ToThread(thread) ==
  [id |-> thread.id, participants |-> thread.participants,
   messages |-> [i \in DOMAIN thread.messages |-> [author |-> thread.messages[i]]]]

ToConversation(view) ==
  [id |-> view.id, threads |-> [i \in DOMAIN view.threads |-> ToThread(view.threads[i])]]

\* One flat shape for every type of event, with the fields of its type; which
\* conversation it belongs to is left out.
ToEvent(record) ==
  LET e == record.event
      n == record.sequence
  IN  CASE e.type = "ConversationCreated" -> [sequence |-> n, type |-> e.type]
        [] e.type = "ThreadStarted" ->
             [sequence |-> n, type |-> e.type, threadId |-> e.thread, author |-> e.author,
              recipients |-> e.recipients]
        [] e.type = "MessagePosted" ->
             [sequence |-> n, type |-> e.type, threadId |-> e.thread, author |-> e.author]
        [] e.type \in {"ParticipantAdded", "ParticipantRemoved"} ->
             [sequence |-> n, type |-> e.type, threadId |-> e.thread, participantId |-> e.participant]

-----------------------------------------------------------------------------
(***************************************************************************)
(* The client parses the response: JSON of a documented status only.       *)
(***************************************************************************)
Parse(response, documented) ==
  [status |-> response.status, location |-> response.location,
   json |-> IF response.type = "json" /\ response.status \in documented
            THEN response.body
            ELSE Nil]

ParseGetConversationsByParticipantResponse(response) == Parse(response, {"200"})

ParseStartConversationResponse(response)       == Parse(response, {"400"})

ParseListConversationEventsResponse(response)  == Parse(response, {"200", "404"})

ParseAddThreadResponse(response)               == Parse(response, {"400", "404"})

ParseReplyToThreadResponse(response)           == Parse(response, {"400", "403", "404"})

ParseRemoveThreadParticipantResponse(response) == Parse(response, {"400", "404"})

ParseAddThreadParticipantResponse(response)    == Parse(response, {"400", "404"})

ParseGetConversationResponse(response)         == Parse(response, {"200", "404"})

(***************************************************************************)
(* The driver makes a verdict of it.                                       *)
(***************************************************************************)
Verdict(result) == [result |-> result]

\* parseConversationLocation; without the header there is no number to parse.
ParseConversationLocation(location) ==
  IF location = Nil
  THEN Verdict("error")
  ELSE [result |-> "accepted", conversation |-> location.path[2], sequence |-> location.after]

\* The reason comes from the server, if it gave one.
ValidationError(parsed) ==
  [result |-> "refused", reason |-> IF parsed.json = Nil THEN "request rejected" ELSE parsed.json]

DriverStartConversation(parsed) ==
  CASE parsed.status = "400" -> ValidationError(parsed)
    [] parsed.status = "202" -> ParseConversationLocation(parsed.location)
    [] OTHER -> Verdict("error")

DriverAddThread(parsed) ==
  CASE parsed.status = "400" -> ValidationError(parsed)
    [] parsed.status = "404" -> Verdict("not found")
    [] parsed.status = "202" -> ParseConversationLocation(parsed.location)
    [] OTHER -> Verdict("error")

DriverReplyToThread(parsed) ==
  CASE parsed.status = "400" -> ValidationError(parsed)
    [] parsed.status = "403" -> Verdict("forbidden")
    [] parsed.status = "404" -> Verdict("not found")
    [] parsed.status = "202" -> ParseConversationLocation(parsed.location)
    [] OTHER -> Verdict("error")

\* manageThreadParticipantResponse knows no 400.
DriverManageThreadParticipant(parsed) ==
  CASE parsed.status = "204" -> Verdict("unchanged")
    [] parsed.status = "404" -> Verdict("not found")
    [] parsed.status = "202" -> ParseConversationLocation(parsed.location)
    [] OTHER -> Verdict("error")

ToThreadView(thread) ==
  [id |-> thread.id, participants |-> thread.participants,
   messages |-> [i \in DOMAIN thread.messages |-> thread.messages[i].author]]

ToConversationView(c) ==
  [id |-> c.id, threads |-> [i \in DOMAIN c.threads |-> ToThreadView(c.threads[i])]]

\* toEventRecord: which event it is goes by the type; a field that is missing
\* is taken to be empty, and the conversation is not in the answer.
ToEventRecord(e) ==
  LET stringOrEmpty(f) == IF f \in DOMAIN e THEN e[f] ELSE ""
      recipients == IF "recipients" \in DOMAIN e THEN e.recipients ELSE <<>>
  IN  [sequence |-> e.sequence, event |->
         CASE e.type = "ConversationCreated" -> ConversationCreated("")
           [] e.type = "ThreadStarted" ->
                ThreadStarted("", stringOrEmpty("threadId"), stringOrEmpty("author"), recipients)
           [] e.type = "MessagePosted" ->
                MessagePosted("", stringOrEmpty("threadId"), stringOrEmpty("author"))
           [] e.type = "ParticipantAdded" ->
                ParticipantAdded("", stringOrEmpty("threadId"), stringOrEmpty("participantId"))
           [] e.type = "ParticipantRemoved" ->
                ParticipantRemoved("", stringOrEmpty("threadId"), stringOrEmpty("participantId"))]

DriverListConversationEvents(parsed) ==
  CASE parsed.status = "200" /\ parsed.json # Nil ->
         [result |-> "events", records |-> [i \in DOMAIN parsed.json |-> ToEventRecord(parsed.json[i])]]
    [] parsed.status = "404" -> Verdict("not found")
    [] OTHER -> Verdict("error")

DriverGetConversationsByParticipant(parsed) ==
  IF parsed.status # "200" \/ parsed.json = Nil
  THEN Verdict("error")
  ELSE [result |-> "views", views |-> {ToConversationView(c) : c \in parsed.json}]

DriverGetConversation(parsed) ==
  CASE parsed.status = "200" /\ parsed.json # Nil ->
         [result |-> "view", view |-> ToConversationView(parsed.json)]
    [] parsed.status = "202" -> Verdict("not caught up")
    [] parsed.status = "404" -> Verdict("not found")
    [] OTHER -> Verdict("error")

VerdictOn(cmd, response) ==
  CASE cmd.kind = "byParticipant" ->
         DriverGetConversationsByParticipant(ParseGetConversationsByParticipantResponse(response))
    [] cmd.kind = "start" -> DriverStartConversation(ParseStartConversationResponse(response))
    [] cmd.kind = "events" ->
         DriverListConversationEvents(ParseListConversationEventsResponse(response))
    [] cmd.kind = "addThread" -> DriverAddThread(ParseAddThreadResponse(response))
    [] cmd.kind = "reply" -> DriverReplyToThread(ParseReplyToThreadResponse(response))
    [] cmd.kind = "removeParticipant" ->
         DriverManageThreadParticipant(ParseRemoveThreadParticipantResponse(response))
    [] cmd.kind = "addParticipant" ->
         DriverManageThreadParticipant(ParseAddThreadParticipantResponse(response))
    [] cmd.kind = "get" -> DriverGetConversation(ParseGetConversationResponse(response))
==============================================================================
