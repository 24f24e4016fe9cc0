-------------------------- MODULE ApiExchangeProofs --------------------------
(***************************************************************************)
(* Proofs about calls over HTTP, for any callers, commands and failures:   *)
(* what a request becomes on its way to the use case and an outcome on its *)
(* way back, and what is true of the log at each stage of a call.          *)
(***************************************************************************)
EXTENDS ApiExchange, OperatorProofs

Tx == INSTANCE FoldProofs WITH Op <- ApplyNext
Agg == INSTANCE FoldProofs WITH Op <- ApplyToAggregate

-----------------------------------------------------------------------------
(***************************************************************************)
(* What the server makes of a request.                                     *)
(***************************************************************************)

\* The command that arrives has the fields of the one that was sent.
SameCommand(d, cmd) ==
  /\ d.kind = cmd.kind
  /\ cmd.kind = "byParticipant" => d.participant = cmd.participant
  /\ cmd.kind = "start" => d.resource = cmd.resource
  /\ cmd.kind \in {"start", "addThread"} =>
       /\ d.title = cmd.title /\ d.author = cmd.author
       /\ d.recipients = cmd.recipients /\ d.message = cmd.message
  /\ cmd.kind \in Operations \ {"byParticipant", "start"} => d.conversation = cmd.conversation
  /\ cmd.kind \in {"reply", "addParticipant", "removeParticipant"} => d.thread = cmd.thread
  /\ cmd.kind = "reply" => d.author = cmd.author /\ d.message = cmd.message
  /\ cmd.kind \in {"addParticipant", "removeParticipant"} => d.participant = cmd.participant
  /\ cmd.kind = "get" => d.after = cmd.after

\* Method and number of segments tell the routes apart.
LEMMA OneRoute ==
  ASSUME NEW request, NEW operation,
         \A route \in Routes : route.method = request.method /\ Len(route.pattern) = Len(request.path)
                                 => route.operation = operation
  PROVE  ServeHTTP(request) \in {Unrouted, CommandOf(operation, request)}
<1> DEFINE matching == {route \in Routes : Matches(route, request)}
<1>1. CASE matching = {}
  BY <1>1 DEF ServeHTTP
<1>2. CASE matching # {}
  <2> DEFINE route == CHOOSE r \in matching : TRUE
  <2>1. route \in matching
    BY <1>2
  <2>2. route.operation = operation
    BY <2>1 DEF Matches
  <2> HIDE DEF route
  <2>3. ServeHTTP(request) = CommandOf(route.operation, request)
    BY <1>2 DEF ServeHTTP, route
  <2> QED
    BY <2>2, <2>3
<1> QED
  BY <1>1, <1>2

\* The requests of a client reach the operation they are meant for, or none.
LEMMA RightRoute ==
  ASSUME NEW cmd, cmd.kind \in Operations, NEW request,
         request.method = RequestFor(cmd).method, request.path = RequestFor(cmd).path
  PROVE  ServeHTTP(request) \in {Unrouted, CommandOf(cmd.kind, request)}
<1> DEFINE line(method, length, operation) ==
             \/ method = "GET" /\ length = 1 /\ operation = "byParticipant"
             \/ method = "POST" /\ length = 1 /\ operation = "start"
             \/ method = "GET" /\ length = 3 /\ operation = "events"
             \/ method = "POST" /\ length = 3 /\ operation = "addThread"
             \/ method = "POST" /\ length = 5 /\ operation = "reply"
             \/ method = "DELETE" /\ length = 6 /\ operation = "removeParticipant"
             \/ method = "PUT" /\ length = 6 /\ operation = "addParticipant"
             \/ method = "GET" /\ length = 2 /\ operation = "get"
<1>1. ASSUME NEW route \in Routes
      PROVE  line(route.method, Len(route.pattern), route.operation)
  <2>1. /\ line("GET", Len(<<"conversations">>), "byParticipant")
        /\ line("POST", Len(<<"conversations">>), "start")
        /\ line("GET", Len(<<"conversations", "{}", "events">>), "events")
        /\ line("POST", Len(<<"conversations", "{}", "threads">>), "addThread")
        /\ line("POST", Len(<<"conversations", "{}", "threads", "{}", "messages">>), "reply")
        /\ line("DELETE", Len(<<"conversations", "{}", "threads", "{}", "participants", "{}">>),
                "removeParticipant")
        /\ line("PUT", Len(<<"conversations", "{}", "threads", "{}", "participants", "{}">>),
                "addParticipant")
        /\ line("GET", Len(<<"conversations", "{}">>), "get")
    OBVIOUS
  <2> HIDE DEF line
  <2>2. PICK m, p, o : route = Handle(m, p, o) /\ line(m, Len(p), o)
    BY <2>1, Zenon DEF Routes
  <2>3. route.method = m /\ route.pattern = p /\ route.operation = o
    BY <2>2 DEF Handle
  <2> QED
    BY <2>2, <2>3, Zenon
<1>2. line(request.method, Len(request.path), cmd.kind)
  BY DEF Operations, RequestFor, NewRequest, NewGetConversationsByParticipantRequest,
         NewStartConversationRequest, NewListConversationEventsRequest, NewAddThreadRequest,
         NewReplyToThreadRequest, NewRemoveThreadParticipantRequest,
         NewAddThreadParticipantRequest, NewGetConversationRequest, ParticipantPath
<1>3. ASSUME NEW method, NEW length, NEW o1, NEW o2, line(method, length, o1), line(method, length, o2)
      PROVE  o1 = o2
  BY <1>3
<1> HIDE DEF line
<1>4. \A route \in Routes : route.method = request.method /\ Len(route.pattern) = Len(request.path)
                              => route.operation = cmd.kind
  BY <1>1, <1>2, <1>3
<1> QED
  BY <1>4, OneRoute

\* What json.Marshal leaves out is nil again once it is decoded.
LEMMA FieldOfMarshal ==
  ASSUME NEW object, NEW f \in DOMAIN object
  PROVE  Field(Marshal(object), f) = object[f]
BY DEF Field, Marshal

\* A request that arrives whole means what its command says; the wrappers
\* refuse only a query without participant.
LEMMA Understood ==
  ASSUME NEW cmd, cmd.kind \in Operations, RequestFor(cmd).body # Garbled
  PROVE  LET d == ServeHTTP(RequestFor(cmd))
         IN  \/ d = Unrouted
             \/ d = Malformed /\ cmd.kind = "byParticipant"
             \/ SameCommand(d, cmd)
<1> DEFINE request == RequestFor(cmd)
           d       == ServeHTTP(request)
<1>0. d \in {Unrouted, CommandOf(cmd.kind, request)}
  BY RightRoute
<1> HIDE DEF d
<1>1. SUFFICES ASSUME d = CommandOf(cmd.kind, request)
               PROVE  \/ d = Malformed /\ cmd.kind = "byParticipant"
                      \/ SameCommand(d, cmd)
  BY <1>0 DEF d
<1>2. CASE cmd.kind = "byParticipant"
  <2>1. request.query = [participant_id |-> cmd.participant]
    BY <1>2 DEF RequestFor, NewRequest, NewGetConversationsByParticipantRequest
  <2>2. d = BindGetConversationsByParticipant(request)
    BY <1>1, <1>2 DEF CommandOf
  <2>3. d = Malformed \/ d = [kind |-> "byParticipant", participant |-> cmd.participant]
    BY <2>1, <2>2 DEF BindGetConversationsByParticipant
  <2> QED
    BY <2>3, <1>2 DEF SameCommand
<1>3. CASE cmd.kind = "start"
  <2> DEFINE object == [resourceUrl |-> cmd.resource, threadTitle |-> cmd.title, author |-> cmd.author,
                        recipients |-> cmd.recipients, message |-> cmd.message]
  <2>1. request.body = Marshal(object)
    BY <1>3 DEF RequestFor, NewRequest, NewStartConversationRequest, StartConversationBody
  <2>2. d = DecodeStartConversation(request.body)
    BY <1>1, <1>3 DEF CommandOf
  <2>3. /\ Field(Marshal(object), "resourceUrl") = cmd.resource
        /\ Field(Marshal(object), "threadTitle") = cmd.title
        /\ Field(Marshal(object), "author") = cmd.author
        /\ Field(Marshal(object), "recipients") = cmd.recipients
        /\ Field(Marshal(object), "message") = cmd.message
    BY FieldOfMarshal
  <2> HIDE DEF object
  <2>4. d = [kind |-> "start", resource |-> cmd.resource, title |-> cmd.title, author |-> cmd.author,
             recipients |-> cmd.recipients, message |-> cmd.message]
    BY <2>1, <2>2, <2>3 DEF DecodeStartConversation
  <2> QED
    BY <2>4, <1>3 DEF SameCommand
<1>4. CASE cmd.kind = "addThread"
  <2> DEFINE object == [threadTitle |-> cmd.title, author |-> cmd.author,
                        recipients |-> cmd.recipients, message |-> cmd.message]
  <2>1. /\ request.body = Marshal(object)
        /\ request.path = <<"conversations", cmd.conversation, "threads">>
    BY <1>4 DEF RequestFor, NewRequest, NewAddThreadRequest, AddThreadBody
  <2>2. d = DecodeAddThread([conversation |-> cmd.conversation], request.body)
    BY <1>1, <1>4, <2>1 DEF CommandOf, BindAddThread
  <2>3. /\ Field(Marshal(object), "threadTitle") = cmd.title
        /\ Field(Marshal(object), "author") = cmd.author
        /\ Field(Marshal(object), "recipients") = cmd.recipients
        /\ Field(Marshal(object), "message") = cmd.message
    BY FieldOfMarshal
  <2> HIDE DEF object
  <2>4. d = [kind |-> "addThread", conversation |-> cmd.conversation, title |-> cmd.title,
             author |-> cmd.author, recipients |-> cmd.recipients, message |-> cmd.message]
    BY <2>1, <2>2, <2>3 DEF DecodeAddThread
  <2> QED
    BY <2>4, <1>4 DEF SameCommand
<1>5. CASE cmd.kind = "reply"
  <2> DEFINE object == [author |-> cmd.author, text |-> cmd.message]
  <2>1. /\ request.body = Marshal(object)
        /\ request.path = <<"conversations", cmd.conversation, "threads", cmd.thread, "messages">>
    BY <1>5 DEF RequestFor, NewRequest, NewReplyToThreadRequest, ReplyToThreadBody
  <2>2. d = DecodeReplyToThread([conversation |-> cmd.conversation, thread |-> cmd.thread], request.body)
    BY <1>1, <1>5, <2>1 DEF CommandOf, BindReplyToThread
  <2>3. /\ Field(Marshal(object), "author") = cmd.author
        /\ Field(Marshal(object), "text") = cmd.message
    BY FieldOfMarshal
  <2> HIDE DEF object
  <2>4. d = [kind |-> "reply", conversation |-> cmd.conversation, thread |-> cmd.thread,
             author |-> cmd.author, message |-> cmd.message]
    BY <2>1, <2>2, <2>3 DEF DecodeReplyToThread
  <2> QED
    BY <2>4, <1>5 DEF SameCommand
<1>6. CASE cmd.kind \in {"addParticipant", "removeParticipant"}
  <2>1. request.path = <<"conversations", cmd.conversation, "threads", cmd.thread, "participants",
                         cmd.participant>>
    BY <1>6 DEF RequestFor, NewRequest, NewRemoveThreadParticipantRequest,
                NewAddThreadParticipantRequest, ParticipantPath
  <2>2. d = [kind |-> cmd.kind, conversation |-> cmd.conversation, thread |-> cmd.thread,
             participant |-> cmd.participant]
    BY <1>1, <1>6, <2>1 DEF CommandOf, BindAddThreadParticipant, BindRemoveThreadParticipant
  <2> QED
    BY <2>2, <1>6 DEF SameCommand
<1>7. CASE cmd.kind = "events"
  <2>1. request.path = <<"conversations", cmd.conversation, "events">>
    BY <1>7 DEF RequestFor, NewRequest, NewListConversationEventsRequest
  <2>2. d = [kind |-> "events", conversation |-> cmd.conversation]
    BY <1>1, <1>7, <2>1 DEF CommandOf, BindListConversationEvents
  <2> QED
    BY <2>2, <1>7 DEF SameCommand
<1>8. CASE cmd.kind = "get"
  <2>1. /\ request.path = <<"conversations", cmd.conversation>>
        /\ request.query = Marshal([after |-> cmd.after])
    BY <1>8 DEF RequestFor, NewRequest, NewGetConversationRequest
  <2>2. Field(Marshal([after |-> cmd.after]), "after") = cmd.after
    BY FieldOfMarshal
  <2>3. d = [kind |-> "get", conversation |-> cmd.conversation, after |-> cmd.after]
    BY <1>1, <1>8, <2>1, <2>2 DEF CommandOf, BindGetConversation
  <2> QED
    BY <2>3, <1>8 DEF SameCommand
<1> QED
  BY <1>2, <1>3, <1>4, <1>5, <1>6, <1>7, <1>8 DEF Operations

\* A body that broke off is refused.
LEMMA BrokenOff ==
  ASSUME NEW cmd, cmd.kind \in Operations, RequestFor(cmd).body # Nil, NEW request,
         request = [RequestFor(cmd) EXCEPT !.body = Garbled]
  PROVE  ServeHTTP(request) \in {Unrouted, Malformed}
<1>1. cmd.kind \in {"start", "addThread", "reply"}
  BY DEF Operations, RequestFor, NewRequest, NewGetConversationsByParticipantRequest,
         NewListConversationEventsRequest, NewRemoveThreadParticipantRequest,
         NewAddThreadParticipantRequest, NewGetConversationRequest
<1>2. /\ request.method = RequestFor(cmd).method
      /\ request.path = RequestFor(cmd).path
      /\ request.body = Garbled
  BY <1>1 DEF RequestFor, NewRequest, NewStartConversationRequest, NewAddThreadRequest,
              NewReplyToThreadRequest
<1>3. ServeHTTP(request) \in {Unrouted, CommandOf(cmd.kind, request)}
  BY <1>2, RightRoute
<1>4. CommandOf(cmd.kind, request) = Malformed
  BY <1>1, <1>2 DEF CommandOf, DecodeStartConversation, DecodeAddThread, DecodeReplyToThread
<1> QED
  BY <1>3, <1>4

-----------------------------------------------------------------------------
(***************************************************************************)
(* What the caller is told of an outcome.                                  *)
(***************************************************************************)
Writes == {"start", "addThread", "reply", "addParticipant", "removeParticipant"}

\* 500 is an error to every method of the driver.
LEMMA ErrorOn500 ==
  ASSUME NEW cmd, cmd.kind \in Operations
  PROVE  VerdictOn(cmd, TextResponse("500")) = Verdict("error")
BY DEF Operations, TextResponse, Response, Parse, VerdictOn,
       DriverGetConversationsByParticipant, DriverStartConversation, DriverListConversationEvents,
       DriverAddThread, DriverReplyToThread, DriverManageThreadParticipant, DriverGetConversation,
       ParseGetConversationsByParticipantResponse, ParseStartConversationResponse,
       ParseListConversationEventsResponse, ParseAddThreadResponse, ParseReplyToThreadResponse,
       ParseRemoveThreadParticipantResponse, ParseAddThreadParticipantResponse,
       ParseGetConversationResponse

\* What reaches no use case is not found, or an error.
LEMMA TurnedAway ==
  ASSUME NEW cmd, cmd.kind \in Operations, NEW d, NEW outcome,
         d = Unrouted \/ (d = Malformed /\ cmd.kind = "byParticipant")
  PROVE  VerdictOn(cmd, ResponseTo(d, outcome)) \in {Verdict("not found"), Verdict("error")}
<1>1. CASE d = Unrouted
  <2>1. ResponseTo(d, outcome) = TextResponse("404")
    BY <1>1 DEF ResponseTo, Unrouted
  <2>2. VerdictOn(cmd, TextResponse("404")) \in {Verdict("not found"), Verdict("error")}
    BY DEF Operations, TextResponse, Response, Parse, VerdictOn,
           DriverGetConversationsByParticipant, DriverStartConversation, DriverListConversationEvents,
           DriverAddThread, DriverReplyToThread, DriverManageThreadParticipant, DriverGetConversation,
           ParseGetConversationsByParticipantResponse, ParseStartConversationResponse,
           ParseListConversationEventsResponse, ParseAddThreadResponse, ParseReplyToThreadResponse,
           ParseRemoveThreadParticipantResponse, ParseAddThreadParticipantResponse,
           ParseGetConversationResponse
  <2> QED
    BY <2>1, <2>2
<1>2. CASE d = Malformed /\ cmd.kind = "byParticipant"
  BY <1>2 DEF Malformed, ResponseTo, TextResponse, Response, Parse, VerdictOn,
              DriverGetConversationsByParticipant, ParseGetConversationsByParticipantResponse
<1> QED
  BY <1>1, <1>2

\* A refused write is reported as such, with its reason if it was invalid.
LEMMA Refused ==
  ASSUME NEW cmd, cmd.kind \in Writes, NEW d, d.kind = cmd.kind,
         NEW status \in {"400", "403", "404"}
  PROVE  VerdictOn(cmd, ResponseTo(d, Outcome(status, "reason"))) \in
           {[result |-> "refused", reason |-> "reason"], Verdict("forbidden"),
            Verdict("not found"), Verdict("error")}
<1> DEFINE v == VerdictOn(cmd, ResponseTo(d, Outcome(status, "reason")))
<1>1. CASE cmd.kind = "start"
  <2> USE <1>1, NilAssumption
      DEF ResponseTo, Outcome, VisitStartConversation, Visit, Response, TextResponse, Parse, VerdictOn,
          ParseStartConversationResponse, DriverStartConversation, ValidationError
  <2>1. CASE status = "400"
    BY <2>1
  <2>2. CASE status = "403"
    BY <2>2
  <2>3. CASE status = "404"
    BY <2>3
  <2> QED
    BY <2>1, <2>2, <2>3
<1>2. CASE cmd.kind = "addThread"
  <2> USE <1>2, NilAssumption
      DEF ResponseTo, Outcome, VisitAddThread, Visit, Response, TextResponse, Parse, VerdictOn,
          ParseAddThreadResponse, DriverAddThread, ValidationError
  <2>1. CASE status = "400"
    BY <2>1
  <2>2. CASE status = "403"
    BY <2>2
  <2>3. CASE status = "404"
    BY <2>3
  <2> QED
    BY <2>1, <2>2, <2>3
<1>3. CASE cmd.kind = "reply"
  <2> USE <1>3, NilAssumption
      DEF ResponseTo, Outcome, VisitReplyToThread, Visit, Response, TextResponse, Parse, VerdictOn,
          ParseReplyToThreadResponse, DriverReplyToThread, ValidationError
  <2>1. CASE status = "400"
    BY <2>1
  <2>2. CASE status = "403"
    BY <2>2
  <2>3. CASE status = "404"
    BY <2>3
  <2> QED
    BY <2>1, <2>2, <2>3
<1>4. CASE cmd.kind = "addParticipant"
  BY <1>4
     DEF ResponseTo, Outcome, VisitAddThreadParticipant, Visit, Response, TextResponse, Parse, VerdictOn,
         ParseAddThreadParticipantResponse, DriverManageThreadParticipant
<1>5. CASE cmd.kind = "removeParticipant"
  BY <1>5
     DEF ResponseTo, Outcome, VisitRemoveThreadParticipant, Visit, Response, TextResponse, Parse, VerdictOn,
         ParseRemoveThreadParticipantResponse, DriverManageThreadParticipant
<1> QED
  BY <1>1, <1>2, <1>3, <1>4, <1>5 DEF Writes

\* A change that has been made already is reported as such.
LEMMA Unchanged204 ==
  ASSUME NEW cmd, cmd.kind \in {"addParticipant", "removeParticipant"}, NEW d, d.kind = cmd.kind
  PROVE  VerdictOn(cmd, ResponseTo(d, Outcome("204", Nil))) = Verdict("unchanged")
BY DEF ResponseTo, Outcome, VisitAddThreadParticipant, VisitRemoveThreadParticipant, Visit, Response,
       TextResponse, Parse, VerdictOn, ParseAddThreadParticipantResponse,
       ParseRemoveThreadParticipantResponse, DriverManageThreadParticipant

\* The Location of an accepted write is read as it was written.
LEMMA Accepted202 ==
  ASSUME NEW cmd, cmd.kind \in Writes, NEW d, d.kind = cmd.kind, NEW result
  PROVE  VerdictOn(cmd, ResponseTo(d, Outcome("202", Location(result)))) \in
           {[result |-> "accepted", conversation |-> result.conversation, sequence |-> result.sequence],
            Verdict("error")}
<1> DEFINE location == Location(result)
           v == VerdictOn(cmd, ResponseTo(d, Outcome("202", location)))
<1>0. location.path[2] = result.conversation /\ location.after = result.sequence
  BY DEF Location
<1> HIDE DEF location
<1>1. v = ParseConversationLocation(location)
  BY DEF Writes, ResponseTo, Outcome, VisitStartConversation, VisitAddThread, VisitReplyToThread,
         VisitAddThreadParticipant, VisitRemoveThreadParticipant, Visit, Response, TextResponse, Parse,
         VerdictOn, ParseStartConversationResponse, ParseAddThreadResponse, ParseReplyToThreadResponse,
         ParseAddThreadParticipantResponse, ParseRemoveThreadParticipantResponse,
         DriverStartConversation, DriverAddThread, DriverReplyToThread, DriverManageThreadParticipant
<1> QED
  BY <1>0, <1>1 DEF ParseConversationLocation, location

\* The shape of a view of a conversation.
IsView(v) ==
  /\ v = [id |-> v.id, threads |-> v.threads]
  /\ v.threads = [i \in DOMAIN v.threads |-> v.threads[i]]
  /\ \A i \in DOMAIN v.threads :
       /\ v.threads[i] = [id |-> v.threads[i].id, participants |-> v.threads[i].participants,
                          messages |-> v.threads[i].messages]
       /\ v.threads[i].messages = [j \in DOMAIN v.threads[i].messages |-> v.threads[i].messages[j]]

LEMMA ViewOfIsView ==
  ASSUME NEW tb, NEW records, NEW c, NEW keys
  PROVE  IsView(ViewOf(tb, records, c, keys))
<1> DEFINE started == SelectSeq(records, LAMBDA r : r.event.type = "ThreadStarted" /\ ThreadKey(r.event) \in keys)
           posted(t) == SelectSeq(records, LAMBDA r : r.event.type = "MessagePosted" /\ r.event.thread = t)
           authors(t) == [j \in DOMAIN posted(t) |-> posted(t)[j].event.author]
           row(e) == [id |-> e.thread, participants |-> tb.threads[ThreadKey(e)].participants,
                      messages |-> authors(e.thread)]
           threads == [i \in DOMAIN started |-> row(started[i].event)]
           v == [id |-> c, threads |-> threads]
<1>1. ViewOf(tb, records, c, keys) = v
  BY DEF ViewOf
<1>2. \A t : authors(t) = [j \in DOMAIN authors(t) |-> authors(t)[j]]
  <2> HIDE DEF posted
  <2> QED
    OBVIOUS
<1> HIDE DEF authors, started
<1>3. ASSUME NEW i \in DOMAIN threads
      PROVE  /\ threads[i] = [id |-> threads[i].id, participants |-> threads[i].participants,
                              messages |-> threads[i].messages]
             /\ threads[i].messages = [j \in DOMAIN threads[i].messages |-> threads[i].messages[j]]
  <2> DEFINE e == started[i].event
  <2>1. threads[i] = row(e)
    OBVIOUS
  <2> HIDE DEF e, threads
  <2>2. threads[i].messages = authors(e.thread)
    BY <2>1
  <2> QED
    BY <2>1, <2>2, <1>2
<1>4. threads = [i \in DOMAIN threads |-> threads[i]]
  OBVIOUS
<1> HIDE DEF threads
<1>5. v.id = c /\ v.threads = threads
  OBVIOUS
<1>6. IsView(v)
  <2>1. v = [id |-> v.id, threads |-> v.threads]
    BY <1>5
  <2> HIDE DEF v
  <2> QED
    BY <2>1, <1>3, <1>4, <1>5 DEF IsView
<1> QED
  BY <1>1, <1>6

\* A view survives the conversion to JSON and back.
LEMMA ViewSurvives ==
  ASSUME NEW v, IsView(v)
  PROVE  ToConversationView(ToConversation(v)) = v
<1> DEFINE json == ToConversation(v)
<1>1. /\ json.id = v.id
      /\ DOMAIN json.threads = DOMAIN v.threads
      /\ \A i \in DOMAIN v.threads : json.threads[i] = ToThread(v.threads[i])
  BY DEF ToConversation
<1>2. ASSUME NEW i \in DOMAIN v.threads
      PROVE  ToThreadView(ToThread(v.threads[i])) = v.threads[i]
  <2> DEFINE t == v.threads[i]
             a == t.messages
             wrapped == [j \in DOMAIN a |-> [author |-> a[j]]]
  <2>1. /\ t = [id |-> t.id, participants |-> t.participants, messages |-> a]
        /\ a = [j \in DOMAIN a |-> a[j]]
    BY <1>2 DEF IsView
  <2>2. ToThread(t) = [id |-> t.id, participants |-> t.participants, messages |-> wrapped]
    BY DEF ToThread
  <2>3. DOMAIN wrapped = DOMAIN a /\ \A j \in DOMAIN a : wrapped[j].author = a[j]
    OBVIOUS
  <2> HIDE DEF t, a, wrapped
  <2>4. ToThreadView(ToThread(t)) = [id |-> t.id, participants |-> t.participants,
                                     messages |-> [j \in DOMAIN wrapped |-> wrapped[j].author]]
    BY <2>2 DEF ToThreadView
  <2>5. [j \in DOMAIN wrapped |-> wrapped[j].author] = a
    BY <2>1, <2>3
  <2>6. ToThreadView(ToThread(t)) = t
    BY <2>1, <2>4, <2>5
  <2> QED
    BY <2>6 DEF t
<1> HIDE DEF json
<1>3. ToConversationView(json) =
        [id |-> json.id, threads |-> [i \in DOMAIN json.threads |-> ToThreadView(json.threads[i])]]
  BY DEF ToConversationView
<1>4. [i \in DOMAIN json.threads |-> ToThreadView(json.threads[i])] = v.threads
  BY <1>1, <1>2 DEF IsView
<1> QED
  BY <1>1, <1>3, <1>4 DEF IsView, json

\* The driver gets the view that the use case returned.
LEMMA GotView ==
  ASSUME NEW cmd, cmd.kind = "get", NEW d, d.kind = "get", NEW view, IsView(view)
  PROVE  VerdictOn(cmd, ResponseTo(d, Outcome("200", ToConversation(view)))) \in
           {[result |-> "view", view |-> view], Verdict("error")}
<1> DEFINE json == ToConversation(view)
<1>0. ToConversationView(json) = view
  BY ViewSurvives
<1> HIDE DEF json
<1>1. VerdictOn(cmd, ResponseTo(d, Outcome("200", json))) \in
        {[result |-> "view", view |-> ToConversationView(json)], Verdict("error")}
  BY DEF ResponseTo, Outcome, VisitGetConversation, Visit, Response, TextResponse, Parse, VerdictOn,
         ParseGetConversationResponse, DriverGetConversation
<1> QED
  BY <1>0, <1>1 DEF json

LEMMA GotViews ==
  ASSUME NEW cmd, cmd.kind = "byParticipant", NEW d, d.kind = "byParticipant",
         NEW views, \A v \in views : IsView(v)
  PROVE  VerdictOn(cmd, ResponseTo(d, Outcome("200", {ToConversation(v) : v \in views}))) \in
           {[result |-> "views", views |-> views], Verdict("error")}
<1> DEFINE json == {ToConversation(v) : v \in views}
<1>0. {ToConversationView(c) : c \in json} = views
  BY ViewSurvives
<1> HIDE DEF json
<1>1. VerdictOn(cmd, ResponseTo(d, Outcome("200", json))) \in
        {[result |-> "views", views |-> {ToConversationView(c) : c \in json}], Verdict("error")}
  BY DEF ResponseTo, Outcome, VisitGetConversationsByParticipant, Visit, Response, TextResponse, Parse,
         VerdictOn, ParseGetConversationsByParticipantResponse, DriverGetConversationsByParticipant
<1> QED
  BY <1>0, <1>1 DEF json

\* An event, with another conversation.
Moved(e, b) == [e EXCEPT !.conversation = b]

Moves(e, b) ==
  /\ \A c : e = ConversationCreated(c) => Moved(e, b) = ConversationCreated(b)
  /\ \A c, t, a, r : e = ThreadStarted(c, t, a, r) => Moved(e, b) = ThreadStarted(b, t, a, r)
  /\ \A c, t, a : e = MessagePosted(c, t, a) => Moved(e, b) = MessagePosted(b, t, a)
  /\ \A c, t, p : e = ParticipantAdded(c, t, p) => Moved(e, b) = ParticipantAdded(b, t, p)
  /\ \A c, t, p : e = ParticipantRemoved(c, t, p) => Moved(e, b) = ParticipantRemoved(b, t, p)

LEMMA MovedEvents ==
  ASSUME NEW e, NEW b
  PROVE  Moves(e, b)
BY DEF Moves, Moved, ConversationCreated, ThreadStarted, MessagePosted, ParticipantAdded, ParticipantRemoved

\* An event survives as well, all but its conversation.
LEMMA EventSurvives ==
  ASSUME NEW record, record = [sequence |-> record.sequence, event |-> record.event],
         IsEvent(record.event)
  PROVE  ToEventRecord(ToEvent(record)) = Listed(record)
<1> DEFINE e == record.event
           n == record.sequence
<1>0. Listed(record) = [sequence |-> n, event |-> Moved(e, "")]
  BY DEF Listed, Moved
<1> DEFINE blank == ""
<1> HIDE DEF e, n, blank
<1>m. Moves(e, blank)
  BY MovedEvents
<1>1. CASE e.type = "ConversationCreated" /\ e = ConversationCreated(e.conversation)
  <2>1. ToEvent(record) = [sequence |-> n, type |-> "ConversationCreated"]
    BY <1>1 DEF ToEvent, e, n
  <2>2. ToEventRecord(ToEvent(record)) = [sequence |-> n, event |-> ConversationCreated("")]
    BY <2>1 DEF ToEventRecord
  <2>3. Moved(e, "") = ConversationCreated("")
    BY <1>1, <1>m DEF Moves, blank
  <2> QED
    BY <2>2, <2>3, <1>0
<1>2. CASE e.type = "ThreadStarted" /\ e = ThreadStarted(e.conversation, e.thread, e.author, e.recipients)
  <2>1. ToEvent(record) = [sequence |-> n, type |-> "ThreadStarted", threadId |-> e.thread,
                           author |-> e.author, recipients |-> e.recipients]
    BY <1>2 DEF ToEvent, e, n
  <2>2. ToEventRecord(ToEvent(record)) =
          [sequence |-> n, event |-> ThreadStarted("", e.thread, e.author, e.recipients)]
    BY <2>1 DEF ToEventRecord
  <2>3. Moved(e, "") = ThreadStarted("", e.thread, e.author, e.recipients)
    BY <1>2, <1>m DEF Moves, blank
  <2> QED
    BY <2>2, <2>3, <1>0
<1>3. CASE e.type = "MessagePosted" /\ e = MessagePosted(e.conversation, e.thread, e.author)
  <2>1. ToEvent(record) = [sequence |-> n, type |-> "MessagePosted", threadId |-> e.thread,
                           author |-> e.author]
    BY <1>3 DEF ToEvent, e, n
  <2>2. ToEventRecord(ToEvent(record)) =
          [sequence |-> n, event |-> MessagePosted("", e.thread, e.author)]
    BY <2>1 DEF ToEventRecord
  <2>3. Moved(e, "") = MessagePosted("", e.thread, e.author)
    BY <1>3, <1>m DEF Moves, blank
  <2> QED
    BY <2>2, <2>3, <1>0
<1>4. CASE e.type = "ParticipantAdded" /\ e = ParticipantAdded(e.conversation, e.thread, e.participant)
  <2>1. ToEvent(record) = [sequence |-> n, type |-> "ParticipantAdded", threadId |-> e.thread,
                           participantId |-> e.participant]
    BY <1>4 DEF ToEvent, e, n
  <2>2. ToEventRecord(ToEvent(record)) =
          [sequence |-> n, event |-> ParticipantAdded("", e.thread, e.participant)]
    BY <2>1 DEF ToEventRecord
  <2>3. Moved(e, "") = ParticipantAdded("", e.thread, e.participant)
    BY <1>4, <1>m DEF Moves, blank
  <2> QED
    BY <2>2, <2>3, <1>0
<1>5. CASE e.type = "ParticipantRemoved" /\ e = ParticipantRemoved(e.conversation, e.thread, e.participant)
  <2>1. ToEvent(record) = [sequence |-> n, type |-> "ParticipantRemoved", threadId |-> e.thread,
                           participantId |-> e.participant]
    BY <1>5 DEF ToEvent, e, n
  <2>2. ToEventRecord(ToEvent(record)) =
          [sequence |-> n, event |-> ParticipantRemoved("", e.thread, e.participant)]
    BY <2>1 DEF ToEventRecord
  <2>3. Moved(e, "") = ParticipantRemoved("", e.thread, e.participant)
    BY <1>5, <1>m DEF Moves, blank
  <2> QED
    BY <2>2, <2>3, <1>0
<1> QED
  BY <1>1, <1>2, <1>3, <1>4, <1>5 DEF IsEvent, e

LEMMA GotEvents ==
  ASSUME NEW cmd, cmd.kind = "events", NEW d, d.kind = "events", NEW records,
         \A i \in DOMAIN records :
           /\ records[i] = [sequence |-> records[i].sequence, event |-> records[i].event]
           /\ IsEvent(records[i].event)
  PROVE  VerdictOn(cmd, ResponseTo(d, Outcome("200", [i \in DOMAIN records |-> ToEvent(records[i])]))) \in
           {[result |-> "events", records |-> [i \in DOMAIN records |-> Listed(records[i])]],
            Verdict("error")}
<1> DEFINE json == [i \in DOMAIN records |-> ToEvent(records[i])]
<1>0. [i \in DOMAIN json |-> ToEventRecord(json[i])] = [i \in DOMAIN records |-> Listed(records[i])]
  BY EventSurvives
<1> HIDE DEF json
<1>1. VerdictOn(cmd, ResponseTo(d, Outcome("200", json))) \in
        {[result |-> "events", records |-> [i \in DOMAIN json |-> ToEventRecord(json[i])]],
         Verdict("error")}
  BY DEF ResponseTo, Outcome, VisitListConversationEvents, Visit, Response, TextResponse, Parse,
         VerdictOn, ParseListConversationEventsResponse, DriverListConversationEvents
<1> QED
  BY <1>0, <1>1 DEF json

\* The reads of one conversation.
Gets == {"get", "events"}

\* What a read does not find is not found.
LEMMA GotNothing ==
  ASSUME NEW cmd, cmd.kind \in Gets, NEW d, d.kind = cmd.kind
  PROVE  VerdictOn(cmd, ResponseTo(d, Outcome("404", "reason"))) = Verdict("not found")
BY DEF Gets, ResponseTo, Outcome, VisitListConversationEvents, VisitGetConversation, Visit, Response,
       TextResponse, Parse, VerdictOn, ParseListConversationEventsResponse, ParseGetConversationResponse,
       DriverListConversationEvents, DriverGetConversation

\* A projection that is behind is reported as such.
LEMMA GotBehind ==
  ASSUME NEW cmd, cmd.kind = "get", NEW d, d.kind = "get"
  PROVE  VerdictOn(cmd, ResponseTo(d, Outcome("202", Nil))) = Verdict("not caught up")
BY DEF ResponseTo, Outcome, VisitGetConversation, Visit, Response, TextResponse, Parse, VerdictOn,
       ParseGetConversationResponse, DriverGetConversation

-----------------------------------------------------------------------------
(***************************************************************************)
(* The log, and what projection and use cases make of it.                  *)
(***************************************************************************)

\* The operators of the model as functions of a log.
EntriesIn(lg, n) == [i \in 1..n |-> [sequence |-> i, event |-> lg[i].event]]

RecordsIn(lg, c, n) == Pick(EntriesIn(lg, n), {i \in 1..n : lg[i].event.conversation = c})

TablesIn(lg, n) == ApplyEntries(EmptyTables, EntriesIn(lg, n)).tables

FullIn(lg, n, c) == ViewOf(TablesIn(lg, n), RecordsIn(lg, c, n), c, DOMAIN TablesIn(lg, n).threads)

KeysIn(lg, n, p) ==
  {key \in DOMAIN TablesIn(lg, n).threads : Contains(TablesIn(lg, n).threads[key].participants, p)}

ViewsIn(lg, n, p) ==
  {v \in {ViewOf(TablesIn(lg, n), RecordsIn(lg, c, n), c, KeysIn(lg, n, p)) :
            c \in TablesIn(lg, n).conversations} : v.threads # <<>>}

MemberIn(lg, cmd, n) ==
  Contains(MembersOf(RehydrateConversation(EventsOf(RecordsIn(lg, cmd.conversation, n))), cmd.thread),
           cmd.participant)

ListedIn(lg, n, c) ==
  [i \in DOMAIN RecordsIn(lg, c, n) |-> Listed(RecordsIn(lg, c, n)[i])]

LEMMA InLog ==
  /\ \A c, n : RecordsAt(c, n) = RecordsIn(log, c, n)
  /\ \A n : TablesAt(n) = TablesIn(log, n)
  /\ \A n, c : FullView(TablesAt(n), n, c) = FullIn(log, n, c)
  /\ \A n, p : ViewsOfParticipant(TablesAt(n), n, p) = ViewsIn(log, n, p)
  /\ \A cmd, n : MemberAt(cmd, n) = MemberIn(log, cmd, n)
<1>1. \A c, n : RecordsAt(c, n) = RecordsIn(log, c, n)
  BY DEF RecordsAt, RecordsIn, EntriesUpTo, EntriesIn
<1>2. \A n : TablesAt(n) = TablesIn(log, n)
  BY DEF TablesAt, TablesIn, EntriesUpTo, EntriesIn
<1>3. \A n, c : FullView(TablesAt(n), n, c) = FullIn(log, n, c)
  BY <1>1, <1>2 DEF FullView, FullIn
<1>4. \A n, p : ViewsOfParticipant(TablesAt(n), n, p) = ViewsIn(log, n, p)
  BY <1>1, <1>2 DEF ViewsOfParticipant, ViewsIn, KeysIn
<1>5. \A cmd, n : MemberAt(cmd, n) = MemberIn(log, cmd, n)
  BY <1>1 DEF MemberAt, MemberIn
<1> QED
  BY <1>1, <1>2, <1>3, <1>4, <1>5

\* The conversation has been created.
Founded(lg, c) == \E j \in DOMAIN lg : lg[j].event = ConversationCreated(c)

\* A log that this program wrote.
IsLog(lg) ==
  /\ IsList(lg)
  /\ \A i \in DOMAIN lg : IsEvent(lg[i].event) /\ Founded(lg, lg[i].event.conversation)

\* A log that goes on from another.
Continues(lg2, lg) ==
  /\ IsList(lg) /\ IsList(lg2)
  /\ Len(lg) <= Len(lg2)
  /\ \A i \in DOMAIN lg : lg2[i] = lg[i]

LEMMA ListDomain ==
  ASSUME NEW s, IsList(s)
  PROVE  Len(s) \in Nat /\ DOMAIN s = 1..Len(s)
BY DEF IsList

\* What was true of the first n events stays true of them.
LEMMA PastStays ==
  ASSUME NEW lg2, NEW lg, Continues(lg2, lg), NEW n \in 0..Len(lg)
  PROVE  /\ \A c : RecordsIn(lg2, c, n) = RecordsIn(lg, c, n)
         /\ TablesIn(lg2, n) = TablesIn(lg, n)
         /\ \A c : FullIn(lg2, n, c) = FullIn(lg, n, c)
         /\ \A p : ViewsIn(lg2, n, p) = ViewsIn(lg, n, p)
         /\ \A cmd : MemberIn(lg2, cmd, n) = MemberIn(lg, cmd, n)
         /\ \A c : ListedIn(lg2, n, c) = ListedIn(lg, n, c)
<1>1. \A i \in 1..n : lg2[i] = lg[i]
  BY ListDomain DEF Continues
<1>2. EntriesIn(lg2, n) = EntriesIn(lg, n)
  BY <1>1 DEF EntriesIn
<1>3. \A c : {i \in 1..n : lg2[i].event.conversation = c} = {i \in 1..n : lg[i].event.conversation = c}
  BY <1>1
<1>4. \A c : RecordsIn(lg2, c, n) = RecordsIn(lg, c, n)
  BY <1>2, <1>3 DEF RecordsIn
<1>5. TablesIn(lg2, n) = TablesIn(lg, n)
  BY <1>2 DEF TablesIn
<1>6. \A c : FullIn(lg2, n, c) = FullIn(lg, n, c)
  BY <1>4, <1>5 DEF FullIn
<1>7. \A p : KeysIn(lg2, n, p) = KeysIn(lg, n, p)
  BY <1>5 DEF KeysIn
<1>8. \A p : ViewsIn(lg2, n, p) = ViewsIn(lg, n, p)
  BY <1>4, <1>5, <1>7 DEF ViewsIn
<1>9. \A cmd : MemberIn(lg2, cmd, n) = MemberIn(lg, cmd, n)
  BY <1>4 DEF MemberIn
<1>10. \A c : ListedIn(lg2, n, c) = ListedIn(lg, n, c)
  BY <1>4 DEF ListedIn
<1> QED
  BY <1>4, <1>5, <1>6, <1>8, <1>9, <1>10

\* The records of a conversation are its events, with their numbers.
LEMMA RecordsFacts ==
  ASSUME NEW lg, IsLog(lg), NEW n \in 0..Len(lg), NEW c
  PROVE  LET records == RecordsIn(lg, c, n)
         IN  /\ IsList(records)
             /\ \A i \in DOMAIN records :
                  \E j \in 1..n : /\ records[i] = [sequence |-> j, event |-> lg[j].event]
                                  /\ lg[j].event.conversation = c
             /\ \A j \in 1..n : lg[j].event.conversation = c =>
                  \E i \in DOMAIN records : records[i] = [sequence |-> j, event |-> lg[j].event]
<1> DEFINE entries == EntriesIn(lg, n)
           positions == {i \in 1..n : lg[i].event.conversation = c}
           records == RecordsIn(lg, c, n)
<1>1. n \in Nat
  BY ListDomain DEF IsLog
<1>2. /\ DOMAIN entries = 1..n
      /\ \A j \in 1..n : entries[j] = [sequence |-> j, event |-> lg[j].event]
  BY DEF EntriesIn
<1>3. IsList(entries)
  <2>1. entries \in [1..n -> Range(entries)]
    BY DEF EntriesIn, Range
  <2> QED
    BY <2>1, <1>1 DEF IsList
<1>4. records = Pick(entries, positions)
  BY DEF RecordsIn
<1> HIDE DEF entries, records
<1>5. IsList(records) /\ Range(records) = {entries[i] : i \in DOMAIN entries \cap positions}
  BY <1>3, <1>4, PickFacts
<1>6. ASSUME NEW i \in DOMAIN records
      PROVE  \E j \in 1..n : /\ records[i] = [sequence |-> j, event |-> lg[j].event]
                             /\ lg[j].event.conversation = c
  <2>1. records[i] \in Range(records)
    BY DEF Range
  <2>2. PICK j \in DOMAIN entries \cap positions : records[i] = entries[j]
    BY <2>1, <1>5
  <2> QED
    BY <2>2, <1>2
<1>7. ASSUME NEW j \in 1..n, lg[j].event.conversation = c
      PROVE  \E i \in DOMAIN records : records[i] = [sequence |-> j, event |-> lg[j].event]
  <2>1. entries[j] \in Range(records)
    BY <1>2, <1>5, <1>7
  <2> QED
    BY <2>1, <1>2 DEF Range
<1> QED
  BY <1>5, <1>6, <1>7 DEF records

NextId(a, e) == IF e.type = "ConversationCreated" THEN e.conversation ELSE a

\* Only ConversationCreated changes the id of the aggregate.
LEMMA AggregateIdStep ==
  ASSUME NEW a, NEW b, NEW e
  PROVE  \E y : ApplyToAggregate([id |-> a, threads |-> b], e) = [id |-> NextId(a, e), threads |-> y]
<1> DEFINE conv == [id |-> a, threads |-> b]
<1>1. \A t : [conv EXCEPT !.threads = t] = [id |-> a, threads |-> t]
  OBVIOUS
<1>2. CASE e.type = "ConversationCreated"
  BY <1>2 DEF ApplyToAggregate, NextId
<1>3. CASE e.type = "ThreadStarted"
  BY <1>3 DEF ApplyToAggregate, NextId
<1>4. CASE e.type = "ParticipantAdded"
  BY <1>4 DEF ApplyToAggregate, NextId
<1>5. CASE e.type = "ParticipantRemoved" /\ e.thread \in DOMAIN conv.threads
  BY <1>5 DEF ApplyToAggregate, NextId
<1>6. CASE /\ e.type \notin {"ConversationCreated", "ThreadStarted", "ParticipantAdded"}
           /\ ~ (e.type = "ParticipantRemoved" /\ e.thread \in DOMAIN conv.threads)
  BY <1>6 DEF ApplyToAggregate, NextId
<1> QED
  BY <1>2, <1>3, <1>4, <1>5, <1>6

\* The aggregate after each of the events.
LEMMA AggregateTrace ==
  ASSUME NEW base, NEW events, DOMAIN events = 1..Len(events), Len(events) \in Nat
  PROVE  \E trace : /\ trace[0] = base
                    /\ \A k \in 0..(Len(events) - 1) :
                         trace[k + 1] = ApplyToAggregate(trace[k], events[k + 1])
                    /\ Agg!Fold(base, events) = trace[Len(events)]
BY Agg!FoldTrace, ZenonT(60)

\* The aggregate of a conversation that was created has its id.
LEMMA AggregateId ==
  ASSUME NEW events, IsList(events), NEW c,
         \A i \in DOMAIN events : events[i].type = "ConversationCreated" => events[i].conversation = c,
         \E i \in DOMAIN events : events[i].type = "ConversationCreated"
  PROVE  RehydrateConversation(events).id = c
<1> DEFINE n == Len(events)
           base == [id |-> "", threads |-> <<>>]
           created(k) == \E i \in 1..k : events[i].type = "ConversationCreated"
<1>1. n \in Nat /\ DOMAIN events = 1..n
  BY ListDomain
<1>2. PICK trace : /\ trace[0] = base
                   /\ \A k \in 0..(n - 1) : trace[k + 1] = ApplyToAggregate(trace[k], events[k + 1])
                   /\ Agg!Fold(base, events) = trace[n]
  <2> HIDE DEF base, created
  <2>0. DOMAIN events = 1..Len(events) /\ Len(events) \in Nat
    BY <1>1
  <2>1. \E trace : /\ trace[0] = base
                   /\ \A k \in 0..(Len(events) - 1) :
                        trace[k + 1] = ApplyToAggregate(trace[k], events[k + 1])
                   /\ Agg!Fold(base, events) = trace[Len(events)]
    BY <2>0, AggregateTrace
  <2> QED
    BY <2>1
<1>3. RehydrateConversation(events) = trace[n]
  <2>1. RehydrateConversation(events) = Agg!Fold(base, events)
    BY DEF RehydrateConversation, Agg!Fold, FoldLeft, Agg!FoldLeft, MapThenFoldSet,
           Agg!MapThenFoldSet, Max, Agg!Max
  <2> QED
    BY <2>1, <1>2
<1> DEFINE good(k) == \E a, b : trace[k] = [id |-> a, threads |-> b] /\ (created(k) => a = c)
           P == {k \in Nat : k <= n => good(k)}
<1>4. 0 \in P
  <2> DEFINE none == <<>>
  <2>1. ~ created(0)
    OBVIOUS
  <2>2. trace[0] = [id |-> "", threads |-> none]
    BY <1>2
  <2> HIDE DEF none, created
  <2>3. good(0)
    BY <2>1, <2>2
  <2> HIDE DEF good
  <2> QED
    BY <2>3
<1>5. ASSUME NEW k \in Nat, k \in P
      PROVE  k + 1 \in P
  <2> SUFFICES ASSUME k + 1 <= n
               PROVE  good(k + 1)
    <3> HIDE DEF good
    <3> QED
      OBVIOUS
  <2>1. k \in 0..(n - 1) /\ k + 1 \in DOMAIN events /\ k <= n
    BY <1>1
  <2>2. PICK a, b : trace[k] = [id |-> a, threads |-> b] /\ (created(k) => a = c)
    BY <1>5, <2>1
  <2> DEFINE e == events[k + 1]
             x == NextId(a, e)
  <2>3. trace[k + 1] = ApplyToAggregate([id |-> a, threads |-> b], e)
    BY <1>2, <2>1, <2>2
  <2>4. PICK y : trace[k + 1] = [id |-> x, threads |-> y]
    <3> HIDE DEF e
    <3>1. \E y : ApplyToAggregate([id |-> a, threads |-> b], e) = [id |-> NextId(a, e), threads |-> y]
      BY AggregateIdStep
    <3> HIDE DEF x
    <3> QED
      BY <3>1, <2>3 DEF x
  <2>5. created(k + 1) => created(k) \/ e.type = "ConversationCreated"
    BY <2>1
  <2>6. e.type = "ConversationCreated" => e.conversation = c
    BY <2>1
  <2>7. created(k + 1) => x = c
    BY <2>2, <2>5, <2>6 DEF NextId
  <2> HIDE DEF x, created
  <2> QED
    BY <2>4, <2>7
<1>6. n \in P
  <2> HIDE DEF P
  <2> QED
    BY <1>1, <1>4, <1>5, Induction
<1>7. created(n)
  BY <1>1
<1>8. good(n)
  <2> HIDE DEF good
  <2> QED
    BY <1>1, <1>6
<1> HIDE DEF created, n
<1>9. PICK a, b : trace[n] = [id |-> a, threads |-> b] /\ (created(n) => a = c)
  BY <1>8
<1> QED
  BY <1>3, <1>7, <1>9

\* The tables as a record.
IsTables(tb) == \E a, b, m : tb = [conversations |-> a, threads |-> b, messages |-> m]

\* A statement adds no other thread than that of its event.
LEMMA EntryKeys ==
  ASSUME NEW tb, IsTables(tb), NEW entry, IsEvent(entry.event)
  PROVE  /\ IsTables(ApplyEntry(tb, entry))
         /\ DOMAIN ApplyEntry(tb, entry).threads \subseteq DOMAIN tb.threads \cup {ThreadKey(entry.event)}
<1> DEFINE e == entry.event
           key == ThreadKey(e)
<1> HIDE DEF key
<1>1. PICK a, b, m : tb = [conversations |-> a, threads |-> b, messages |-> m]
  BY DEF IsTables
<1>2. ASSUME NEW r, \E x, y, z : /\ r = [conversations |-> x, threads |-> y, messages |-> z]
                                 /\ DOMAIN y \subseteq DOMAIN b \cup {key}
      PROVE  IsTables(r) /\ DOMAIN r.threads \subseteq DOMAIN tb.threads \cup {key}
  <2>1. PICK x, y, z : /\ r = [conversations |-> x, threads |-> y, messages |-> z]
                       /\ DOMAIN y \subseteq DOMAIN b \cup {key}
    BY <1>2
  <2>2. r.threads = y /\ tb.threads = b /\ IsTables(r)
    BY <2>1, <1>1 DEF IsTables
  <2> QED
    BY <2>1, <2>2
<1>3. \A value : DOMAIN Put(b, key, value) = DOMAIN b \cup {key}
  BY DEF Put
<1>4. ASSUME NEW participants
      PROVE  LET r == UpdateParticipants(tb, key, participants)
             IN  IsTables(r) /\ DOMAIN r.threads \subseteq DOMAIN tb.threads \cup {key}
  <2>1. CASE key \in DOMAIN tb.threads
    <3> DEFINE y == [b EXCEPT ![key].participants = participants]
    <3>1. UpdateParticipants(tb, key, participants) = [conversations |-> a, threads |-> y, messages |-> m]
      BY <2>1, <1>1 DEF UpdateParticipants
    <3>2. DOMAIN y = DOMAIN b
      OBVIOUS
    <3> HIDE DEF y
    <3> QED
      BY <3>1, <3>2, <1>2
  <2>2. CASE key \notin DOMAIN tb.threads
    BY <2>2, <1>1, <1>2 DEF UpdateParticipants
  <2> QED
    BY <2>1, <2>2
<1>5. CASE e.type = "ConversationCreated"
  <2>1. ApplyEntry(tb, entry) = [conversations |-> a \cup {e.conversation}, threads |-> b, messages |-> m]
    BY <1>5, <1>1 DEF ApplyEntry
  <2> QED
    BY <2>1, <1>2 DEF key
<1>6. CASE e.type = "ThreadStarted"
  <2> DEFINE row == [sequence |-> entry.sequence, participants |-> Participants(e)]
  <2>1. ApplyEntry(tb, entry) = [tb EXCEPT !.threads = Put(@, key, row)]
    BY <1>6 DEF ApplyEntry, key
  <2> HIDE DEF row
  <2>2. ApplyEntry(tb, entry) = [conversations |-> a, threads |-> Put(b, key, row), messages |-> m]
    BY <2>1, <1>1
  <2> QED
    BY <2>2, <1>2, <1>3 DEF key
<1>7. CASE e.type = "MessagePosted"
  <2>1. \/ ApplyEntry(tb, entry) = tb
        \/ ApplyEntry(tb, entry) = [conversations |-> a, threads |-> b,
                                    messages |-> m \cup {MessageRow(entry)}]
    BY <1>7, <1>1 DEF ApplyEntry
  <2> QED
    BY <2>1, <1>1, <1>2 DEF key
<1>8. CASE e.type \in {"ParticipantAdded", "ParticipantRemoved"}
  <2>1. \E participants : ApplyEntry(tb, entry) = UpdateParticipants(tb, key, participants)
    BY <1>8 DEF ApplyEntry, key
  <2> QED
    BY <2>1, <1>4 DEF key
<1> QED
  BY <1>5, <1>6, <1>7, <1>8 DEF IsEvent

\* A thread that the projection shows belongs to a conversation of the log.
LEMMA ShownIsInLog ==
  ASSUME NEW lg, IsLog(lg), NEW n \in 0..Len(lg), NEW key \in DOMAIN TablesIn(lg, n).threads
  PROVE  \E i \in DOMAIN lg : lg[i].event.conversation = key[1]
<1> DEFINE entries == EntriesIn(lg, n)
           base == [ok |-> TRUE, tables |-> EmptyTables]
<1>1. Len(lg) \in Nat /\ DOMAIN lg = 1..Len(lg) /\ n \in Nat
  BY ListDomain DEF IsLog
<1>2. /\ DOMAIN entries = 1..n /\ Len(entries) = n
      /\ \A j \in 1..n : entries[j].event = lg[j].event
  <2>1. entries \in Seq(Range(entries))
    <3>1. entries \in [1..n -> Range(entries)]
      BY DEF EntriesIn, Range
    <3> QED
      BY <3>1, <1>1
  <2>2. DOMAIN entries = 1..n /\ \A j \in 1..n : entries[j].event = lg[j].event
    BY DEF EntriesIn
  <2> QED
    BY <2>1, <2>2, <1>1
<1> HIDE DEF entries
<1>3. PICK trace : /\ trace[0] = base
                   /\ \A k \in 0..(n - 1) : trace[k + 1] = ApplyNext(trace[k], entries[k + 1])
                   /\ Tx!Fold(base, entries) = trace[n]
  <2> HIDE DEF base
  <2>0. DOMAIN entries = 1..Len(entries) /\ Len(entries) \in Nat
    BY <1>1, <1>2
  <2>1. \E trace : /\ trace[0] = base
                   /\ \A k \in 0..(Len(entries) - 1) : trace[k + 1] = ApplyNext(trace[k], entries[k + 1])
                   /\ Tx!Fold(base, entries) = trace[Len(entries)]
    BY <2>0, Tx!FoldTrace, ZenonT(60)
  <2> QED
    BY <2>1, <1>2
<1> HIDE DEF base
<1> DEFINE known(tb) == \A ky \in DOMAIN tb.threads : \E i \in DOMAIN lg : lg[i].event.conversation = ky[1]
           good(tb) == IsTables(tb) /\ known(tb)
           P == {k \in Nat : k <= n => good(trace[k].tables)}
<1>4. good(EmptyTables)
  <2>1. IsTables(EmptyTables)
    BY DEF IsTables, EmptyTables
  <2>2. EmptyTables.threads = <<>> /\ DOMAIN <<>> = {}
    BY DEF EmptyTables
  <2> QED
    BY <2>1, <2>2
<1>5. 0 \in P
  BY <1>3, <1>4 DEF base
<1>6. ASSUME NEW k \in Nat, k \in P
      PROVE  k + 1 \in P
  <2> SUFFICES ASSUME k + 1 <= n
               PROVE  good(trace[k + 1].tables)
    OBVIOUS
  <2>1. k \in 0..(n - 1) /\ k + 1 \in 1..n /\ k <= n /\ k + 1 \in DOMAIN lg
    BY <1>1
  <2> DEFINE tb == trace[k].tables
             entry == entries[k + 1]
  <2>2. good(tb)
    BY <1>6, <2>1
  <2>3. trace[k + 1].tables \in {tb, ApplyEntry(tb, entry)}
    <3> HIDE DEF entry
    <3>1. trace[k + 1] = ApplyNext(trace[k], entry)
      BY <1>3, <2>1 DEF entry
    <3> QED
      BY <3>1 DEF ApplyNext
  <2>4. IsEvent(entry.event) /\ entry.event = lg[k + 1].event
    BY <1>2, <2>1 DEF IsLog
  <2>5. ThreadKey(entry.event)[1] = lg[k + 1].event.conversation
    BY <2>4 DEF ThreadKey
  <2> HIDE DEF tb, entry
  <2>6. /\ IsTables(ApplyEntry(tb, entry))
        /\ DOMAIN ApplyEntry(tb, entry).threads \subseteq DOMAIN tb.threads \cup {ThreadKey(entry.event)}
    BY <2>2, <2>4, EntryKeys
  <2>7. good(ApplyEntry(tb, entry))
    BY <2>1, <2>2, <2>5, <2>6
  <2> QED
    BY <2>2, <2>3, <2>7
<1>7. n \in P
  <2> HIDE DEF P
  <2> QED
    BY <1>1, <1>5, <1>6, Induction
<1>8. TablesIn(lg, n) \in {trace[n].tables, EmptyTables}
  <2> DEFINE tx == Tx!Fold(base, entries)
  <2>1. ApplyEntries(EmptyTables, entries) \in {tx, [ok |-> FALSE, tables |-> EmptyTables]}
    <3>1. FoldLeft(ApplyNext, base, entries) = Tx!Fold(base, entries)
      BY DEF Tx!Fold, FoldLeft, Tx!FoldLeft, MapThenFoldSet, Tx!MapThenFoldSet, Max, Tx!Max
    <3> QED
      BY <3>1 DEF ApplyEntries, base
  <2>2. tx.tables = trace[n].tables
    BY <1>3
  <2> HIDE DEF tx
  <2> QED
    BY <2>1, <2>2 DEF TablesIn, entries
<1>9. good(TablesIn(lg, n))
  <2>1. good(trace[n].tables)
    BY <1>1, <1>7
  <2> HIDE DEF good
  <2> QED
    BY <2>1, <1>4, <1>8
<1> QED
  BY <1>9

-----------------------------------------------------------------------------
(***************************************************************************)
(* The inductive invariant: the stages of a call.                          *)
(***************************************************************************)

\* The numbers that are caller k's in a log.
Mine(lg, k) == {n \in DOMAIN lg : lg[n].by = k}

\* A command's events are in the log, in one block, or none of them is.
Written(lg, k, cmd) ==
  LET batch == Intended(k, cmd)
  IN  Mine(lg, k) # {} =>
        \E n \in 0..Len(lg) : /\ Mine(lg, k) = (n + 1)..(n + Len(batch))
                              /\ \A i \in DOMAIN batch : lg[n + i].event = batch[i]

\* What a verdict says of log and projection.
IsTrue(v, lg, cp, k, cmd, since) ==
  /\ v.result = "accepted" =>
       /\ v.sequence \in Mine(lg, k)
       /\ \A n \in Mine(lg, k) : n <= v.sequence /\ lg[n].event.conversation = v.conversation
  /\ v.result \in {"refused", "forbidden", "not found", "unchanged"} => Mine(lg, k) = {}
  /\ v.result = "refused" => v.reason = "reason"
  /\ v.result = "unchanged" =>
       \E n \in since..Len(lg) : MemberIn(lg, cmd, n) <=> cmd.kind = "addParticipant"
  /\ v.result = "view" => \E n \in since..cp : v.view = FullIn(lg, n, cmd.conversation)
  /\ v.result = "views" => \E n \in since..cp : v.views = ViewsIn(lg, n, cmd.participant)
  /\ v.result = "events" => \E n \in since..Len(lg) : v.records = ListedIn(lg, n, cmd.conversation)

\* What the answer to a poll says of them, once the write v was accepted.
PollIsTrue(w, lg, cp, v) ==
  w.result = "view" => \E n \in v.sequence..cp : w.view = FullIn(lg, n, v.conversation)

\* A batch that leaves the log one that this program wrote.
Appendable(batch, lg) ==
  /\ IsBatch(batch)
  /\ \A i \in DOMAIN batch : IsEvent(batch[i]) /\ batch[i].conversation = batch[1].conversation
  /\ \/ Founded(lg, batch[1].conversation)
     \/ \E i \in DOMAIN batch : batch[i] = ConversationCreated(batch[1].conversation)

\* The records of the model.
IsClient(c) ==
  \E pc, cmd, since, verdict, waited, late :
    c = [pc |-> pc, cmd |-> cmd, since |-> since, verdict |-> verdict, waited |-> waited, late |-> late]

Under(request, handler, response) ==
  [request |-> request, handler |-> handler, response |-> response]

PollOf(c) == [kind |-> "get", conversation |-> c.verdict.conversation, after |-> c.verdict.sequence]

\* The call has no answer: it is waiting for one, or the connection broke.
Calling(c) ==
  \/ c.pc = "call" /\ c.verdict = Verdict("none")
  \/ c.pc = "done" /\ c.verdict = Verdict("error")

\* The request is on its way; if it broke off, nobody waits for the answer.
Sent(c, x, lg, k) ==
  /\ Calling(c)
  /\ Mine(lg, k) = {}
  /\ \/ x = Under(RequestFor(c.cmd), Nil, Nil)
     \/ /\ c.pc = "done"
        /\ RequestFor(c.cmd).body # Nil
        /\ x = Under([RequestFor(c.cmd) EXCEPT !.body = Garbled], Nil, Nil)

\* The handler has decided, on what the command is there for.
Handling(c, x, lg, k) ==
  /\ Calling(c)
  /\ Mine(lg, k) = {}
  /\ c.cmd.kind \in Writes
  /\ Appendable(Intended(k, c.cmd), lg)
  /\ \E d : /\ x = Under(Nil, [cmd |-> d, batch |-> Intended(k, c.cmd)], Nil)
            /\ d.kind = c.cmd.kind

\* The answer is on its way, and true.
Answered(c, x, lg, cp, k) ==
  /\ c.pc = "call" /\ c.verdict = Verdict("none")
  /\ Written(lg, k, c.cmd)
  /\ \E r : /\ x = Under(Nil, Nil, r)
            /\ IsTrue(VerdictOn(c.cmd, r), lg, cp, k, c.cmd, c.since)

\* The caller has its verdict; if that is an accepted write, it may be waiting
\* for the projection.
Over(c, x, lg, cp, k) ==
  /\ c.pc \in {"between", "poll", "done"}
  /\ Written(lg, k, c.cmd)
  /\ IsTrue(c.verdict, lg, cp, k, c.cmd, c.since)
  /\ c.pc # "done" => c.verdict.result = "accepted"
  /\ \/ x = Nothing
     \/ /\ c.verdict.result = "accepted"
        /\ c.pc \in {"poll", "done"}
        /\ x = Under(RequestFor(PollOf(c)), Nil, Nil)
     \/ /\ c.verdict.result = "accepted"
        /\ c.pc = "poll"
        /\ \E r : /\ x = Under(Nil, Nil, r)
                  /\ PollIsTrue(VerdictOn(PollOf(c), r), lg, cp, c.verdict)

\* A command was called, when log and projection were not behind since.
Begun(c, lg, cp, k) ==
  /\ IsClient(c)
  /\ c.cmd \in Command[k]
  /\ c.since \in 0..Len(lg)
  /\ c.cmd.kind \in {"get", "byParticipant"} => c.since <= cp

Stage(c, x, lg, cp, k) ==
  \/ c = Idle /\ x = Nothing /\ Mine(lg, k) = {}
  \/ /\ Begun(c, lg, cp, k)
     /\ \/ Sent(c, x, lg, k)
        \/ Handling(c, x, lg, k)
        \/ Answered(c, x, lg, cp, k)
        \/ Over(c, x, lg, cp, k)

ExchangeInv ==
  /\ DOMAIN client = Caller /\ DOMAIN exchange = Caller
  /\ IsLog(log)
  /\ checkpoint \in 0..Len(log)
  /\ tables = TablesIn(log, checkpoint)
  /\ \A k \in Caller : Stage(client[k], exchange[k], log, checkpoint, k)

-----------------------------------------------------------------------------
(***************************************************************************)
(* What the others do leaves a call where it is.                           *)
(***************************************************************************)

\* Nothing but another's events in the log, and a projection that caught up.
Elsewhere(lg2, cp2, lg, cp, k) ==
  /\ Continues(lg2, lg)
  /\ Mine(lg2, k) = Mine(lg, k)
  /\ cp \in 0..Len(lg) /\ cp2 \in cp..Len(lg2)

LEMMA ElsewhereNumbers ==
  ASSUME NEW lg2, NEW cp2, NEW lg, NEW cp, NEW k, Elsewhere(lg2, cp2, lg, cp, k)
  PROVE  /\ Len(lg) \in Nat /\ Len(lg2) \in Nat /\ cp \in Nat /\ cp2 \in Nat
         /\ Len(lg) <= Len(lg2) /\ cp <= cp2 /\ cp <= Len(lg) /\ cp2 <= Len(lg2)
         /\ \A n \in Mine(lg, k) : n \in 1..Len(lg) /\ lg2[n] = lg[n]
<1>1. /\ Len(lg) \in Nat /\ Len(lg2) \in Nat /\ DOMAIN lg = 1..Len(lg)
  BY ListDomain DEF Elsewhere, Continues
<1>2. Len(lg) <= Len(lg2) /\ cp \in 0..Len(lg) /\ cp2 \in cp..Len(lg2)
  BY DEF Elsewhere, Continues
<1>3. \A n \in Mine(lg, k) : n \in 1..Len(lg) /\ lg2[n] = lg[n]
  BY <1>1 DEF Elsewhere, Continues, Mine
<1> QED
  BY <1>1, <1>2, <1>3

LEMMA TruthStays ==
  ASSUME NEW lg2, NEW cp2, NEW lg, NEW cp, NEW k, Elsewhere(lg2, cp2, lg, cp, k),
         NEW v, NEW cmd, NEW since \in Nat, IsTrue(v, lg, cp, k, cmd, since)
  PROVE  IsTrue(v, lg2, cp2, k, cmd, since)
<1>0. /\ Len(lg) \in Nat /\ Len(lg2) \in Nat /\ cp \in Nat /\ cp2 \in Nat
      /\ Len(lg) <= Len(lg2) /\ cp <= cp2 /\ cp <= Len(lg) /\ cp2 <= Len(lg2)
      /\ \A n \in Mine(lg, k) : n \in 1..Len(lg) /\ lg2[n] = lg[n]
  BY ElsewhereNumbers
<1>1. Mine(lg2, k) = Mine(lg, k) /\ Continues(lg2, lg)
  BY DEF Elsewhere
<1>2. ASSUME NEW n \in since..cp
      PROVE  n \in since..cp2 /\ n \in 0..Len(lg)
  BY <1>0
<1>3. ASSUME NEW n \in since..Len(lg)
      PROVE  n \in since..Len(lg2) /\ n \in 0..Len(lg)
  BY <1>0
<1>4. /\ v.result = "accepted" =>
           /\ v.sequence \in Mine(lg2, k)
           /\ \A n \in Mine(lg2, k) : n <= v.sequence /\ lg2[n].event.conversation = v.conversation
      /\ v.result \in {"refused", "forbidden", "not found", "unchanged"} => Mine(lg2, k) = {}
      /\ v.result = "refused" => v.reason = "reason"
  BY <1>0, <1>1 DEF IsTrue
<1>5. v.result = "unchanged" =>
        \E n \in since..Len(lg2) : MemberIn(lg2, cmd, n) <=> cmd.kind = "addParticipant"
  <2> SUFFICES ASSUME v.result = "unchanged"
               PROVE  \E n \in since..Len(lg2) : MemberIn(lg2, cmd, n) <=> cmd.kind = "addParticipant"
    OBVIOUS
  <2>1. PICK n \in since..Len(lg) : MemberIn(lg, cmd, n) <=> cmd.kind = "addParticipant"
    BY DEF IsTrue
  <2>2. n \in since..Len(lg2) /\ MemberIn(lg2, cmd, n) = MemberIn(lg, cmd, n)
    BY <1>1, <1>3, PastStays
  <2> QED
    BY <2>1, <2>2
<1>6. v.result = "view" => \E n \in since..cp2 : v.view = FullIn(lg2, n, cmd.conversation)
  <2> SUFFICES ASSUME v.result = "view"
               PROVE  \E n \in since..cp2 : v.view = FullIn(lg2, n, cmd.conversation)
    OBVIOUS
  <2>1. PICK n \in since..cp : v.view = FullIn(lg, n, cmd.conversation)
    BY DEF IsTrue
  <2>2. n \in since..cp2 /\ FullIn(lg2, n, cmd.conversation) = FullIn(lg, n, cmd.conversation)
    BY <1>1, <1>2, PastStays
  <2> QED
    BY <2>1, <2>2
<1>7. v.result = "views" => \E n \in since..cp2 : v.views = ViewsIn(lg2, n, cmd.participant)
  <2> SUFFICES ASSUME v.result = "views"
               PROVE  \E n \in since..cp2 : v.views = ViewsIn(lg2, n, cmd.participant)
    OBVIOUS
  <2>1. PICK n \in since..cp : v.views = ViewsIn(lg, n, cmd.participant)
    BY DEF IsTrue
  <2>2. n \in since..cp2 /\ ViewsIn(lg2, n, cmd.participant) = ViewsIn(lg, n, cmd.participant)
    BY <1>1, <1>2, PastStays
  <2> QED
    BY <2>1, <2>2
<1>8. v.result = "events" => \E n \in since..Len(lg2) : v.records = ListedIn(lg2, n, cmd.conversation)
  <2> SUFFICES ASSUME v.result = "events"
               PROVE  \E n \in since..Len(lg2) : v.records = ListedIn(lg2, n, cmd.conversation)
    OBVIOUS
  <2>1. PICK n \in since..Len(lg) : v.records = ListedIn(lg, n, cmd.conversation)
    BY DEF IsTrue
  <2>2. n \in since..Len(lg2) /\ ListedIn(lg2, n, cmd.conversation) = ListedIn(lg, n, cmd.conversation)
    BY <1>1, <1>3, PastStays
  <2> QED
    BY <2>1, <2>2
<1> QED
  BY <1>4, <1>5, <1>6, <1>7, <1>8 DEF IsTrue

\* The events of a command are a list.
LEMMA IntendedDomain ==
  ASSUME NEW k, NEW cmd
  PROVE  /\ Len(Intended(k, cmd)) \in Nat
         /\ DOMAIN Intended(k, cmd) = 1..Len(Intended(k, cmd))
<1> DEFINE fits(s) == Len(s) \in Nat /\ DOMAIN s = 1..Len(s)
<1>0. fits(<<>>) /\ \A e : fits(<<e>>)
  OBVIOUS
<1>1. \A id, c : fits(NewThread(cmd, c, id)) /\ fits(<<ConversationCreated(id)>> \o NewThread(cmd, id, id))
  BY DEF NewThread
<1> HIDE DEF fits
<1>2. \A id : fits(StartConversation(cmd, id).batch)
  BY <1>0, <1>1 DEF StartConversation, ToAppend, Answer
<1>3. \A id : fits(AddThread(cmd, id, TRUE).batch)
  BY <1>0, <1>1 DEF AddThread, ToAppend, Answer
<1>4. fits(Intended(k, cmd))
  BY <1>0, <1>2, <1>3, Zenon DEF Intended
<1> QED
  BY <1>4 DEF fits

LEMMA StageStays ==
  ASSUME NEW lg2, NEW cp2, NEW lg, NEW cp, NEW k, Elsewhere(lg2, cp2, lg, cp, k),
         NEW c, NEW x, Stage(c, x, lg, cp, k)
  PROVE  Stage(c, x, lg2, cp2, k)
<1>0. /\ Len(lg) \in Nat /\ Len(lg2) \in Nat /\ cp \in Nat /\ cp2 \in Nat
      /\ Len(lg) <= Len(lg2) /\ cp <= cp2 /\ cp <= Len(lg) /\ cp2 <= Len(lg2)
      /\ \A n \in Mine(lg, k) : n \in 1..Len(lg) /\ lg2[n] = lg[n]
  BY ElsewhereNumbers
<1>1. Mine(lg2, k) = Mine(lg, k) /\ Continues(lg2, lg)
  BY DEF Elsewhere
<1>2. CASE c = Idle /\ x = Nothing /\ Mine(lg, k) = {}
  BY <1>1, <1>2 DEF Stage
<1>3. CASE /\ Begun(c, lg, cp, k)
           /\ \/ Sent(c, x, lg, k)
              \/ Handling(c, x, lg, k)
              \/ Answered(c, x, lg, cp, k)
              \/ Over(c, x, lg, cp, k)
  <2>1. Begun(c, lg2, cp2, k) /\ c.since \in Nat
    BY <1>0, <1>3 DEF Begun
  <2>2. Sent(c, x, lg, k) => Sent(c, x, lg2, k)
    BY <1>1 DEF Sent
  <2>3. Handling(c, x, lg, k) => Handling(c, x, lg2, k)
    <3>1. \A f : Founded(lg, f) => Founded(lg2, f)
      <4>1. DOMAIN lg \subseteq DOMAIN lg2
        BY <1>0, <1>1, ListDomain DEF Continues
      <4> QED
        BY <4>1, <1>1 DEF Founded, Continues
    <3>2. \A batch : Appendable(batch, lg) => Appendable(batch, lg2)
      BY <3>1 DEF Appendable
    <3> QED
      BY <1>1, <3>2 DEF Handling
  <2>4. ASSUME Written(lg, k, c.cmd)
        PROVE  Written(lg2, k, c.cmd)
    <3> DEFINE batch == Intended(k, c.cmd)
    <3> SUFFICES ASSUME Mine(lg, k) # {}
                 PROVE  \E n \in 0..Len(lg2) : /\ Mine(lg2, k) = (n + 1)..(n + Len(batch))
                                               /\ \A i \in DOMAIN batch : lg2[n + i].event = batch[i]
      BY <1>1 DEF Written
    <3>1. PICK n \in 0..Len(lg) : /\ Mine(lg, k) = (n + 1)..(n + Len(batch))
                                  /\ \A i \in DOMAIN batch : lg[n + i].event = batch[i]
      BY <2>4 DEF Written
    <3> HIDE DEF batch
    <3>2. n \in 0..Len(lg2)
      BY <1>0
    <3>3. Len(batch) \in Nat /\ DOMAIN batch = 1..Len(batch)
      BY IntendedDomain DEF batch
    <3>4. \A i \in DOMAIN batch : n + i \in Mine(lg, k)
      BY <3>1, <3>3
    <3>5. \A i \in DOMAIN batch : lg2[n + i].event = batch[i]
      BY <1>0, <3>1, <3>4
    <3> QED
      BY <1>1, <3>1, <3>2, <3>5
  <2>5. Answered(c, x, lg, cp, k) => Answered(c, x, lg2, cp2, k)
    BY <2>1, <2>4, TruthStays DEF Answered
  <2>6. ASSUME NEW w, c.verdict.result = "accepted", IsTrue(c.verdict, lg, cp, k, c.cmd, c.since),
               PollIsTrue(w, lg, cp, c.verdict)
        PROVE  PollIsTrue(w, lg2, cp2, c.verdict)
    <3> SUFFICES ASSUME w.result = "view"
                 PROVE  \E n \in c.verdict.sequence..cp2 : w.view = FullIn(lg2, n, c.verdict.conversation)
      BY DEF PollIsTrue
    <3>1. c.verdict.sequence \in Nat
      BY <1>0, <2>6 DEF IsTrue
    <3>2. PICK n \in c.verdict.sequence..cp : w.view = FullIn(lg, n, c.verdict.conversation)
      BY <2>6 DEF PollIsTrue
    <3>3. n \in c.verdict.sequence..cp2 /\ n \in 0..Len(lg)
      BY <1>0, <3>1
    <3>4. FullIn(lg2, n, c.verdict.conversation) = FullIn(lg, n, c.verdict.conversation)
      BY <1>1, <3>3, PastStays
    <3> QED
      BY <3>2, <3>3, <3>4
  <2>7. Over(c, x, lg, cp, k) => Over(c, x, lg2, cp2, k)
    <3> SUFFICES ASSUME Over(c, x, lg, cp, k)
                 PROVE  Over(c, x, lg2, cp2, k)
      OBVIOUS
    <3>1. Written(lg2, k, c.cmd) /\ IsTrue(c.verdict, lg2, cp2, k, c.cmd, c.since)
      BY <2>1, <2>4, TruthStays DEF Over
    <3> QED
      BY <3>1, <2>6 DEF Over
  <2> QED
    BY <1>3, <2>1, <2>2, <2>3, <2>5, <2>7 DEF Stage
<1> QED
  BY <1>2, <1>3 DEF Stage

-----------------------------------------------------------------------------
(***************************************************************************)
(* What the handler of a request decides.                                  *)
(***************************************************************************)

\* Events as the use cases raise them.
LEMMA EventsAreEvents ==
  ASSUME NEW c, NEW t, NEW a, NEW r
  PROVE  /\ IsEvent(ConversationCreated(c)) /\ ConversationCreated(c).conversation = c
         /\ IsEvent(ThreadStarted(c, t, a, r)) /\ ThreadStarted(c, t, a, r).conversation = c
         /\ IsEvent(MessagePosted(c, t, a)) /\ MessagePosted(c, t, a).conversation = c
         /\ IsEvent(ParticipantAdded(c, t, a)) /\ ParticipantAdded(c, t, a).conversation = c
         /\ IsEvent(ParticipantRemoved(c, t, a)) /\ ParticipantRemoved(c, t, a).conversation = c
<1>1. \A e : e = ConversationCreated(c) => IsEvent(e) /\ e.conversation = c
  BY DEF IsEvent, ConversationCreated
<1>2. \A e : e = ThreadStarted(c, t, a, r) => IsEvent(e) /\ e.conversation = c
  BY DEF IsEvent, ThreadStarted
<1>3. \A e : e = MessagePosted(c, t, a) => IsEvent(e) /\ e.conversation = c
  BY DEF IsEvent, MessagePosted
<1>4. \A e : e = ParticipantAdded(c, t, a) => IsEvent(e) /\ e.conversation = c
  BY DEF IsEvent, ParticipantAdded
<1>5. \A e : e = ParticipantRemoved(c, t, a) => IsEvent(e) /\ e.conversation = c
  BY DEF IsEvent, ParticipantRemoved
<1> QED
  BY <1>1, <1>2, <1>3, <1>4, <1>5, Zenon

LEMMA OneAppendable ==
  ASSUME NEW lg, NEW e, IsEvent(e), Founded(lg, e.conversation)
  PROVE  Appendable(<<e>>, lg)
<1>1. Len(<<e>>) = 1 /\ DOMAIN <<e>> = 1..1 /\ <<e>>[1] = e
  OBVIOUS
<1> QED
  BY <1>1 DEF Appendable, IsBatch

LEMMA ThreadAppendable ==
  ASSUME NEW lg, NEW cmd, NEW c, NEW id, Founded(lg, c)
  PROVE  Appendable(NewThread(cmd, c, id), lg)
<1> DEFINE batch == NewThread(cmd, c, id)
           a == ThreadStarted(c, id, cmd.author, cmd.recipients)
           b == MessagePosted(c, id, cmd.author)
<1>1. IsEvent(a) /\ IsEvent(b) /\ a.conversation = c /\ b.conversation = c
  BY EventsAreEvents
<1>2. batch = <<a, b>>
  BY DEF NewThread
<1> HIDE DEF batch, a, b
<1>3. Len(batch) = 2 /\ DOMAIN batch = 1..2 /\ batch[1] = a /\ batch[2] = b
  BY <1>2
<1>4. \A i \in DOMAIN batch : i = 1 \/ i = 2
  BY <1>3
<1> QED
  BY <1>1, <1>3, <1>4 DEF Appendable, IsBatch, batch

LEMMA StartAppendable ==
  ASSUME NEW lg, NEW cmd, NEW id
  PROVE  Appendable(<<ConversationCreated(id)>> \o NewThread(cmd, id, id), lg)
<1> DEFINE batch == <<ConversationCreated(id)>> \o NewThread(cmd, id, id)
           x == ConversationCreated(id)
           a == ThreadStarted(id, id, cmd.author, cmd.recipients)
           b == MessagePosted(id, id, cmd.author)
<1>1. /\ IsEvent(x) /\ IsEvent(a) /\ IsEvent(b)
      /\ x.conversation = id /\ a.conversation = id /\ b.conversation = id
  BY EventsAreEvents
<1>2. batch = <<x>> \o <<a, b>>
  BY DEF NewThread
<1>3. x = ConversationCreated(id)
  OBVIOUS
<1> HIDE DEF batch, a, b, x
<1>4. Len(batch) = 3 /\ DOMAIN batch = 1..3 /\ batch[1] = x /\ batch[2] = a /\ batch[3] = b
  BY <1>2
<1>5. \A i \in DOMAIN batch : i = 1 \/ i = 2 \/ i = 3
  BY <1>4
<1>6. 1 \in DOMAIN batch
  BY <1>4
<1> QED
  BY <1>1, <1>3, <1>4, <1>5, <1>6 DEF Appendable, IsBatch, batch

\* What says nothing of the log but that there is nothing in it.
LEMMA NothingIsTrue ==
  ASSUME NEW lg, NEW cp, NEW k, NEW cmd, NEW since, Mine(lg, k) = {},
         NEW v \in {[result |-> "refused", reason |-> "reason"], Verdict("forbidden"),
                    Verdict("not found"), Verdict("error"), Verdict("not caught up")}
  PROVE  IsTrue(v, lg, cp, k, cmd, since)
<1>1. /\ v.result \in {"refused", "forbidden", "not found", "error", "not caught up"}
      /\ v.result = "refused" => v.reason = "reason"
  <2>1. \A r : Verdict(r).result = r
    BY DEF Verdict
  <2>2. CASE v = [result |-> "refused", reason |-> "reason"]
    BY <2>2
  <2> HIDE DEF Verdict
  <2>3. CASE v \in {Verdict("forbidden"), Verdict("not found"), Verdict("error"), Verdict("not caught up")}
    BY <2>1, <2>3
  <2> QED
    BY <2>2, <2>3
<1> QED
  BY <1>1 DEF IsTrue

LEMMA ErrorIsTrue ==
  ASSUME NEW lg, NEW cp, NEW k, NEW cmd, NEW since
  PROVE  IsTrue(Verdict("error"), lg, cp, k, cmd, since)
BY DEF IsTrue, Verdict

\* The aggregate that a change of participants is decided on.
LEMMA AggregateOfLog ==
  ASSUME NEW lg, IsLog(lg), NEW c, RecordsIn(lg, c, Len(lg)) # <<>>
  PROVE  /\ RehydrateConversation(EventsOf(RecordsIn(lg, c, Len(lg)))).id = c
         /\ Founded(lg, c)
<1> DEFINE records == RecordsIn(lg, c, Len(lg))
           events == EventsOf(records)
<1>0. Len(lg) \in Nat /\ DOMAIN lg = 1..Len(lg) /\ Len(lg) \in 0..Len(lg)
  BY ListDomain DEF IsLog
<1>1. /\ IsList(records)
      /\ \A i \in DOMAIN records :
           \E j \in 1..Len(lg) : /\ records[i] = [sequence |-> j, event |-> lg[j].event]
                                 /\ lg[j].event.conversation = c
      /\ \A j \in 1..Len(lg) : lg[j].event.conversation = c =>
           \E i \in DOMAIN records : records[i] = [sequence |-> j, event |-> lg[j].event]
  BY <1>0, RecordsFacts
<1>2. /\ DOMAIN events = DOMAIN records
      /\ \A i \in DOMAIN records : events[i] = records[i].event
  BY DEF EventsOf
<1> HIDE DEF records, events
<1>3. IsList(events)
  <2>1. Len(records) \in Nat /\ DOMAIN records = 1..Len(records)
    BY <1>1, ListDomain
  <2>2. events \in [1..Len(records) -> Range(events)]
    BY <1>2, <2>1 DEF events, EventsOf, Range
  <2> QED
    BY <2>1, <2>2 DEF IsList
<1>4. 1 \in DOMAIN records
  <2>1. Len(records) \in Nat /\ DOMAIN records = 1..Len(records)
    BY <1>1, ListDomain
  <2>2. records \in Seq(Range(records)) /\ records # <<>>
    BY <1>1 DEF IsList, records
  <2>3. Len(records) # 0
    BY <2>2
  <2> QED
    BY <2>1, <2>3
<1>5. Founded(lg, c)
  BY <1>0, <1>1, <1>4 DEF IsLog
<1>6. \A i \in DOMAIN events : events[i].conversation = c
  BY <1>1, <1>2
<1>7. \E i \in DOMAIN events : events[i].type = "ConversationCreated"
  <2>1. PICK j \in 1..Len(lg) : lg[j].event = ConversationCreated(c)
    BY <1>0, <1>5 DEF Founded
  <2>2. lg[j].event.conversation = c /\ lg[j].event.type = "ConversationCreated"
    BY <2>1 DEF ConversationCreated
  <2> QED
    BY <2>2, <1>1, <1>2
<1>8. RehydrateConversation(events).id = c
  BY <1>3, <1>6, <1>7, AggregateId
<1> QED
  BY <1>5, <1>8 DEF events, records

\* What may come out of a handler: the events of the command, which may go to
\* the log, or an answer that is true.
Decision(outcome, d, lg, cp, k, cmd, since) ==
  \/ /\ outcome.status = "append"
     /\ outcome.content = Intended(k, cmd)
     /\ cmd.kind \in Writes
     /\ Appendable(Intended(k, cmd), lg)
  \/ /\ outcome.status # "append"
     /\ IsTrue(VerdictOn(cmd, ResponseTo(d, outcome)), lg, cp, k, cmd, since)

LEMMA AppendDecision ==
  ASSUME NEW lg, NEW cp, NEW k, NEW cmd, cmd.kind \in Writes, NEW d, NEW since, NEW batch,
         batch = Intended(k, cmd), Appendable(batch, lg)
  PROVE  Decision(Decided(ToAppend(batch)), d, lg, cp, k, cmd, since)
<1>1. Decided(ToAppend(batch)) = Outcome("append", batch)
  BY DEF Decided, ToAppend
<1>2. Outcome("append", batch).status = "append" /\ Outcome("append", batch).content = batch
  BY DEF Outcome
<1> QED
  BY <1>1, <1>2 DEF Decision

LEMMA RefusalDecision ==
  ASSUME NEW lg, NEW cp, NEW k, Mine(lg, k) = {}, NEW cmd, cmd.kind \in Writes, NEW d,
         d.kind = cmd.kind, NEW since, NEW status \in {"400", "403", "404"}
  PROVE  Decision(Decided(Answer(status)), d, lg, cp, k, cmd, since)
<1>1. Decided(Answer(status)) = Outcome(status, "reason")
  BY DEF Decided, Answer
<1>2. Outcome(status, "reason").status # "append"
  BY DEF Outcome
<1> DEFINE v == VerdictOn(cmd, ResponseTo(d, Outcome(status, "reason")))
<1>3. v \in {[result |-> "refused", reason |-> "reason"], Verdict("forbidden"), Verdict("not found"),
             Verdict("error"), Verdict("not caught up")}
  BY Refused
<1> HIDE DEF v
<1>4. IsTrue(v, lg, cp, k, cmd, since)
  BY <1>3, NothingIsTrue
<1> QED
  BY <1>1, <1>2, <1>4 DEF Decision, v

Changes == {"addParticipant", "removeParticipant"}

LEMMA NoOpDecision ==
  ASSUME NEW lg, NEW cp, NEW k, Mine(lg, k) = {}, NEW cmd,
         cmd.kind \in Changes, NEW d, d.kind = cmd.kind,
         NEW since, NEW n \in since..Len(lg), MemberIn(lg, cmd, n) <=> cmd.kind = "addParticipant"
  PROVE  Decision(Decided(Answer("204")), d, lg, cp, k, cmd, since)
<1>1. Decided(Answer("204")) = Outcome("204", Nil)
  BY DEF Decided, Answer
<1>2. Outcome("204", Nil).status # "append"
  BY DEF Outcome
<1>3. VerdictOn(cmd, ResponseTo(d, Outcome("204", Nil))) = Verdict("unchanged")
  BY Unchanged204 DEF Changes
<1> DEFINE v == Verdict("unchanged")
<1>4. v.result = "unchanged"
  BY DEF Verdict
<1> HIDE DEF v
<1>5. IsTrue(v, lg, cp, k, cmd, since)
  BY <1>4 DEF IsTrue
<1> QED
  BY <1>1, <1>2, <1>3, <1>5 DEF Decision, v

\* A change of participants, by the log.
LEMMA ManageDecision ==
  ASSUME NEW lg, IsLog(lg), NEW cp, NEW k, Mine(lg, k) = {}, NEW cmd,
         cmd.kind \in Changes, NEW d, SameCommand(d, cmd),
         NEW since \in 0..Len(lg)
  PROVE  Decision(Decided(ManageThreadParticipant(d, EventsOf(RecordsIn(lg, d.conversation, Len(lg))))),
                  d, lg, cp, k, cmd, since)
<1> DEFINE c == cmd.conversation
           t == cmd.thread
           p == cmd.participant
           records == RecordsIn(lg, c, Len(lg))
           events == EventsOf(records)
           conv == RehydrateConversation(events)
           decided == ManageThreadParticipant(d, events)
<1>0. Len(lg) \in Nat /\ Len(lg) \in since..Len(lg)
  BY ListDomain DEF IsLog
<1>1. d.kind = cmd.kind /\ d.conversation = c /\ d.thread = t /\ d.participant = p
  BY DEF SameCommand, Operations, Changes
<1>2. cmd.kind \in Writes
  BY DEF Writes, Changes
<1>3. events # <<>> => records # <<>>
  <2> SUFFICES ASSUME records = <<>>
               PROVE  events = <<>>
    OBVIOUS
  <2> HIDE DEF records
  <2>1. DOMAIN records = {}
    OBVIOUS
  <2> QED
    BY <2>1 DEF EventsOf
<1>4. records # <<>> => conv.id = c /\ Founded(lg, c)
  BY AggregateOfLog
<1>5. MemberIn(lg, cmd, Len(lg)) = Contains(MembersOf(conv, t), p)
  BY DEF MemberIn
<1>s. SUFFICES Decision(Decided(decided), d, lg, cp, k, cmd, since)
  BY <1>1
<1> HIDE DEF records, events, conv, c, t, p
<1>6. CASE cmd.kind = "addParticipant"
  <2> DEFINE e == ParticipantAdded(c, t, p)
  <2>1. \/ decided \in {Answer("400"), Answer("404")}
        \/ decided = Answer("204") /\ Contains(MembersOf(conv, t), p)
        \/ decided = ToAppend(<<ParticipantAdded(conv.id, t, p)>>) /\ events # <<>>
    BY <1>1, <1>6 DEF ManageThreadParticipant, AddParticipant, MembersOf, conv
  <2>2. CASE decided \in {Answer("400"), Answer("404")}
    BY <2>2, <1>1, <1>2, RefusalDecision
  <2>3. CASE decided = Answer("204") /\ Contains(MembersOf(conv, t), p)
    <3>1. MemberIn(lg, cmd, Len(lg)) <=> cmd.kind = "addParticipant"
      BY <2>3, <1>5, <1>6
    <3> HIDE DEF decided
    <3> QED
      BY <2>3, <3>1, <1>0, <1>1, NoOpDecision
  <2>4. CASE decided = ToAppend(<<ParticipantAdded(conv.id, t, p)>>) /\ events # <<>>
    <3>1. decided = ToAppend(<<e>>) /\ Founded(lg, c)
      BY <2>4, <1>3, <1>4
    <3>2. <<e>> = Intended(k, cmd)
      BY <1>6 DEF Intended, c, t, p
    <3>3. Appendable(<<e>>, lg)
      BY <3>1, EventsAreEvents, OneAppendable
    <3> QED
      BY <3>1, <3>2, <3>3, <1>1, <1>2, AppendDecision
  <2> QED
    BY <2>1, <2>2, <2>3, <2>4
<1>7. CASE cmd.kind = "removeParticipant"
  <2> DEFINE e == ParticipantRemoved(c, t, p)
  <2>1. \/ decided \in {Answer("400"), Answer("404")}
        \/ decided = Answer("204") /\ ~ Contains(MembersOf(conv, t), p)
        \/ decided = ToAppend(<<ParticipantRemoved(conv.id, t, p)>>) /\ events # <<>>
    BY <1>1, <1>7 DEF ManageThreadParticipant, RemoveParticipant, MembersOf, conv
  <2>2. CASE decided \in {Answer("400"), Answer("404")}
    BY <2>2, <1>1, <1>2, RefusalDecision
  <2>3. CASE decided = Answer("204") /\ ~ Contains(MembersOf(conv, t), p)
    <3>1. MemberIn(lg, cmd, Len(lg)) <=> cmd.kind = "addParticipant"
      BY <2>3, <1>5, <1>7
    <3> HIDE DEF decided
    <3> QED
      BY <2>3, <3>1, <1>0, <1>1, NoOpDecision
  <2>4. CASE decided = ToAppend(<<ParticipantRemoved(conv.id, t, p)>>) /\ events # <<>>
    <3>1. decided = ToAppend(<<e>>) /\ Founded(lg, c)
      BY <2>4, <1>3, <1>4
    <3>2. <<e>> = Intended(k, cmd)
      BY <1>7 DEF Intended, c, t, p
    <3>3. Appendable(<<e>>, lg)
      BY <3>1, EventsAreEvents, OneAppendable
    <3> QED
      BY <3>1, <3>2, <3>3, <1>1, <1>2, AppendDecision
  <2> QED
    BY <2>1, <2>2, <2>3, <2>4
<1> QED
  BY <1>6, <1>7 DEF Changes

\* A conversation that the projection shows has been created.
LEMMA ShownIsFounded ==
  ASSUME ExchangeInv, NEW key \in DOMAIN tables.threads
  PROVE  Founded(log, key[1])
<1>1. IsLog(log) /\ checkpoint \in 0..Len(log) /\ tables = TablesIn(log, checkpoint)
  BY DEF ExchangeInv
<1>2. PICK i \in DOMAIN log : log[i].event.conversation = key[1]
  BY <1>1, ShownIsInLog
<1> QED
  BY <1>1, <1>2 DEF IsLog

LEMMA StartDecision ==
  ASSUME NEW lg, NEW cp, NEW k, Mine(lg, k) = {}, NEW cmd, cmd.kind = "start", NEW d,
         SameCommand(d, cmd), NEW since
  PROVE  Decision(Decided(StartConversation(d, k)), d, lg, cp, k, cmd, since)
<1> DEFINE batch == <<ConversationCreated(k)>> \o NewThread(cmd, k, k)
<1>1. /\ d.kind = cmd.kind /\ d.resource = cmd.resource /\ d.title = cmd.title
      /\ d.author = cmd.author /\ d.recipients = cmd.recipients /\ d.message = cmd.message
      /\ cmd.kind \in Writes
  BY DEF SameCommand, Writes
<1>2. NewThread(d, k, k) = NewThread(cmd, k, k) /\ (ValidThread(d) <=> ValidThread(cmd))
  BY <1>1 DEF NewThread, ValidThread
<1>3. CASE cmd.resource # Nil /\ ValidThread(cmd)
  <2>1. StartConversation(d, k) = ToAppend(batch)
    BY <1>1, <1>2, <1>3 DEF StartConversation
  <2>2. StartConversation(cmd, k) = ToAppend(batch)
    BY <1>3 DEF StartConversation
  <2>3. ToAppend(batch).batch = batch
    BY DEF ToAppend
  <2>4. Appendable(batch, lg)
    BY StartAppendable
  <2> HIDE DEF batch
  <2>5. Intended(k, cmd) = batch
    BY <2>2, <2>3 DEF Intended
  <2> QED
    BY <1>1, <2>1, <2>4, <2>5, AppendDecision
<1>4. CASE ~ (cmd.resource # Nil /\ ValidThread(cmd))
  <2>1. StartConversation(d, k) = Answer("400")
    BY <1>1, <1>2, <1>4 DEF StartConversation
  <2> QED
    BY <1>1, <2>1, RefusalDecision
<1> QED
  BY <1>3, <1>4

LEMMA AddThreadDecision ==
  ASSUME NEW lg, NEW cp, NEW k, Mine(lg, k) = {}, NEW cmd, cmd.kind = "addThread", NEW d,
         SameCommand(d, cmd), NEW since, NEW exists, exists => Founded(lg, cmd.conversation)
  PROVE  Decision(Decided(AddThread(d, k, exists)), d, lg, cp, k, cmd, since)
<1> DEFINE batch == NewThread(cmd, cmd.conversation, k)
<1>1. /\ d.kind = cmd.kind /\ d.title = cmd.title /\ d.author = cmd.author
      /\ d.recipients = cmd.recipients /\ d.message = cmd.message
      /\ d.conversation = cmd.conversation
      /\ cmd.kind \in Writes
  BY DEF SameCommand, Writes, Operations
<1>2. /\ NewThread(d, d.conversation, k) = NewThread(cmd, cmd.conversation, k)
      /\ ValidThread(d) <=> ValidThread(cmd)
  BY <1>1 DEF NewThread, ValidThread
<1>3. CASE exists /\ ValidThread(cmd)
  <2>1. AddThread(d, k, exists) = ToAppend(batch)
    BY <1>2, <1>3 DEF AddThread
  <2>2. AddThread(cmd, k, TRUE) = ToAppend(batch)
    BY <1>3 DEF AddThread
  <2>3. ToAppend(batch).batch = batch
    BY DEF ToAppend
  <2>4. Appendable(batch, lg)
    BY <1>3, ThreadAppendable
  <2> HIDE DEF batch
  <2>5. Intended(k, cmd) = batch
    BY <2>2, <2>3 DEF Intended
  <2> QED
    BY <1>1, <2>1, <2>4, <2>5, AppendDecision
<1>4. CASE ~ (exists /\ ValidThread(cmd))
  <2>1. AddThread(d, k, exists) = Answer("400") \/ AddThread(d, k, exists) = Answer("404")
    BY <1>2, <1>4 DEF AddThread
  <2> QED
    BY <1>1, <2>1, RefusalDecision
<1> QED
  BY <1>3, <1>4

LEMMA ReplyDecision ==
  ASSUME NEW lg, NEW cp, NEW k, Mine(lg, k) = {}, NEW cmd, cmd.kind = "reply", NEW d,
         SameCommand(d, cmd), NEW since, NEW threads,
         cmd.thread \in DOMAIN threads => Founded(lg, cmd.conversation)
  PROVE  Decision(Decided(ReplyToThread(d, threads)), d, lg, cp, k, cmd, since)
<1> DEFINE e == MessagePosted(cmd.conversation, cmd.thread, cmd.author)
           decided == ReplyToThread(d, threads)
<1>1. /\ d.kind = cmd.kind /\ d.author = cmd.author /\ d.message = cmd.message
      /\ d.conversation = cmd.conversation /\ d.thread = cmd.thread
      /\ cmd.kind \in Writes
  BY DEF SameCommand, Writes, Operations
<1>2. \/ AuthorizeReply(threads, d) \in {"403", "404"}
      \/ AuthorizeReply(threads, d) = "ok" /\ cmd.thread \in DOMAIN threads
  BY <1>1 DEF AuthorizeReply
<1>3. \/ decided \in {Answer("400"), Answer("403"), Answer("404")}
      \/ decided = ToAppend(<<e>>) /\ Founded(lg, cmd.conversation)
  BY <1>1, <1>2 DEF ReplyToThread
<1> HIDE DEF decided
<1>4. CASE decided \in {Answer("400"), Answer("403"), Answer("404")}
  BY <1>1, <1>4, RefusalDecision DEF decided
<1>5. CASE decided = ToAppend(<<e>>) /\ Founded(lg, cmd.conversation)
  <2>1. <<e>> = Intended(k, cmd)
    BY DEF Intended
  <2>2. IsEvent(e) /\ e.conversation = cmd.conversation
    BY EventsAreEvents
  <2> HIDE DEF e
  <2>3. Appendable(<<e>>, lg)
    BY <1>5, <2>2, OneAppendable
  <2> QED
    BY <1>1, <1>5, <2>1, <2>3, AppendDecision DEF decided
<1> QED
  BY <1>3, <1>4, <1>5

\* What a read of a conversation returns.
LEMMA GetOutcome ==
  ASSUME ExchangeInv, NEW k, NEW d, d.kind = "get"
  PROVE  LET outcome == Handler(k, d, RecordsOf(d))
         IN  \/ outcome \in {Outcome("202", Nil), Outcome("404", "reason")}
             \/ /\ outcome = Outcome("200", ToConversation(FullIn(log, checkpoint, d.conversation)))
                /\ d.after # Nil => ~ (checkpoint < d.after)
<1>1. Handler(k, d, RecordsOf(d)) = GetConversation(d)
  BY DEF Handler
<1>2. FullView(tables, checkpoint, d.conversation) = FullIn(log, checkpoint, d.conversation)
  BY InLog DEF ExchangeInv
<1> QED
  BY <1>1, <1>2 DEF GetConversation

LEMMA GetDecision ==
  ASSUME ExchangeInv, NEW k, Mine(log, k) = {}, NEW cmd, cmd.kind = "get", NEW d,
         SameCommand(d, cmd), NEW since \in 0..Len(log), since <= checkpoint
  PROVE  Decision(Handler(k, d, RecordsOf(d)), d, log, checkpoint, k, cmd, since)
<1> DEFINE outcome == Handler(k, d, RecordsOf(d))
           view == FullIn(log, checkpoint, cmd.conversation)
<1>1. d.kind = "get" /\ d.conversation = cmd.conversation
  BY DEF SameCommand, Operations
<1>2. outcome \in {Outcome("202", Nil), Outcome("404", "reason")} \/ outcome = Outcome("200", ToConversation(view))
  BY <1>1, GetOutcome
<1>3. IsView(view)
  BY ViewOfIsView DEF FullIn
<1>4. checkpoint \in since..checkpoint
  BY ListDomain DEF ExchangeInv, IsLog
<1> HIDE DEF outcome
<1>5. outcome.status # "append"
  <2> HIDE DEF view
  <2> QED
    BY <1>2 DEF Outcome
<1> DEFINE v == VerdictOn(cmd, ResponseTo(d, outcome))
<1>6. CASE outcome \in {Outcome("202", Nil), Outcome("404", "reason")}
  <2>1. v \in {Verdict("not found"), Verdict("not caught up")}
    <3>1. cmd.kind \in Gets /\ d.kind = cmd.kind
      BY <1>1 DEF Gets
    <3>2. VerdictOn(cmd, ResponseTo(d, Outcome("404", "reason"))) = Verdict("not found")
      BY <3>1, GotNothing, Zenon
    <3>3. VerdictOn(cmd, ResponseTo(d, Outcome("202", Nil))) = Verdict("not caught up")
      BY <1>1, GotBehind, Zenon
    <3> QED
      BY <3>2, <3>3, <1>6
  <2> HIDE DEF v
  <2>2. IsTrue(v, log, checkpoint, k, cmd, since)
    BY <2>1, NothingIsTrue
  <2> QED
    BY <1>5, <2>2 DEF Decision, v, outcome
<1>7. CASE outcome = Outcome("200", ToConversation(view))
  <2> HIDE DEF view
  <2>1. v \in {[result |-> "view", view |-> view], Verdict("error")}
    BY <1>1, <1>3, <1>7, GotView
  <2> HIDE DEF v
  <2>2. CASE v = [result |-> "view", view |-> view]
    <3>1. v.result = "view" /\ v.view = view
      BY <2>2
    <3>2. IsTrue(v, log, checkpoint, k, cmd, since)
      BY <3>1, <1>4 DEF IsTrue, view
    <3> QED
      BY <1>5, <3>2 DEF Decision, v, outcome
  <2>3. CASE v = Verdict("error")
    BY <1>5, <2>3, ErrorIsTrue DEF Decision, v, outcome
  <2> QED
    BY <2>1, <2>2, <2>3
<1> QED
  BY <1>2, <1>6, <1>7

LEMMA ByParticipantDecision ==
  ASSUME ExchangeInv, NEW k, Mine(log, k) = {}, NEW cmd, cmd.kind = "byParticipant", NEW d,
         SameCommand(d, cmd), NEW since \in 0..Len(log), since <= checkpoint
  PROVE  Decision(Handler(k, d, RecordsOf(d)), d, log, checkpoint, k, cmd, since)
<1> DEFINE outcome == Handler(k, d, RecordsOf(d))
           views == ViewsIn(log, checkpoint, cmd.participant)
<1>1. d.kind = "byParticipant" /\ d.participant = cmd.participant
  BY DEF SameCommand, Operations
<1>2. outcome = Outcome("200", {ToConversation(v) : v \in views})
  <2>1. ViewsOfParticipant(tables, checkpoint, d.participant) = views
    BY <1>1, InLog DEF ExchangeInv
  <2> QED
    BY <1>1, <2>1 DEF Handler
<1>3. \A v \in views : IsView(v)
  BY ViewOfIsView DEF ViewsIn
<1>4. checkpoint \in since..checkpoint
  BY ListDomain DEF ExchangeInv, IsLog
<1> HIDE DEF outcome, views
<1>5. outcome.status # "append"
  BY <1>2 DEF Outcome
<1> DEFINE w == VerdictOn(cmd, ResponseTo(d, outcome))
<1>6. w \in {[result |-> "views", views |-> views], Verdict("error")}
  BY <1>1, <1>2, <1>3, GotViews
<1> HIDE DEF w
<1>7. CASE w = [result |-> "views", views |-> views]
  <2>1. w.result = "views" /\ w.views = views
    BY <1>7
  <2>2. IsTrue(w, log, checkpoint, k, cmd, since)
    BY <2>1, <1>4 DEF IsTrue, views
  <2> QED
    BY <1>5, <2>2 DEF Decision, w, outcome
<1>8. CASE w = Verdict("error")
  BY <1>5, <1>8, ErrorIsTrue DEF Decision, w, outcome
<1> QED
  BY <1>6, <1>7, <1>8

LEMMA EventsDecision ==
  ASSUME ExchangeInv, NEW k, Mine(log, k) = {}, NEW cmd, cmd.kind = "events", NEW d,
         SameCommand(d, cmd), NEW since \in 0..Len(log)
  PROVE  Decision(Handler(k, d, RecordsOf(d)), d, log, checkpoint, k, cmd, since)
<1> DEFINE outcome == Handler(k, d, RecordsOf(d))
           records == RecordsIn(log, cmd.conversation, Len(log))
           listed == [i \in DOMAIN records |-> Listed(records[i])]
<1>0. IsLog(log) /\ Len(log) \in Nat /\ Len(log) \in since..Len(log) /\ Len(log) \in 0..Len(log)
  BY ListDomain DEF ExchangeInv, IsLog
<1>1. d.kind = "events" /\ d.conversation = cmd.conversation
  BY DEF SameCommand, Operations
<1>2. outcome \in {Outcome("404", "reason"), Outcome("200", [i \in DOMAIN records |-> ToEvent(records[i])])}
  <2>1. RecordsOf(d) = records
    BY <1>1, InLog DEF RecordsOf
  <2> HIDE DEF records
  <2> QED
    BY <1>1, <2>1 DEF Handler, ListConversationEvents
<1>3. \A i \in DOMAIN records :
        /\ records[i] = [sequence |-> records[i].sequence, event |-> records[i].event]
        /\ IsEvent(records[i].event)
  <2> SUFFICES ASSUME NEW i \in DOMAIN records
               PROVE  /\ records[i] = [sequence |-> records[i].sequence, event |-> records[i].event]
                      /\ IsEvent(records[i].event)
    OBVIOUS
  <2>1. PICK j \in 1..Len(log) : records[i] = [sequence |-> j, event |-> log[j].event]
    BY <1>0, RecordsFacts
  <2>2. IsEvent(log[j].event)
    BY <1>0, ListDomain DEF IsLog
  <2> HIDE DEF records
  <2> QED
    BY <2>1, <2>2
<1>4. listed = ListedIn(log, Len(log), cmd.conversation)
  BY DEF ListedIn
<1> HIDE DEF outcome, records
<1>5. outcome.status # "append"
  <2> DEFINE json == [i \in DOMAIN records |-> ToEvent(records[i])]
  <2>1. outcome \in {Outcome("404", "reason"), Outcome("200", json)}
    BY <1>2
  <2> HIDE DEF json
  <2> QED
    BY <2>1 DEF Outcome
<1> DEFINE w == VerdictOn(cmd, ResponseTo(d, outcome))
<1>6. CASE outcome = Outcome("404", "reason")
  <2>1. w = Verdict("not found")
    <3>1. cmd.kind \in Gets /\ d.kind = cmd.kind
      BY <1>1 DEF Gets
    <3>2. VerdictOn(cmd, ResponseTo(d, Outcome("404", "reason"))) = Verdict("not found")
      BY <3>1, GotNothing, Zenon
    <3> QED
      BY <3>2, <1>6
  <2> HIDE DEF w
  <2>2. IsTrue(w, log, checkpoint, k, cmd, since)
    BY <2>1, NothingIsTrue
  <2> QED
    BY <1>5, <2>2 DEF Decision, w, outcome
<1>7. CASE outcome = Outcome("200", [i \in DOMAIN records |-> ToEvent(records[i])])
  <2>0. VerdictOn(cmd, ResponseTo(d, Outcome("200", [i \in DOMAIN records |-> ToEvent(records[i])]))) \in
          {[result |-> "events", records |-> listed], Verdict("error")}
    BY <1>1, <1>3, GotEvents
  <2>1. w \in {[result |-> "events", records |-> listed], Verdict("error")}
    BY <1>7, <2>0
  <2> HIDE DEF w, listed
  <2>2. CASE w = [result |-> "events", records |-> listed]
    <3>1. w.result = "events" /\ w.records = listed
      BY <2>2
    <3>2. IsTrue(w, log, checkpoint, k, cmd, since)
      BY <3>1, <1>0, <1>4 DEF IsTrue
    <3> QED
      BY <1>5, <3>2 DEF Decision, w, outcome
  <2>3. CASE w = Verdict("error")
    BY <1>5, <2>3, ErrorIsTrue DEF Decision, w, outcome
  <2> QED
    BY <2>1, <2>2, <2>3
<1> QED
  BY <1>2, <1>6, <1>7

\* Whatever the command is.
LEMMA HandlerDecision ==
  ASSUME ExchangeInv, NEW k, Mine(log, k) = {}, NEW cmd, cmd.kind \in Operations, NEW d,
         SameCommand(d, cmd), NEW since \in 0..Len(log),
         cmd.kind \in {"get", "byParticipant"} => since <= checkpoint
  PROVE  Decision(Handler(k, d, RecordsOf(d)), d, log, checkpoint, k, cmd, since)
<1>0. d.kind = cmd.kind
  BY DEF SameCommand
<1>1. CASE cmd.kind = "start"
  <2>1. Handler(k, d, RecordsOf(d)) = Decided(StartConversation(d, k))
    BY <1>0, <1>1 DEF Handler
  <2> QED
    BY <1>1, <2>1, StartDecision
<1>2. CASE cmd.kind = "addThread"
  <2>1. /\ Handler(k, d, RecordsOf(d)) = Decided(AddThread(d, k, Exists(tables, d.conversation)))
        /\ d.conversation = cmd.conversation
    BY <1>0, <1>2 DEF Handler, SameCommand, Operations
  <2>2. Exists(tables, d.conversation) => Founded(log, cmd.conversation)
    BY <2>1, ShownIsFounded DEF Exists
  <2> QED
    BY <1>2, <2>1, <2>2, AddThreadDecision
<1>3. CASE cmd.kind = "reply"
  <2>1. /\ Handler(k, d, RecordsOf(d)) = Decided(ReplyToThread(d, ThreadsOf(tables, d.conversation)))
        /\ d.conversation = cmd.conversation
    BY <1>0, <1>3 DEF Handler, SameCommand, Operations
  <2>2. cmd.thread \in DOMAIN ThreadsOf(tables, d.conversation) => Founded(log, cmd.conversation)
    BY <2>1, ShownIsFounded DEF ThreadsOf
  <2> QED
    BY <1>3, <2>1, <2>2, ReplyDecision
<1>4. CASE cmd.kind \in {"addParticipant", "removeParticipant"}
  <2>1. RecordsOf(d) = RecordsIn(log, d.conversation, Len(log))
    BY <1>0, <1>4, InLog DEF RecordsOf
  <2>2. Handler(k, d, RecordsOf(d)) = Decided(ManageThreadParticipant(d, EventsOf(RecordsOf(d))))
    BY <1>0, <1>4 DEF Handler
  <2>3. IsLog(log)
    BY DEF ExchangeInv
  <2>4. cmd.kind \in Changes
    BY <1>4 DEF Changes
  <2>5. Decision(Decided(ManageThreadParticipant(d, EventsOf(RecordsIn(log, d.conversation, Len(log))))),
                 d, log, checkpoint, k, cmd, since)
    BY <2>3, <2>4, ManageDecision
  <2> QED
    BY <2>1, <2>2, <2>5
<1>5. CASE cmd.kind = "get"
  BY <1>5, GetDecision
<1>6. CASE cmd.kind = "byParticipant"
  BY <1>6, ByParticipantDecision
<1>7. CASE cmd.kind = "events"
  BY <1>7, EventsDecision
<1> QED
  BY <1>1, <1>2, <1>3, <1>4, <1>5, <1>6, <1>7 DEF Operations

-----------------------------------------------------------------------------
(***************************************************************************)
(* The steps.                                                              *)
(***************************************************************************)

\* What is not routed or bound reaches no use case.
LEMMA NoUseCase ==
  ASSUME NEW k, NEW d \in {Unrouted, Malformed}, NEW records
  PROVE  Handler(k, d, records).status # "append"
BY DEF Unrouted, Malformed, Handler, Outcome

\* A poll that finds the conversation finds the write in it.
LEMMA PollDecision ==
  ASSUME ExchangeInv, NEW k, NEW v, v.sequence \in Nat,
         NEW poll, poll.kind = "get", poll.conversation = v.conversation, poll.after = v.sequence,
         NEW d, SameCommand(d, poll)
  PROVE  /\ Handler(k, d, RecordsOf(d)).status # "append"
         /\ PollIsTrue(VerdictOn(poll, ResponseTo(d, Handler(k, d, RecordsOf(d)))), log, checkpoint, v)
<1> DEFINE outcome == Handler(k, d, RecordsOf(d))
           view == FullIn(log, checkpoint, v.conversation)
           w == VerdictOn(poll, ResponseTo(d, outcome))
<1>1. d.kind = "get" /\ d.conversation = v.conversation /\ d.after = v.sequence
  BY DEF SameCommand, Operations
<1>2. \/ outcome \in {Outcome("202", Nil), Outcome("404", "reason")}
      \/ /\ outcome = Outcome("200", ToConversation(view))
         /\ d.after # Nil => ~ (checkpoint < d.after)
  BY <1>1, GetOutcome
<1>3. IsView(view)
  BY ViewOfIsView DEF FullIn
<1>4. checkpoint \in Nat
  BY ListDomain DEF ExchangeInv, IsLog
<1> HIDE DEF outcome, view
<1>5. outcome.status # "append"
  BY <1>2 DEF Outcome
<1>6. \A r : Verdict(r).result = r
  BY DEF Verdict
<1>7. CASE outcome \in {Outcome("202", Nil), Outcome("404", "reason")}
  <2>1. poll.kind \in Gets /\ d.kind = poll.kind
    BY <1>1 DEF Gets
  <2>2. VerdictOn(poll, ResponseTo(d, Outcome("404", "reason"))) = Verdict("not found")
    BY <2>1, GotNothing
  <2>3. VerdictOn(poll, ResponseTo(d, Outcome("202", Nil))) = Verdict("not caught up")
    BY <1>1, GotBehind
  <2>4. w.result # "view"
    BY <1>6, <1>7, <2>2, <2>3
  <2> HIDE DEF w
  <2> QED
    BY <1>5, <2>4 DEF PollIsTrue, w, outcome
<1>8. CASE /\ outcome = Outcome("200", ToConversation(view))
           /\ d.after # Nil => ~ (checkpoint < d.after)
  <2>1. v.sequence # Nil
    BY NilAssumption
  <2>2. checkpoint \in v.sequence..checkpoint
    BY <1>1, <1>4, <1>8, <2>1
  <2>3. w \in {[result |-> "view", view |-> view], Verdict("error")}
    BY <1>1, <1>3, <1>8, GotView
  <2> HIDE DEF w
  <2>4. w.result = "view" => w.view = view
    <3>1. CASE w = [result |-> "view", view |-> view]
      BY <3>1
    <3>2. CASE w = Verdict("error")
      BY <3>2, <1>6
    <3> QED
      BY <2>3, <3>1, <3>2
  <2>5. PollIsTrue(w, log, checkpoint, v)
    BY <2>2, <2>4 DEF PollIsTrue, view
  <2> QED
    BY <1>5, <2>5 DEF w, outcome
<1> QED
  BY <1>2, <1>7, <1>8

LEMMA Unders ==
  ASSUME NEW q, NEW h, NEW r
  PROVE  /\ Under(q, h, r).request = q /\ Under(q, h, r).handler = h /\ Under(q, h, r).response = r
         /\ Nothing = Under(Nil, Nil, Nil)
         /\ [Nothing EXCEPT !.request = q] = Under(q, Nil, Nil)
         /\ [Nothing EXCEPT !.handler = h] = Under(Nil, h, Nil)
         /\ [Nothing EXCEPT !.response = r] = Under(Nil, Nil, r)
BY DEF Under, Nothing

\* A step of one caller, or of the server for it, keeps the invariant if it
\* takes that caller to a stage.
LEMMA OneMoves ==
  ASSUME ExchangeInv, NEW k \in Caller,
         DOMAIN client' = Caller, DOMAIN exchange' = Caller,
         \A j \in Caller \ {k} : client'[j] = client[j] /\ exchange'[j] = exchange[j],
         IsLog(log'), Continues(log', log),
         \A j \in Caller \ {k} : Mine(log', j) = Mine(log, j),
         checkpoint' = checkpoint, tables' = tables,
         Stage(client'[k], exchange'[k], log', checkpoint', k)
  PROVE  ExchangeInv'
<1>0. Len(log) \in Nat /\ Len(log') \in Nat /\ Len(log) <= Len(log')
  BY ListDomain DEF Continues
<1>1. checkpoint \in 0..Len(log) /\ tables = TablesIn(log, checkpoint)
  BY DEF ExchangeInv
<1>2. checkpoint' \in 0..Len(log') /\ checkpoint' \in checkpoint..Len(log')
  BY <1>0, <1>1
<1>3. tables' = TablesIn(log', checkpoint')
  BY <1>1, PastStays
<1>4. ASSUME NEW j \in Caller
      PROVE  Stage(client'[j], exchange'[j], log', checkpoint', j)
  <2>1. CASE j = k
    BY <2>1
  <2>2. CASE j # k
    <3>1. Stage(client[j], exchange[j], log, checkpoint, j)
      BY DEF ExchangeInv
    <3>2. Elsewhere(log', checkpoint', log, checkpoint, j)
      BY <1>1, <1>2, <2>2 DEF Elsewhere
    <3>3. Stage(client[j], exchange[j], log', checkpoint', j)
      BY <3>1, <3>2, StageStays
    <3> QED
      BY <2>2, <3>3
  <2> QED
    BY <2>1, <2>2
<1> QED
  BY <1>2, <1>3, <1>4 DEF ExchangeInv

\* The same if nothing is written.
LEMMA OneMovesQuietly ==
  ASSUME ExchangeInv, NEW k \in Caller,
         DOMAIN client' = Caller, DOMAIN exchange' = Caller,
         \A j \in Caller \ {k} : client'[j] = client[j] /\ exchange'[j] = exchange[j],
         UNCHANGED <<log, checkpoint, tables>>,
         Stage(client'[k], exchange'[k], log, checkpoint, k)
  PROVE  ExchangeInv'
<1>1. log' = log /\ checkpoint' = checkpoint /\ tables' = tables
  OBVIOUS
<1>2. IsLog(log) /\ IsList(log) /\ Len(log) \in Nat
  BY ListDomain DEF ExchangeInv, IsLog
<1>3. Continues(log, log)
  BY <1>2 DEF Continues
<1>4. IsLog(log') /\ Continues(log', log) /\ \A j \in Caller \ {k} : Mine(log', j) = Mine(log, j)
  BY <1>1, <1>2, <1>3
<1>5. Stage(client'[k], exchange'[k], log', checkpoint', k)
  BY <1>1
<1> QED
  BY <1>1, <1>4, <1>5, OneMoves

\* A response to the call itself.
LEMMA CallResponded ==
  ASSUME NEW c, NEW lg, NEW cp, NEW k, Begun(c, lg, cp, k), Calling(c), Written(lg, k, c.cmd), NEW r,
         c.pc = "call" => IsTrue(VerdictOn(c.cmd, r), lg, cp, k, c.cmd, c.since),
         NEW x, x = Under(Nil, Nil, IF c.pc \in {"call", "poll"} THEN r ELSE Nil)
  PROVE  Stage(c, x, lg, cp, k)
<1>1. CASE c.pc = "call"
  <2>1. x = Under(Nil, Nil, r) /\ c.verdict = Verdict("none")
    BY <1>1 DEF Calling
  <2>2. Answered(c, x, lg, cp, k)
    BY <1>1, <2>1 DEF Answered
  <2> QED
    BY <2>2 DEF Stage
<1>2. CASE c.pc # "call"
  <2>1. c.pc = "done" /\ c.verdict = Verdict("error") /\ x = Nothing
    BY <1>2, Unders DEF Calling
  <2>2. IsTrue(c.verdict, lg, cp, k, c.cmd, c.since)
    BY <2>1, ErrorIsTrue
  <2>3. Over(c, x, lg, cp, k)
    BY <2>1, <2>2 DEF Over
  <2> QED
    BY <2>3 DEF Stage
<1> QED
  BY <1>1, <1>2

\* A response to a poll.
LEMMA PollResponded ==
  ASSUME NEW c, NEW lg, NEW cp, NEW k, Begun(c, lg, cp, k), c.pc \in {"poll", "done"},
         c.verdict.result = "accepted", Written(lg, k, c.cmd),
         IsTrue(c.verdict, lg, cp, k, c.cmd, c.since), NEW r,
         PollIsTrue(VerdictOn(PollOf(c), r), lg, cp, c.verdict),
         NEW x, x = Under(Nil, Nil, IF c.pc \in {"call", "poll"} THEN r ELSE Nil)
  PROVE  Stage(c, x, lg, cp, k)
<1>1. \/ c.pc = "poll" /\ x = Under(Nil, Nil, r)
      \/ c.pc = "done" /\ x = Nothing
  BY Unders
<1>2. Over(c, x, lg, cp, k)
  BY <1>1 DEF Over
<1> QED
  BY <1>2 DEF Stage

\* A poll, or what is left of one, is on its way.
Polling(c, x, lg, cp, k) ==
  /\ c.pc \in {"poll", "done"}
  /\ c.verdict.result = "accepted"
  /\ Written(lg, k, c.cmd)
  /\ IsTrue(c.verdict, lg, cp, k, c.cmd, c.since)
  /\ x = Under(RequestFor(PollOf(c)), Nil, Nil)

\* Who has a request, and who has a handler.
LEMMA RequestStage ==
  ASSUME NEW c, NEW x, NEW lg, NEW cp, NEW k, Stage(c, x, lg, cp, k), x.request # Nil
  PROVE  Begun(c, lg, cp, k) /\ (Sent(c, x, lg, k) \/ Polling(c, x, lg, cp, k))
<1>1. x # Nothing
  BY Unders
<1>2. \A h, r : x # Under(Nil, h, r)
  BY Unders
<1> QED
  BY <1>1, <1>2 DEF Stage, Handling, Answered, Over, Polling

LEMMA HandlerStage ==
  ASSUME NEW c, NEW x, NEW lg, NEW cp, NEW k, Stage(c, x, lg, cp, k), x.handler # Nil
  PROVE  Begun(c, lg, cp, k) /\ Handling(c, x, lg, k)
<1>1. x # Nothing
  BY Unders
<1>2. \A q, r : x # Under(q, Nil, r)
  BY Unders
<1> QED
  BY <1>1, <1>2 DEF Stage, Sent, Answered, Over

\* The commands of callers.
LEMMA CommandsAre ==
  ASSUME NEW k \in Caller, NEW c, NEW lg, NEW cp, Begun(c, lg, cp, k)
  PROVE  c.cmd.kind \in Operations /\ RequestFor(c.cmd).body # Garbled
BY CommandAssumption DEF Begun

\* A poll is a read of a conversation.
LEMMA PollIsGet ==
  ASSUME NEW c
  PROVE  /\ PollOf(c).kind = "get" /\ PollOf(c).kind \in Operations
         /\ PollOf(c).conversation = c.verdict.conversation
         /\ PollOf(c).after = c.verdict.sequence
         /\ RequestFor(PollOf(c)).body = Nil
         /\ RequestFor(PollOf(c)).body # Garbled
<1>1. /\ PollOf(c).kind = "get"
      /\ PollOf(c).conversation = c.verdict.conversation
      /\ PollOf(c).after = c.verdict.sequence
  BY DEF PollOf
<1>2. RequestFor(PollOf(c)).body = Nil
  BY <1>1 DEF RequestFor, NewGetConversationRequest, NewRequest
<1> QED
  BY <1>1, <1>2, NilAssumption DEF Operations

LEMMA RespondEffect ==
  ASSUME ExchangeInv, NEW k \in Caller, NEW r, Respond(k, r)
  PROVE  /\ DOMAIN exchange' = Caller
         /\ exchange'[k] = Under(Nil, Nil, IF client[k].pc \in {"call", "poll"} THEN r ELSE Nil)
         /\ \A j \in Caller \ {k} : exchange'[j] = exchange[j]
<1> DEFINE s == IF client[k].pc \in {"call", "poll"} THEN r ELSE Nil
           x == [Nothing EXCEPT !.response = s]
<1>1. DOMAIN exchange = Caller
  BY DEF ExchangeInv
<1>2. exchange' = [exchange EXCEPT ![k] = x]
  BY DEF Respond, Listening
<1>3. x = Under(Nil, Nil, s)
  BY Unders
<1> HIDE DEF x, s
<1>4. DOMAIN exchange' = Caller /\ exchange'[k] = x /\ \A j \in Caller \ {k} : exchange'[j] = exchange[j]
  BY <1>1, <1>2
<1> QED
  BY <1>3, <1>4 DEF s

LEMMA ReadFailsKeeps ==
  ASSUME ExchangeInv, NEW k \in Caller, ReadFails(k)
  PROVE  ExchangeInv'
<1> DEFINE c == client[k]
           x == exchange[k]
           r == TextResponse("500")
<1>1. x.request # Nil /\ Respond(k, r) /\ UNCHANGED <<client, log, checkpoint, tables>>
  BY DEF ReadFails
<1>2. /\ DOMAIN exchange' = Caller
      /\ exchange'[k] = Under(Nil, Nil, IF c.pc \in {"call", "poll"} THEN r ELSE Nil)
      /\ \A j \in Caller \ {k} : exchange'[j] = exchange[j]
  BY <1>1, RespondEffect
<1>3. Stage(c, x, log, checkpoint, k)
  BY DEF ExchangeInv
<1>4. DOMAIN client' = Caller /\ \A j \in Caller : client'[j] = client[j]
  BY <1>1 DEF ExchangeInv
<1> HIDE DEF c, x, r
<1>5. Begun(c, log, checkpoint, k) /\ (Sent(c, x, log, k) \/ Polling(c, x, log, checkpoint, k))
  BY <1>1, <1>3, RequestStage
<1>6. ASSUME Sent(c, x, log, k)
      PROVE  Stage(c, exchange'[k], log, checkpoint, k)
  <2>1. VerdictOn(c.cmd, r) = Verdict("error")
    BY <1>5, CommandsAre, ErrorOn500 DEF r
  <2>2. IsTrue(VerdictOn(c.cmd, r), log, checkpoint, k, c.cmd, c.since)
    BY <2>1, ErrorIsTrue
  <2>3. Calling(c) /\ Written(log, k, c.cmd)
    BY <1>6 DEF Sent, Written
  <2> QED
    BY <1>2, <1>5, <2>2, <2>3, CallResponded
<1>7. ASSUME Polling(c, x, log, checkpoint, k)
      PROVE  Stage(c, exchange'[k], log, checkpoint, k)
  <2>1. VerdictOn(PollOf(c), r) = Verdict("error")
    BY PollIsGet, ErrorOn500 DEF r
  <2>2. PollIsTrue(VerdictOn(PollOf(c), r), log, checkpoint, c.verdict)
    BY <2>1 DEF PollIsTrue, Verdict
  <2> QED
    BY <1>2, <1>5, <1>7, <2>2, PollResponded DEF Polling
<1>8. Stage(client'[k], exchange'[k], log, checkpoint, k)
  BY <1>4, <1>5, <1>6, <1>7 DEF c
<1> QED
  BY <1>1, <1>2, <1>4, <1>8, OneMovesQuietly

\* What Serve does, by what comes out of the handler.
LEMMA ServeEffect ==
  ASSUME ExchangeInv, NEW k \in Caller, Serve(k), NEW d, d = ServeHTTP(exchange[k].request),
         NEW outcome, outcome = Handler(k, d, RecordsOf(d))
  PROVE  /\ DOMAIN exchange' = Caller
         /\ \A j \in Caller \ {k} : exchange'[j] = exchange[j]
         /\ outcome.status = "append" =>
              exchange'[k] = Under(Nil, [cmd |-> d, batch |-> outcome.content], Nil)
         /\ outcome.status # "append" =>
              exchange'[k] = Under(Nil, Nil, IF client[k].pc \in {"call", "poll"}
                                             THEN ResponseTo(d, outcome) ELSE Nil)
<1>0. DOMAIN exchange = Caller
  BY DEF ExchangeInv
<1>1. IF outcome.status = "append"
      THEN exchange' = [exchange EXCEPT ![k] = [Nothing EXCEPT !.handler = [cmd |-> d, batch |-> outcome.content]]]
      ELSE Respond(k, ResponseTo(d, outcome))
  BY DEF Serve
<1>2. CASE outcome.status = "append"
  <2> DEFINE h == [cmd |-> d, batch |-> outcome.content]
             x == [Nothing EXCEPT !.handler = h]
  <2>1. exchange' = [exchange EXCEPT ![k] = x]
    BY <1>1, <1>2
  <2>2. x = Under(Nil, h, Nil)
    BY Unders
  <2> HIDE DEF x, h
  <2>3. DOMAIN exchange' = Caller /\ exchange'[k] = x /\ \A j \in Caller \ {k} : exchange'[j] = exchange[j]
    BY <1>0, <2>1
  <2> QED
    BY <1>2, <2>2, <2>3 DEF h
<1>3. CASE outcome.status # "append"
  BY <1>1, <1>3, RespondEffect
<1> QED
  BY <1>2, <1>3

LEMMA ServeKeeps ==
  ASSUME ExchangeInv, NEW k \in Caller, Serve(k)
  PROVE  ExchangeInv'
<1> DEFINE c == client[k]
           x == exchange[k]
           d == ServeHTTP(exchange[k].request)
           outcome == Handler(k, d, RecordsOf(d))
           r == ResponseTo(d, outcome)
<1>1. x.request # Nil /\ UNCHANGED <<client, log, checkpoint, tables>>
  BY DEF Serve
<1>2. /\ DOMAIN exchange' = Caller
      /\ \A j \in Caller \ {k} : exchange'[j] = exchange[j]
      /\ outcome.status = "append" =>
           exchange'[k] = Under(Nil, [cmd |-> d, batch |-> outcome.content], Nil)
      /\ outcome.status # "append" =>
           exchange'[k] = Under(Nil, Nil, IF c.pc \in {"call", "poll"} THEN r ELSE Nil)
  BY ServeEffect
<1>3. Stage(c, x, log, checkpoint, k)
  BY DEF ExchangeInv
<1>4. DOMAIN client' = Caller /\ \A j \in Caller : client'[j] = client[j]
  BY <1>1 DEF ExchangeInv
<1>5. Begun(c, log, checkpoint, k) /\ (Sent(c, x, log, k) \/ Polling(c, x, log, checkpoint, k))
  <2> HIDE DEF c, x
  <2> QED
    BY <1>1, <1>3, RequestStage
<1>6. c.cmd.kind \in Operations /\ RequestFor(c.cmd).body # Garbled
  <2> HIDE DEF c
  <2> QED
    BY <1>5, CommandsAre
<1>7. Len(log) \in Nat /\ DOMAIN log = 1..Len(log)
  BY ListDomain DEF ExchangeInv, IsLog
<1>8. ASSUME Sent(c, x, log, k), x = Under(RequestFor(c.cmd), Nil, Nil)
      PROVE  Stage(c, exchange'[k], log, checkpoint, k)
  <2>1. x.request = RequestFor(c.cmd) /\ Calling(c) /\ Mine(log, k) = {} /\ Written(log, k, c.cmd)
    BY <1>8, Unders DEF Sent, Written
  <2>2. \/ d = Unrouted
        \/ d = Malformed /\ c.cmd.kind = "byParticipant"
        \/ SameCommand(d, c.cmd)
    BY <1>6, <2>1, Understood
  <2>3. CASE d = Unrouted \/ (d = Malformed /\ c.cmd.kind = "byParticipant")
    <3>1. outcome.status # "append"
      BY <2>3, NoUseCase
    <3>2. VerdictOn(c.cmd, r) \in {Verdict("not found"), Verdict("error")}
      <4> HIDE DEF d, outcome, c
      <4> QED
        BY <1>6, <2>3, TurnedAway
    <3>3. IsTrue(VerdictOn(c.cmd, r), log, checkpoint, k, c.cmd, c.since)
      <4> HIDE DEF r, c
      <4> QED
        BY <2>1, <3>2, NothingIsTrue
    <3> HIDE DEF c, r, outcome
    <3> QED
      BY <1>2, <1>5, <2>1, <3>1, <3>3, CallResponded
  <2>4. CASE SameCommand(d, c.cmd)
    <3>1. Decision(outcome, d, log, checkpoint, k, c.cmd, c.since)
      <4>1. /\ c.since \in 0..Len(log)
            /\ c.cmd.kind \in {"get", "byParticipant"} => c.since <= checkpoint
        BY <1>5 DEF Begun
      <4> HIDE DEF c, d
      <4> QED
        BY <1>6, <2>1, <2>4, <4>1, HandlerDecision
    <3> HIDE DEF c, d, outcome, x
    <3>2. CASE outcome.status = "append"
      <4>1. /\ outcome.content = Intended(k, c.cmd)
            /\ c.cmd.kind \in Writes
            /\ Appendable(Intended(k, c.cmd), log)
        BY <3>1, <3>2 DEF Decision
      <4>2. exchange'[k] = Under(Nil, [cmd |-> d, batch |-> Intended(k, c.cmd)], Nil)
        BY <1>2, <3>2, <4>1
      <4>3. d.kind = c.cmd.kind
        BY <2>4 DEF SameCommand
      <4>4. Handling(c, exchange'[k], log, k)
        BY <2>1, <4>1, <4>2, <4>3 DEF Handling
      <4> QED
        BY <1>5, <4>4 DEF Stage
    <3>3. CASE outcome.status # "append"
      <4>1. IsTrue(VerdictOn(c.cmd, r), log, checkpoint, k, c.cmd, c.since)
        BY <3>1, <3>3 DEF Decision
      <4> HIDE DEF r
      <4> QED
        BY <1>2, <1>5, <2>1, <3>3, <4>1, CallResponded
    <3> QED
      BY <3>2, <3>3
  <2> QED
    BY <2>2, <2>3, <2>4
<1>9. ASSUME Sent(c, x, log, k), x # Under(RequestFor(c.cmd), Nil, Nil)
      PROVE  Stage(c, exchange'[k], log, checkpoint, k)
  <2> DEFINE q == [RequestFor(c.cmd) EXCEPT !.body = Garbled]
  <2>1. /\ c.pc = "done" /\ RequestFor(c.cmd).body # Nil
        /\ x = Under(q, Nil, Nil)
        /\ Calling(c) /\ Written(log, k, c.cmd)
    BY <1>9 DEF Sent, Written
  <2>2. x.request = q
    BY <2>1, Unders
  <2>3. ServeHTTP(q) \in {Unrouted, Malformed}
    <3> HIDE DEF c
    <3> QED
      BY <1>6, <2>1, BrokenOff
  <2>4. d \in {Unrouted, Malformed}
    BY <2>2, <2>3
  <2> HIDE DEF d
  <2>5. outcome.status # "append"
    BY <2>4, NoUseCase
  <2> HIDE DEF c, r, outcome
  <2> QED
    BY <1>2, <1>5, <2>1, <2>5, CallResponded
<1>10. ASSUME Polling(c, x, log, checkpoint, k)
       PROVE  Stage(c, exchange'[k], log, checkpoint, k)
  <2> DEFINE poll == PollOf(c)
  <2>0. /\ poll.kind = "get" /\ poll.kind \in Operations
        /\ poll.conversation = c.verdict.conversation
        /\ poll.after = c.verdict.sequence
        /\ RequestFor(poll).body # Garbled
    BY PollIsGet
  <2>1. /\ x = Under(RequestFor(poll), Nil, Nil) /\ c.pc \in {"poll", "done"}
        /\ c.verdict.result = "accepted" /\ Written(log, k, c.cmd)
        /\ IsTrue(c.verdict, log, checkpoint, k, c.cmd, c.since)
    BY <1>10 DEF Polling
  <2> HIDE DEF poll
  <2>2. x.request = RequestFor(poll) /\ c.verdict.sequence \in Nat
    BY <2>1, <1>7, Unders DEF IsTrue, Mine
  <2>3. \/ d = Unrouted
        \/ d = Malformed /\ poll.kind = "byParticipant"
        \/ SameCommand(d, poll)
    BY <2>0, <2>2, Understood
  <2> HIDE DEF d, c, x
  <2>4. outcome.status # "append" /\ PollIsTrue(VerdictOn(poll, r), log, checkpoint, c.verdict)
    <3>1. CASE d = Unrouted
      <4>1. outcome.status # "append"
        BY <3>1, NoUseCase
      <4>2. VerdictOn(poll, r) \in {Verdict("not found"), Verdict("error")}
        <5> HIDE DEF outcome
        <5> QED
          BY <2>0, <3>1, TurnedAway
      <4> HIDE DEF r
      <4>3. VerdictOn(poll, r).result # "view"
        <5> DEFINE w == VerdictOn(poll, r)
        <5>1. Verdict("not found").result = "not found" /\ Verdict("error").result = "error"
          BY DEF Verdict
        <5>2. w = Verdict("not found") \/ w = Verdict("error")
          BY <4>2
        <5> HIDE DEF w
        <5>3. w.result # "view"
          BY <5>1, <5>2
        <5> QED
          BY <5>3 DEF w
      <4> QED
        BY <4>1, <4>3 DEF PollIsTrue
    <3>2. CASE SameCommand(d, poll)
      BY <2>0, <2>2, <3>2, PollDecision
    <3> QED
      BY <2>0, <2>3, <3>1, <3>2
  <2> HIDE DEF r, outcome
  <2> QED
    BY <1>2, <1>5, <2>1, <2>4, PollResponded DEF poll
<1>11. Stage(client'[k], exchange'[k], log, checkpoint, k)
  BY <1>4, <1>5, <1>8, <1>9, <1>10
<1> QED
  BY <1>1, <1>2, <1>4, <1>11, OneMovesQuietly

\* What the concatenation of two lists is.
Joins(s, t, S) ==
  /\ s \o t \in Seq(S)
  /\ Len(s \o t) = Len(s) + Len(t)
  /\ DOMAIN (s \o t) = 1..(Len(s) + Len(t))
  /\ \A i \in 1..Len(s) : (s \o t)[i] = s[i]
  /\ \A i \in 1..Len(t) : (s \o t)[Len(s) + i] = t[i]

LEMMA ConcatFacts ==
  ASSUME NEW S, NEW s \in Seq(S), NEW t \in Seq(S)
  PROVE  Joins(s, t, S)
BY DEF Joins

\* A log with the batch of caller k at its end.
Grown(lg2, lg, k, batch) ==
  /\ IsLog(lg2) /\ Continues(lg2, lg)
  /\ Len(lg2) = Len(lg) + Len(batch)
  /\ \A j : j # k => Mine(lg2, j) = Mine(lg, j)
  /\ Mine(lg, k) = {} => Mine(lg2, k) = (Len(lg) + 1)..(Len(lg) + Len(batch))
  /\ \A i \in DOMAIN batch : lg2[Len(lg) + i].event = batch[i]

LEMMA CommitEffect ==
  ASSUME NEW lg, IsLog(lg), NEW k, NEW batch, Appendable(batch, lg)
  PROVE  Grown(lg \o [i \in DOMAIN batch |-> [by |-> k, event |-> batch[i]]], lg, k, batch)
<1> DEFINE lg2 == lg \o [i \in DOMAIN batch |-> [by |-> k, event |-> batch[i]]]
           L == Len(lg)
           B == Len(batch)
           block == [i \in DOMAIN batch |-> [by |-> k, event |-> batch[i]]]
           S == Range(lg) \cup Range(block)
<1>1. L \in Nat /\ DOMAIN lg = 1..L /\ B \in Nat /\ B >= 1 /\ DOMAIN batch = 1..B
  BY ListDomain DEF IsLog, Appendable, IsBatch
<1>2. lg \in Seq(S)
  <2> HIDE DEF block
  <2> QED
    BY DEF IsLog, IsList
<1>3. block \in Seq(S) /\ Len(block) = B
  <2>1. block \in [1..B -> S]
    BY <1>1 DEF Range
  <2> HIDE DEF block, S
  <2> QED
    BY <1>1, <2>1
<1>4. \A i \in 1..B : block[i].by = k /\ block[i].event = batch[i]
  BY <1>1
<1> HIDE DEF block, S
<1>5. /\ lg2 \in Seq(S) /\ Len(lg2) = L + B /\ DOMAIN lg2 = 1..(L + B)
      /\ \A i \in 1..L : lg2[i] = lg[i]
      /\ \A i \in 1..B : lg2[L + i] = block[i]
  <2> DEFINE cat == lg \o block
  <2>1. lg2 = cat
    BY DEF block
  <2>2. Joins(lg, block, S)
    BY <1>2, <1>3, ConcatFacts
  <2>3. Len(block) = B
    BY <1>3
  <2> HIDE DEF lg2, B
  <2> QED
    BY <2>1, <2>2, <2>3 DEF Joins
<1> HIDE DEF L, B, lg2
<1>6. \A n \in DOMAIN lg2 : n \in 1..L \/ (n - L \in 1..B /\ L + (n - L) = n)
  BY <1>1, <1>5
<1>7. DOMAIN lg \subseteq DOMAIN lg2
  BY <1>1, <1>5
<1>8. IsList(lg2)
  BY <1>5, SeqIsList
<1>9. Continues(lg2, lg)
  BY <1>1, <1>5, <1>8 DEF Continues, IsLog, L
<1>10. \A c : Founded(lg, c) => Founded(lg2, c)
  BY <1>1, <1>5, <1>7 DEF Founded
<1>11. \A i \in 1..B : L + i \in DOMAIN lg2 /\ lg2[L + i].event = batch[i] /\ lg2[L + i].by = k
  <2>1. \A i \in 1..B : L + i \in DOMAIN lg2
    BY <1>1, <1>5
  <2> QED
    BY <2>1, <1>4, <1>5
<1>12. Founded(lg2, batch[1].conversation)
  <2>1. CASE Founded(lg, batch[1].conversation)
    BY <2>1, <1>10
  <2>2. CASE \E i \in DOMAIN batch : batch[i] = ConversationCreated(batch[1].conversation)
    BY <2>2, <1>1, <1>11 DEF Founded
  <2> QED
    BY <2>1, <2>2 DEF Appendable
<1>13. ASSUME NEW n \in DOMAIN lg2
       PROVE  IsEvent(lg2[n].event) /\ Founded(lg2, lg2[n].event.conversation)
  <2>1. CASE n \in 1..L
    BY <2>1, <1>1, <1>5, <1>10 DEF IsLog
  <2>2. CASE n - L \in 1..B /\ L + (n - L) = n
    <3>1. lg2[n].event = batch[n - L]
      BY <2>2, <1>11
    <3>2. IsEvent(batch[n - L]) /\ batch[n - L].conversation = batch[1].conversation
      BY <2>2, <1>1 DEF Appendable
    <3> QED
      BY <3>1, <3>2, <1>12
  <2> QED
    BY <1>6, <2>1, <2>2
<1>14. \A j : j # k => Mine(lg2, j) = Mine(lg, j)
  <2> SUFFICES ASSUME NEW j, j # k, NEW n
               PROVE  n \in Mine(lg2, j) <=> n \in Mine(lg, j)
    OBVIOUS
  <2>1. ASSUME n \in DOMAIN lg2, n \notin 1..L
        PROVE  lg2[n].by = k
    <3>1. n - L \in 1..B /\ L + (n - L) = n
      BY <1>6, <2>1
    <3> QED
      BY <3>1, <1>11
  <2> QED
    BY <1>1, <1>5, <1>7, <2>1 DEF Mine
<1>15. Mine(lg, k) = {} => Mine(lg2, k) = (L + 1)..(L + B)
  <2> SUFFICES ASSUME Mine(lg, k) = {}, NEW n
               PROVE  n \in Mine(lg2, k) <=> n \in (L + 1)..(L + B)
    OBVIOUS
  <2>1. n \in (L + 1)..(L + B) => n \in DOMAIN lg2 /\ n - L \in 1..B /\ L + (n - L) = n
    BY <1>1, <1>5
  <2>2. n \in (L + 1)..(L + B) => n \in Mine(lg2, k)
    BY <2>1, <1>11 DEF Mine
  <2>3. n \in 1..L => n \notin Mine(lg2, k)
    BY <1>1, <1>5 DEF Mine
  <2>4. n \in DOMAIN lg2 => n \in 1..L \/ n \in (L + 1)..(L + B)
    BY <1>1, <1>5
  <2> QED
    BY <2>2, <2>3, <2>4 DEF Mine
<1>16. Grown(lg2, lg, k, batch)
  BY <1>1, <1>5, <1>8, <1>9, <1>11, <1>13, <1>14, <1>15 DEF Grown, IsLog, L, B
<1> QED
  BY <1>16 DEF lg2

\* The batch of a command that its caller has not written yet, once it is in
\* the log, is written, and an accepted answer that names its last event true.
LEMMA GrownIsWritten ==
  ASSUME NEW lg2, NEW lg, NEW k, NEW cmd, Grown(lg2, lg, k, Intended(k, cmd)),
         IsLog(lg), Mine(lg, k) = {}, Appendable(Intended(k, cmd), lg)
  PROVE  /\ Written(lg2, k, cmd)
         /\ Len(lg2) \in Mine(lg2, k)
         /\ \A n \in Mine(lg2, k) : /\ n <= Len(lg2)
                                    /\ lg2[n].event.conversation = Intended(k, cmd)[1].conversation
<1> DEFINE batch == Intended(k, cmd)
           L == Len(lg)
           B == Len(batch)
<1>1. L \in Nat /\ B \in Nat /\ B >= 1 /\ DOMAIN batch = 1..B
  BY ListDomain, IntendedDomain DEF IsLog, Appendable, IsBatch
<1>2. /\ Len(lg2) = L + B /\ Mine(lg2, k) = (L + 1)..(L + B)
      /\ \A i \in 1..B : lg2[L + i].event = batch[i]
  BY <1>1 DEF Grown
<1>3. \A i \in 1..B : batch[i].conversation = batch[1].conversation
  BY <1>1 DEF Appendable
<1>4. L \in 0..Len(lg2)
  BY <1>1, <1>2
<1>5. Written(lg2, k, cmd)
  BY <1>1, <1>2, <1>4 DEF Written
<1> HIDE DEF batch, L, B
<1>6. Len(lg2) \in Mine(lg2, k)
  BY <1>1, <1>2
<1>7. ASSUME NEW n \in Mine(lg2, k)
      PROVE  n <= Len(lg2) /\ lg2[n].event.conversation = batch[1].conversation
  <2>1. n <= Len(lg2) /\ n - L \in 1..B /\ L + (n - L) = n
    BY <1>1, <1>2
  <2> QED
    BY <2>1, <1>2, <1>3
<1> QED
  BY <1>5, <1>6, <1>7 DEF batch

\* Every command that writes has a method of the driver.
LEMMA WritesAreOperations == Writes \subseteq Operations
BY DEF Writes, Operations

LEMMA CommitKeeps ==
  ASSUME ExchangeInv, NEW k \in Caller, exchange[k].handler # Nil, Commit(k),
         NEW r, Respond(k, r), UNCHANGED <<client, checkpoint, tables>>,
         \/ r = TextResponse("500")
         \/ r = ResponseTo(exchange[k].handler.cmd,
                  Outcome("202", Location([conversation |-> exchange[k].handler.batch[1].conversation,
                                           sequence |-> Len(log')])))
  PROVE  ExchangeInv'
<1> DEFINE c == client[k]
           x == exchange[k]
           batch == Intended(k, c.cmd)
           result == [conversation |-> batch[1].conversation, sequence |-> Len(log')]
           w == VerdictOn(c.cmd, r)
<1>1. Stage(c, x, log, checkpoint, k) /\ IsLog(log) /\ x.handler # Nil
  BY DEF ExchangeInv
<1>2. /\ DOMAIN exchange' = Caller
      /\ exchange'[k] = Under(Nil, Nil, IF c.pc \in {"call", "poll"} THEN r ELSE Nil)
      /\ \A j \in Caller \ {k} : exchange'[j] = exchange[j]
  BY RespondEffect
<1>3. DOMAIN client' = Caller /\ \A j \in Caller : client'[j] = client[j]
  BY DEF ExchangeInv
<1>4. Begun(c, log, checkpoint, k) /\ Handling(c, x, log, k)
  <2> HIDE DEF c, x
  <2> QED
    BY <1>1, HandlerStage
<1>5. /\ Calling(c) /\ Mine(log, k) = {} /\ c.cmd.kind \in Writes /\ Appendable(batch, log)
      /\ \E d : x = Under(Nil, [cmd |-> d, batch |-> batch], Nil) /\ d.kind = c.cmd.kind
  BY <1>4 DEF Handling
<1>6. PICK d : x = Under(Nil, [cmd |-> d, batch |-> batch], Nil) /\ d.kind = c.cmd.kind
  BY <1>5
<1> HIDE DEF batch
<1>7. x.handler = [cmd |-> d, batch |-> batch]
  <2> HIDE DEF x
  <2> QED
    BY <1>6, Unders
<1>8. x.handler.cmd = d /\ x.handler.batch = batch
  BY <1>7
<1>9. log' = log \o [i \in DOMAIN batch |-> [by |-> k, event |-> batch[i]]]
  BY <1>8 DEF Commit
<1>10. Grown(log', log, k, batch)
  BY <1>1, <1>5, <1>9, CommitEffect
<1>11. /\ Written(log', k, c.cmd)
       /\ Len(log') \in Mine(log', k)
       /\ \A n \in Mine(log', k) : n <= Len(log') /\ log'[n].event.conversation = batch[1].conversation
  <2> HIDE DEF c
  <2> QED
    BY <1>1, <1>5, <1>10, GrownIsWritten DEF batch
<1>12. r = TextResponse("500") \/ r = ResponseTo(d, Outcome("202", Location(result)))
  BY <1>8
<1>13. result.conversation = batch[1].conversation /\ result.sequence = Len(log')
  OBVIOUS
<1> HIDE DEF c, x, result
<1>14. \/ w = Verdict("error")
       \/ w = [result |-> "accepted", conversation |-> batch[1].conversation, sequence |-> Len(log')]
  <2>1. CASE r = TextResponse("500")
    BY <2>1, <1>5, WritesAreOperations, ErrorOn500
  <2>2. CASE r = ResponseTo(d, Outcome("202", Location(result)))
    <3>1. w \in {[result |-> "accepted", conversation |-> result.conversation, sequence |-> result.sequence],
                 Verdict("error")}
      BY <2>2, <1>5, <1>6, Accepted202
    <3> HIDE DEF w
    <3> QED
      BY <3>1, <1>13
  <2> QED
    BY <1>12, <2>1, <2>2
<1> HIDE DEF w
<1>15. IsTrue(w, log', checkpoint, k, c.cmd, c.since)
  <2>1. CASE w = Verdict("error")
    BY <2>1, ErrorIsTrue
  <2>2. CASE w = [result |-> "accepted", conversation |-> batch[1].conversation, sequence |-> Len(log')]
    <3>1. w.result = "accepted" /\ w.conversation = batch[1].conversation /\ w.sequence = Len(log')
      BY <2>2
    <3> QED
      BY <3>1, <1>11 DEF IsTrue
  <2> QED
    BY <1>14, <2>1, <2>2
<1>16. Begun(c, log', checkpoint, k)
  <2>1. Len(log) \in Nat /\ Len(log') \in Nat /\ Len(log) <= Len(log')
    BY <1>10, ListDomain DEF Grown, Continues
  <2> QED
    BY <2>1, <1>4 DEF Begun
<1>17. Stage(c, exchange'[k], log', checkpoint, k)
  BY <1>2, <1>5, <1>11, <1>15, <1>16, CallResponded DEF w
<1>18. client'[k] = c /\ checkpoint' = checkpoint /\ tables' = tables
  BY <1>3 DEF c
<1>19. Stage(client'[k], exchange'[k], log', checkpoint', k)
  BY <1>17, <1>18
<1>20. /\ IsLog(log') /\ Continues(log', log)
       /\ \A j \in Caller \ {k} : Mine(log', j) = Mine(log, j)
  BY <1>10 DEF Grown
<1> QED
  BY <1>2, <1>3, <1>18, <1>19, <1>20, OneMoves

LEMMA AppendCommitsKeeps ==
  ASSUME ExchangeInv, NEW k \in Caller, AppendCommits(k)
  PROVE  ExchangeInv'
BY CommitKeeps DEF AppendCommits

LEMMA CommitUnacknowledgedKeeps ==
  ASSUME ExchangeInv, NEW k \in Caller, CommitUnacknowledged(k)
  PROVE  ExchangeInv'
BY CommitKeeps DEF CommitUnacknowledged

LEMMA AppendFailsKeeps ==
  ASSUME ExchangeInv, NEW k \in Caller, AppendFails(k)
  PROVE  ExchangeInv'
<1> DEFINE c == client[k]
           x == exchange[k]
           r == TextResponse("500")
<1>1. x.handler # Nil /\ Respond(k, r) /\ UNCHANGED <<client, log, checkpoint, tables>>
  BY DEF AppendFails
<1>2. /\ DOMAIN exchange' = Caller
      /\ exchange'[k] = Under(Nil, Nil, IF c.pc \in {"call", "poll"} THEN r ELSE Nil)
      /\ \A j \in Caller \ {k} : exchange'[j] = exchange[j]
  BY <1>1, RespondEffect
<1>3. Stage(c, x, log, checkpoint, k)
  BY DEF ExchangeInv
<1>4. DOMAIN client' = Caller /\ \A j \in Caller : client'[j] = client[j]
  BY <1>1 DEF ExchangeInv
<1> HIDE DEF c, x, r
<1>5. Begun(c, log, checkpoint, k) /\ Handling(c, x, log, k)
  BY <1>1, <1>3, HandlerStage
<1>6. Calling(c) /\ Written(log, k, c.cmd)
  BY <1>5 DEF Handling, Written
<1>7. VerdictOn(c.cmd, r) = Verdict("error")
  BY <1>5, CommandsAre, ErrorOn500 DEF r
<1>8. IsTrue(VerdictOn(c.cmd, r), log, checkpoint, k, c.cmd, c.since)
  BY <1>7, ErrorIsTrue
<1>9. Stage(c, exchange'[k], log, checkpoint, k)
  BY <1>2, <1>5, <1>6, <1>8, CallResponded
<1>10. Stage(client'[k], exchange'[k], log, checkpoint, k)
  BY <1>4, <1>9 DEF c
<1> QED
  BY <1>1, <1>2, <1>4, <1>10, OneMovesQuietly

-----------------------------------------------------------------------------
(***************************************************************************)
(* The steps of the driver.                                                *)
(***************************************************************************)

\* What a step told the caller of the log and the projection is true of them.
Reported(c2, c, lg, cp, k) ==
  /\ c2.verdict # c.verdict => IsTrue(c2.verdict, lg, cp, k, c.cmd, c.since)
  /\ c2.waited # c.waited => PollIsTrue(c2.waited, lg, cp, c2.verdict)

AllReported == \A j \in Caller : Reported(client'[j], client[j], log, checkpoint, j)

LEMMA ClientMoves ==
  ASSUME ExchangeInv, NEW k \in Caller,
         DOMAIN client' = Caller, DOMAIN exchange' = Caller,
         \A j \in Caller \ {k} : client'[j] = client[j] /\ exchange'[j] = exchange[j],
         UNCHANGED <<log, checkpoint, tables>>,
         Stage(client'[k], exchange'[k], log, checkpoint, k),
         Reported(client'[k], client[k], log, checkpoint, k)
  PROVE  ExchangeInv' /\ AllReported
<1>1. ExchangeInv'
  BY OneMovesQuietly
<1>2. \A c, j : Reported(c, c, log, checkpoint, j)
  BY DEF Reported
<1>3. AllReported
  <2> SUFFICES ASSUME NEW j \in Caller
               PROVE  Reported(client'[j], client[j], log, checkpoint, j)
    BY DEF AllReported
  <2>1. CASE j = k
    BY <2>1
  <2>2. CASE j # k
    BY <2>2, <1>2
  <2> QED
    BY <2>1, <2>2
<1> QED
  BY <1>1, <1>3

\* The same call, further on.
SameCall(c2, c) == IsClient(c2) /\ c2.cmd = c.cmd /\ c2.since = c.since

LEMMA SameCallBegun ==
  ASSUME NEW c, NEW lg, NEW cp, NEW k, Begun(c, lg, cp, k), NEW c2, SameCall(c2, c)
  PROVE  Begun(c2, lg, cp, k)
BY DEF Begun, SameCall

\* The driver's assignments.
Goes(c2, c, pc, verdict, waited) ==
  SameCall(c2, c) /\ c2.pc = pc /\ c2.verdict = verdict /\ c2.waited = waited

LEMMA GoesAs ==
  ASSUME NEW c, NEW c2, NEW p, NEW m, NEW s, NEW d, NEW w, NEW l,
         c = [pc |-> p, cmd |-> m, since |-> s, verdict |-> d, waited |-> w, late |-> l],
         NEW p2, NEW d2, NEW w2, NEW l2,
         c2 = [pc |-> p2, cmd |-> m, since |-> s, verdict |-> d2, waited |-> w2, late |-> l2]
  PROVE  Goes(c2, c, p2, d2, w2)
<1>1. IsClient(c2)
  BY DEF IsClient
<1> QED
  BY <1>1 DEF Goes, SameCall

Returned(c, pc, verdict) == [c EXCEPT !.pc = pc, !.verdict = verdict]
Turned(c, pc, waited)    == [c EXCEPT !.pc = pc, !.waited = waited]
At(c, pc)                == [c EXCEPT !.pc = pc]
Late(c, late)            == [c EXCEPT !.late = late]

LEMMA ClientRecords ==
  ASSUME NEW c, IsClient(c), NEW pc, NEW v
  PROVE  /\ Goes(Returned(c, pc, v), c, pc, v, c.waited)
         /\ Goes(Turned(c, pc, v), c, pc, c.verdict, v)
         /\ Goes(At(c, pc), c, pc, c.verdict, c.waited)
         /\ Goes(Late(c, v), c, c.pc, c.verdict, c.waited)
<1>1. PICK p, m, s, d, w, l : c = [pc |-> p, cmd |-> m, since |-> s, verdict |-> d, waited |-> w, late |-> l]
  BY DEF IsClient
<1>2. c.pc = p /\ c.verdict = d /\ c.waited = w
  BY <1>1
<1> DEFINE a == At(c, pc)
<1>3. a = [pc |-> pc, cmd |-> m, since |-> s, verdict |-> d, waited |-> w, late |-> l]
  BY <1>1 DEF At
<1>4. Late(c, v) = [pc |-> p, cmd |-> m, since |-> s, verdict |-> d, waited |-> w, late |-> v]
  BY <1>1 DEF Late
<1>5. Returned(c, pc, v) = [a EXCEPT !.verdict = v] /\ Turned(c, pc, v) = [a EXCEPT !.waited = v]
  BY DEF Returned, Turned, At
<1> HIDE DEF a
<1>6. Returned(c, pc, v) = [pc |-> pc, cmd |-> m, since |-> s, verdict |-> v, waited |-> w, late |-> l]
  BY <1>3, <1>5
<1>7. Turned(c, pc, v) = [pc |-> pc, cmd |-> m, since |-> s, verdict |-> d, waited |-> v, late |-> l]
  BY <1>3, <1>5
<1>8. Goes(Returned(c, pc, v), c, pc, v, w)
  BY <1>1, <1>6, GoesAs
<1>9. Goes(Turned(c, pc, v), c, pc, d, v)
  BY <1>1, <1>7, GoesAs
<1>10. Goes(a, c, pc, d, w)
  BY <1>1, <1>3, GoesAs
<1>11. Goes(Late(c, v), c, p, d, w)
  BY <1>1, <1>4, GoesAs
<1> QED
  BY <1>2, <1>8, <1>9, <1>10, <1>11 DEF a

LEMMA ReturnEffect ==
  ASSUME ExchangeInv, NEW k \in Caller, IsClient(client[k]), NEW v, Return(k, v)
  PROVE  /\ DOMAIN client' = Caller /\ \A j \in Caller \ {k} : client'[j] = client[j]
         /\ SameCall(client'[k], client[k])
         /\ client'[k].pc = IF v.result = "accepted" THEN "between" ELSE "done"
         /\ client'[k].verdict = v /\ client'[k].waited = client[k].waited
<1> DEFINE pc == IF v.result = "accepted" THEN "between" ELSE "done"
<1>1. client' = [client EXCEPT ![k].pc = pc, ![k].verdict = v]
  BY DEF Return
<1> HIDE DEF pc
<1>2. DOMAIN client = Caller
  BY DEF ExchangeInv
<1>3. /\ DOMAIN client' = Caller /\ \A j \in Caller \ {k} : client'[j] = client[j]
      /\ client'[k] = Returned(client[k], pc, v)
  BY <1>1, <1>2 DEF Returned
<1>4. Goes(client'[k], client[k], pc, v, client[k].waited)
  BY <1>3, ClientRecords
<1> QED
  BY <1>3, <1>4 DEF pc, Goes

LEMMA PolledEffect ==
  ASSUME ExchangeInv, NEW k \in Caller, IsClient(client[k]), NEW v, Polled(k, v)
  PROVE  /\ DOMAIN client' = Caller /\ \A j \in Caller \ {k} : client'[j] = client[j]
         /\ SameCall(client'[k], client[k])
         /\ client'[k].pc = IF v.result = "not caught up" THEN "between" ELSE "done"
         /\ client'[k].verdict = client[k].verdict /\ client'[k].waited = v
<1> DEFINE pc == IF v.result = "not caught up" THEN "between" ELSE "done"
<1>1. client' = [client EXCEPT ![k].pc = pc, ![k].waited = v]
  BY DEF Polled
<1> HIDE DEF pc
<1>2. DOMAIN client = Caller
  BY DEF ExchangeInv
<1>3. /\ DOMAIN client' = Caller /\ \A j \in Caller \ {k} : client'[j] = client[j]
      /\ client'[k] = Turned(client[k], pc, v)
  BY <1>1, <1>2 DEF Turned
<1>4. Goes(client'[k], client[k], pc, client[k].verdict, v)
  BY <1>3, ClientRecords
<1> QED
  BY <1>3, <1>4 DEF pc, Goes

\* The call is over and nothing is under way.
LEMMA BackWithCaller ==
  ASSUME NEW c, NEW lg, NEW cp, NEW k, Begun(c, lg, cp, k), NEW c2, SameCall(c2, c),
         c2.pc \in {"between", "done"}, Written(lg, k, c.cmd),
         IsTrue(c2.verdict, lg, cp, k, c.cmd, c.since),
         c2.pc # "done" => c2.verdict.result = "accepted"
  PROVE  Stage(c2, Nothing, lg, cp, k)
<1>1. Begun(c2, lg, cp, k)
  BY SameCallBegun
<1>2. Over(c2, Nothing, lg, cp, k)
  BY DEF Over, SameCall
<1> QED
  BY <1>1, <1>2 DEF Stage

\* A caller that waits between two polls, or for the answer to one.
Waiting(c, lg, cp, k) ==
  /\ Begun(c, lg, cp, k)
  /\ c.verdict.result = "accepted"
  /\ Written(lg, k, c.cmd)
  /\ IsTrue(c.verdict, lg, cp, k, c.cmd, c.since)

\* The stages by the program counter.
LEMMA StageOf ==
  ASSUME NEW c, NEW x, NEW lg, NEW cp, NEW k, Stage(c, x, lg, cp, k)
  PROVE  /\ c.pc = "idle" => c = Idle /\ x = Nothing /\ Mine(lg, k) = {}
         /\ c.pc = "call" =>
              /\ Begun(c, lg, cp, k) /\ c.verdict = Verdict("none")
              /\ Sent(c, x, lg, k) \/ Handling(c, x, lg, k) \/ Answered(c, x, lg, cp, k)
         /\ c.pc = "between" => Waiting(c, lg, cp, k) /\ x = Nothing
         /\ c.pc = "poll" =>
              /\ Waiting(c, lg, cp, k)
              /\ \/ x = Nothing
                 \/ x = Under(RequestFor(PollOf(c)), Nil, Nil)
                 \/ \E r : /\ x = Under(Nil, Nil, r)
                           /\ PollIsTrue(VerdictOn(PollOf(c), r), lg, cp, c.verdict)
<1>1. Idle.pc = "idle"
  BY DEF Idle
<1> HIDE DEF Idle
<1>2. CASE c = Idle /\ x = Nothing /\ Mine(lg, k) = {}
  BY <1>1, <1>2
<1>3. CASE Begun(c, lg, cp, k) /\ Sent(c, x, lg, k)
  BY <1>3 DEF Sent, Calling
<1>4. CASE Begun(c, lg, cp, k) /\ Handling(c, x, lg, k)
  BY <1>4 DEF Handling, Calling
<1>5. CASE Begun(c, lg, cp, k) /\ Answered(c, x, lg, cp, k)
  BY <1>5 DEF Answered
<1>6. CASE Begun(c, lg, cp, k) /\ Over(c, x, lg, cp, k)
  BY <1>6 DEF Over, Waiting
<1> QED
  BY <1>2, <1>3, <1>4, <1>5, <1>6 DEF Stage

\* One caller's exchange is assigned.
LEMMA ExchangeSet ==
  ASSUME ExchangeInv, NEW k \in Caller, NEW x, exchange' = [exchange EXCEPT ![k] = x]
  PROVE  /\ DOMAIN exchange' = Caller /\ exchange'[k] = x
         /\ \A j \in Caller \ {k} : exchange'[j] = exchange[j]
BY DEF ExchangeInv

\* A poll that fails, or that ends the wait, leaves the caller with its verdict.
LEMMA PollEnds ==
  ASSUME NEW c, NEW lg, NEW cp, NEW k, Waiting(c, lg, cp, k), NEW c2, SameCall(c2, c),
         c2.pc \in {"between", "done"}, c2.verdict = c.verdict
  PROVE  Stage(c2, Nothing, lg, cp, k)
BY BackWithCaller DEF Waiting

\* Errors and timeouts say nothing of the projection.
LEMMA NoView ==
  ASSUME NEW lg, NEW cp, NEW v
  PROVE  PollIsTrue(Verdict("error"), lg, cp, v) /\ PollIsTrue(Verdict("timeout"), lg, cp, v)
BY DEF PollIsTrue, Verdict

LEMMA ReceiveKeeps ==
  ASSUME ExchangeInv, NEW k \in Caller, Receive(k)
  PROVE  ExchangeInv' /\ AllReported
<1> DEFINE c == client[k]
           x == exchange[k]
           c2 == client'[k]
<1>1. /\ c.pc \in {"call", "poll"} /\ x.response # Nil
      /\ UNCHANGED <<log, checkpoint, tables>>
      /\ exchange' = [exchange EXCEPT ![k] = Nothing]
      /\ c.pc = "call" => Return(k, VerdictOn(c.cmd, x.response))
      /\ c.pc = "poll" => Polled(k, VerdictOn(PollOf(c), x.response))
  BY DEF Receive, Listening, PollCommand, PollOf
<1>2. /\ DOMAIN exchange' = Caller /\ exchange'[k] = Nothing
      /\ \A j \in Caller \ {k} : exchange'[j] = exchange[j]
  BY <1>1, ExchangeSet
<1>3. Stage(c, x, log, checkpoint, k)
  BY DEF ExchangeInv
<1>4. CASE c.pc = "call"
  <2> DEFINE v == VerdictOn(c.cmd, x.response)
  <2>1. /\ Begun(c, log, checkpoint, k)
        /\ Sent(c, x, log, k) \/ Handling(c, x, log, k) \/ Answered(c, x, log, checkpoint, k)
    BY <1>3, <1>4, StageOf
  <2>2. Answered(c, x, log, checkpoint, k)
    <3> HIDE DEF c, x
    <3>1. \A q, h : x # Under(q, h, Nil)
      BY <1>1, Unders
    <3> QED
      BY <2>1, <3>1 DEF Sent, Handling
  <2>3. Written(log, k, c.cmd) /\ IsTrue(v, log, checkpoint, k, c.cmd, c.since)
    <3> HIDE DEF c, x
    <3>1. PICK r : x = Under(Nil, Nil, r) /\ IsTrue(VerdictOn(c.cmd, r), log, checkpoint, k, c.cmd, c.since)
      BY <2>2 DEF Answered
    <3>2. x.response = r
      BY <3>1, Unders
    <3> QED
      BY <2>2, <3>1, <3>2 DEF Answered
  <2>4. Return(k, v)
    BY <1>1, <1>4
  <2>5. IsClient(c)
    BY <2>1 DEF Begun
  <2> HIDE DEF v
  <2>6. /\ DOMAIN client' = Caller /\ \A j \in Caller \ {k} : client'[j] = client[j]
        /\ SameCall(c2, c)
        /\ c2.pc = IF v.result = "accepted" THEN "between" ELSE "done"
        /\ c2.verdict = v /\ c2.waited = c.waited
    BY <2>4, <2>5, ReturnEffect
  <2> HIDE DEF c, c2
  <2>7. Stage(c2, Nothing, log, checkpoint, k)
    BY <2>1, <2>3, <2>6, BackWithCaller
  <2>8. Reported(c2, c, log, checkpoint, k)
    BY <2>3, <2>6 DEF Reported
  <2> QED
    BY <1>1, <1>2, <2>6, <2>7, <2>8, ClientMoves DEF c, c2
<1>5. CASE c.pc = "poll"
  <2> DEFINE w == VerdictOn(PollOf(c), x.response)
  <2>1. /\ Waiting(c, log, checkpoint, k)
        /\ \/ x = Nothing
           \/ x = Under(RequestFor(PollOf(c)), Nil, Nil)
           \/ \E r : /\ x = Under(Nil, Nil, r)
                     /\ PollIsTrue(VerdictOn(PollOf(c), r), log, checkpoint, c.verdict)
    BY <1>3, <1>5, StageOf
  <2>2. PollIsTrue(w, log, checkpoint, c.verdict)
    <3> HIDE DEF c, x
    <3>1. \A q, h : x # Under(q, h, Nil)
      BY <1>1, Unders
    <3>2. PICK r : /\ x = Under(Nil, Nil, r)
                   /\ PollIsTrue(VerdictOn(PollOf(c), r), log, checkpoint, c.verdict)
      BY <2>1, <3>1, Unders
    <3>3. x.response = r
      BY <3>2, Unders
    <3> QED
      BY <3>2, <3>3
  <2>3. Polled(k, w)
    BY <1>1, <1>5
  <2>4. IsClient(c)
    BY <2>1 DEF Waiting, Begun
  <2> HIDE DEF w
  <2>5. /\ DOMAIN client' = Caller /\ \A j \in Caller \ {k} : client'[j] = client[j]
        /\ SameCall(c2, c)
        /\ c2.pc = IF w.result = "not caught up" THEN "between" ELSE "done"
        /\ c2.verdict = c.verdict /\ c2.waited = w
    BY <2>3, <2>4, PolledEffect
  <2> HIDE DEF c, c2
  <2>6. Stage(c2, Nothing, log, checkpoint, k)
    BY <2>1, <2>5, PollEnds
  <2>7. Reported(c2, c, log, checkpoint, k)
    BY <2>2, <2>5 DEF Reported
  <2> QED
    BY <1>1, <1>2, <2>5, <2>6, <2>7, ClientMoves DEF c, c2
<1> QED
  BY <1>1, <1>4, <1>5

\* The wait ends, without anything under way.
LEMMA WaitEnds ==
  ASSUME ExchangeInv, NEW k \in Caller, client[k].pc = "between",
         NEW w \in {Verdict("error"), Verdict("timeout")}, Polled(k, w),
         UNCHANGED <<exchange, log, checkpoint, tables>>
  PROVE  ExchangeInv' /\ AllReported
<1> DEFINE c == client[k]
           x == exchange[k]
           c2 == client'[k]
<1>1. Stage(c, x, log, checkpoint, k) /\ DOMAIN exchange' = Caller
      /\ \A j \in Caller : exchange'[j] = exchange[j]
  BY DEF ExchangeInv
<1>2. Waiting(c, log, checkpoint, k) /\ x = Nothing
  BY <1>1, StageOf
<1>3. IsClient(c)
  BY <1>2 DEF Waiting, Begun
<1>4. /\ DOMAIN client' = Caller /\ \A j \in Caller \ {k} : client'[j] = client[j]
      /\ SameCall(c2, c)
      /\ c2.pc = IF w.result = "not caught up" THEN "between" ELSE "done"
      /\ c2.verdict = c.verdict /\ c2.waited = w
  BY <1>3, PolledEffect
<1>5. exchange'[k] = Nothing
  BY <1>1, <1>2
<1> HIDE DEF c, c2, x
<1>6. Stage(c2, Nothing, log, checkpoint, k)
  BY <1>2, <1>4, PollEnds
<1>7. Reported(c2, c, log, checkpoint, k)
  BY <1>4, NoView DEF Reported
<1> QED
  BY <1>1, <1>4, <1>5, <1>6, <1>7, ClientMoves DEF c, c2

LEMMA GiveUpKeeps ==
  ASSUME ExchangeInv, NEW k \in Caller, GiveUp(k)
  PROVE  ExchangeInv' /\ AllReported
BY WaitEnds DEF GiveUp

LEMMA PollKeeps ==
  ASSUME ExchangeInv, NEW k \in Caller, Poll(k)
  PROVE  ExchangeInv' /\ AllReported
<1>1. CASE client[k].late
  BY <1>1, WaitEnds DEF Poll
<1>2. CASE ~ client[k].late
  <2> DEFINE c == client[k]
             x == exchange[k]
             c2 == client'[k]
             q == Under(RequestFor(PollOf(c)), Nil, Nil)
  <2>1. /\ c.pc = "between" /\ client' = [client EXCEPT ![k].pc = "poll"]
        /\ Request(k, PollCommand(k)) /\ UNCHANGED <<log, checkpoint, tables>>
    BY <1>2 DEF Poll
  <2>2. exchange' = [exchange EXCEPT ![k] = q]
    BY <2>1, Unders DEF Request, PollCommand, PollOf
  <2>3. /\ DOMAIN exchange' = Caller /\ exchange'[k] = q
        /\ \A j \in Caller \ {k} : exchange'[j] = exchange[j]
    <3> HIDE DEF q
    <3> QED
      BY <2>2, ExchangeSet
  <2>4. Stage(c, x, log, checkpoint, k) /\ DOMAIN client = Caller
    BY DEF ExchangeInv
  <2>5. Waiting(c, log, checkpoint, k)
    BY <2>1, <2>4, StageOf
  <2>6. /\ DOMAIN client' = Caller /\ \A j \in Caller \ {k} : client'[j] = client[j]
        /\ c2 = At(c, "poll")
    BY <2>1, <2>4 DEF At
  <2>7. Goes(c2, c, "poll", c.verdict, c.waited)
    <3> HIDE DEF c, c2
    <3> QED
      BY <2>5, <2>6, ClientRecords DEF Waiting, Begun
  <2> HIDE DEF c, c2
  <2>8. q = Under(RequestFor(PollOf(c2)), Nil, Nil)
    BY <2>7 DEF Goes, PollOf
  <2> HIDE DEF q
  <2>9. Stage(c2, q, log, checkpoint, k)
    <3>1. Begun(c2, log, checkpoint, k)
      BY <2>5, <2>7, SameCallBegun DEF Waiting, Goes
    <3>2. Over(c2, q, log, checkpoint, k)
      BY <2>5, <2>7, <2>8 DEF Over, Waiting, Goes, SameCall
    <3> QED
      BY <3>1, <3>2 DEF Stage
  <2>10. Reported(c2, c, log, checkpoint, k)
    BY <2>7 DEF Reported, Goes
  <2> QED
    BY <2>1, <2>3, <2>6, <2>9, <2>10, ClientMoves DEF c, c2
<1> QED
  BY <1>1, <1>2

LEMMA DeadlinePassesKeeps ==
  ASSUME ExchangeInv, NEW k \in Caller, DeadlinePasses(k)
  PROVE  ExchangeInv' /\ AllReported
<1> DEFINE c == client[k]
           x == exchange[k]
           c2 == client'[k]
<1>1. /\ c.pc \in {"between", "poll"} /\ client' = [client EXCEPT ![k].late = TRUE]
      /\ UNCHANGED <<exchange, log, checkpoint, tables>>
  BY DEF DeadlinePasses
<1>2. /\ Stage(c, x, log, checkpoint, k) /\ DOMAIN client = Caller
      /\ DOMAIN exchange' = Caller /\ \A j \in Caller : exchange'[j] = exchange[j]
  BY <1>1 DEF ExchangeInv
<1>3. /\ Waiting(c, log, checkpoint, k)
      /\ \/ x = Nothing
         \/ /\ c.pc = "poll"
            /\ x = Under(RequestFor(PollOf(c)), Nil, Nil)
         \/ /\ c.pc = "poll"
            /\ \E r : /\ x = Under(Nil, Nil, r)
                      /\ PollIsTrue(VerdictOn(PollOf(c), r), log, checkpoint, c.verdict)
  BY <1>1, <1>2, StageOf
<1>4. /\ DOMAIN client' = Caller /\ \A j \in Caller \ {k} : client'[j] = client[j]
      /\ c2 = Late(c, TRUE)
  BY <1>1, <1>2 DEF Late
<1>5. exchange'[k] = x
  BY <1>2
<1> HIDE DEF c, c2, x
<1>6. Goes(c2, c, c.pc, c.verdict, c.waited)
  BY <1>3, <1>4, ClientRecords DEF Waiting, Begun
<1>7. PollOf(c2) = PollOf(c)
  BY <1>6 DEF Goes, PollOf
<1>8. Begun(c2, log, checkpoint, k)
  BY <1>3, <1>6, SameCallBegun DEF Waiting, Goes
<1>9. Over(c2, x, log, checkpoint, k)
  BY <1>1, <1>3, <1>6, <1>7 DEF Over, Waiting, Goes, SameCall
<1>10. Stage(c2, x, log, checkpoint, k)
  BY <1>8, <1>9 DEF Stage
<1>11. Reported(c2, c, log, checkpoint, k)
  BY <1>6 DEF Reported, Goes
<1> QED
  BY <1>1, <1>2, <1>4, <1>5, <1>10, <1>11, ClientMoves DEF c, c2

Called(c, pc, cmd, since) == [c EXCEPT !.pc = pc, !.cmd = cmd, !.since = since]

LEMMA CalledRecord ==
  ASSUME NEW c, IsClient(c), NEW pc, NEW cmd, NEW since
  PROVE  /\ IsClient(Called(c, pc, cmd, since))
         /\ Called(c, pc, cmd, since).pc = pc
         /\ Called(c, pc, cmd, since).cmd = cmd
         /\ Called(c, pc, cmd, since).since = since
         /\ Called(c, pc, cmd, since).verdict = c.verdict
         /\ Called(c, pc, cmd, since).waited = c.waited
<1>1. PICK p, m, s, d, w, l : c = [pc |-> p, cmd |-> m, since |-> s, verdict |-> d, waited |-> w, late |-> l]
  BY DEF IsClient
<1> DEFINE c1 == [c EXCEPT !.pc = pc]
           c2 == [c1 EXCEPT !.cmd = cmd]
           c3 == Called(c, pc, cmd, since)
<1>2. c1 = [pc |-> pc, cmd |-> m, since |-> s, verdict |-> d, waited |-> w, late |-> l]
  BY <1>1
<1>3. c3 = [c2 EXCEPT !.since = since]
  BY DEF Called
<1> HIDE DEF c1, c3
<1>4. c2 = [pc |-> pc, cmd |-> cmd, since |-> s, verdict |-> d, waited |-> w, late |-> l]
  BY <1>2
<1> HIDE DEF c2
<1>5. c3 = [pc |-> pc, cmd |-> cmd, since |-> since, verdict |-> d, waited |-> w, late |-> l]
  BY <1>3, <1>4
<1>6. IsClient(c3)
  BY <1>5 DEF IsClient
<1>7. /\ c3.pc = pc /\ c3.cmd = cmd /\ c3.since = since
      /\ c3.verdict = c.verdict /\ c3.waited = c.waited
  BY <1>1, <1>5
<1> QED
  BY <1>6, <1>7 DEF c3

LEMMA IdleIsClient == IsClient(Idle)
BY DEF IsClient, Idle

LEMMA CallKeeps ==
  ASSUME ExchangeInv, NEW k \in Caller, NEW cmd \in Command[k], Call(k, cmd)
  PROVE  ExchangeInv' /\ AllReported
<1> DEFINE c == client[k]
           x == exchange[k]
           c2 == client'[k]
           since == Now(cmd)
           q == Under(RequestFor(cmd), Nil, Nil)
<1>1. /\ c.pc = "idle" /\ UNCHANGED <<log, checkpoint, tables>>
      /\ client' = [client EXCEPT ![k] = [Idle EXCEPT !.pc = "call", !.cmd = cmd, !.since = since]]
      /\ Request(k, cmd)
  BY DEF Call
<1>2. Stage(c, x, log, checkpoint, k) /\ DOMAIN client = Caller
  BY DEF ExchangeInv
<1>3. c = Idle /\ Mine(log, k) = {}
  BY <1>1, <1>2, StageOf
<1>4. Len(log) \in Nat /\ checkpoint \in 0..Len(log)
  BY ListDomain DEF ExchangeInv, IsLog
<1>5. since \in 0..Len(log) /\ (cmd.kind \in {"get", "byParticipant"} => since <= checkpoint)
  BY <1>4 DEF Now
<1> HIDE DEF since
<1>6. /\ DOMAIN client' = Caller /\ \A j \in Caller \ {k} : client'[j] = client[j]
      /\ c2 = Called(Idle, "call", cmd, since)
  BY <1>1, <1>2 DEF Called
<1>7. exchange' = [exchange EXCEPT ![k] = q]
  BY <1>1, Unders DEF Request
<1>8. /\ DOMAIN exchange' = Caller /\ exchange'[k] = q
      /\ \A j \in Caller \ {k} : exchange'[j] = exchange[j]
  <2> HIDE DEF q
  <2> QED
    BY <1>7, ExchangeSet
<1>9. Idle.verdict = Verdict("none") /\ Idle.waited = Verdict("none")
  BY DEF Idle
<1> HIDE DEF c, c2
<1>10. /\ IsClient(c2) /\ c2.pc = "call" /\ c2.cmd = cmd /\ c2.since = since
       /\ c2.verdict = Idle.verdict /\ c2.waited = Idle.waited
  BY <1>6, IdleIsClient, CalledRecord
<1>11. Begun(c2, log, checkpoint, k)
  BY <1>5, <1>10 DEF Begun
<1>12. Sent(c2, q, log, k)
  BY <1>3, <1>9, <1>10 DEF Sent, Calling
<1>13. Stage(c2, q, log, checkpoint, k)
  BY <1>11, <1>12 DEF Stage
<1>14. Reported(c2, c, log, checkpoint, k)
  BY <1>3, <1>9, <1>10 DEF Reported
<1> HIDE DEF q
<1> QED
  BY <1>1, <1>6, <1>8, <1>13, <1>14, ClientMoves DEF c, c2

\* What is left of an exchange when the connection breaks.
Broken(x2, q, h, r) ==
  \/ x2 = Under(Nil, h, Nil)
  \/ x2 = Under(q, h, Nil)
  \/ /\ q # Nil /\ q.body # Nil
     /\ x2 = Under([q EXCEPT !.body = Garbled], h, r)

LEMMA DisconnectEffect ==
  ASSUME ExchangeInv, NEW k \in Caller, Disconnect(k), NEW q, NEW h, NEW r, exchange[k] = Under(q, h, r)
  PROVE  /\ DOMAIN exchange' = Caller /\ Broken(exchange'[k], q, h, r)
         /\ \A j \in Caller \ {k} : exchange'[j] = exchange[j]
<1> DEFINE x == exchange[k]
<1>0. DOMAIN exchange = Caller
  BY DEF ExchangeInv
<1>1. \/ exchange' = [exchange EXCEPT ![k].request = Nil, ![k].response = Nil]
      \/ exchange' = [exchange EXCEPT ![k].response = Nil]
      \/ /\ x.request # Nil /\ x.request.body # Nil
         /\ exchange' = [exchange EXCEPT ![k].request.body = Garbled]
  BY DEF Disconnect
<1>2. CASE exchange' = [exchange EXCEPT ![k].request = Nil, ![k].response = Nil]
  <2>1. /\ DOMAIN exchange' = Caller /\ \A j \in Caller \ {k} : exchange'[j] = exchange[j]
        /\ exchange'[k] = [x EXCEPT !.request = Nil, !.response = Nil]
    BY <1>0, <1>2
  <2> DEFINE y == [x EXCEPT !.request = Nil]
  <2>2. y = Under(Nil, h, r)
    BY DEF Under
  <2>3. exchange'[k] = [y EXCEPT !.response = Nil]
    BY <2>1
  <2> HIDE DEF y
  <2>4. [y EXCEPT !.response = Nil] = Under(Nil, h, Nil)
    BY <2>2 DEF Under
  <2> QED
    BY <2>1, <2>3, <2>4 DEF Broken
<1>3. CASE exchange' = [exchange EXCEPT ![k].response = Nil]
  <2>1. /\ DOMAIN exchange' = Caller /\ \A j \in Caller \ {k} : exchange'[j] = exchange[j]
        /\ exchange'[k] = [x EXCEPT !.response = Nil]
    BY <1>0, <1>3
  <2>2. [x EXCEPT !.response = Nil] = Under(q, h, Nil)
    BY DEF Under
  <2> QED
    BY <2>1, <2>2 DEF Broken
<1>4. CASE /\ x.request # Nil /\ x.request.body # Nil
           /\ exchange' = [exchange EXCEPT ![k].request.body = Garbled]
  <2>1. /\ DOMAIN exchange' = Caller /\ \A j \in Caller \ {k} : exchange'[j] = exchange[j]
        /\ exchange'[k] = [x EXCEPT !.request.body = Garbled]
    BY <1>0, <1>4
  <2>2. x.request = q
    BY Unders
  <2>3. [x EXCEPT !.request.body = Garbled] = [x EXCEPT !.request = [x.request EXCEPT !.body = Garbled]]
    OBVIOUS
  <2> DEFINE g == [q EXCEPT !.body = Garbled]
  <2>4. exchange'[k] = [x EXCEPT !.request = g]
    BY <2>1, <2>2, <2>3
  <2> HIDE DEF g
  <2>5. [x EXCEPT !.request = g] = Under(g, h, r)
    BY DEF Under
  <2> QED
    BY <1>4, <2>1, <2>2, <2>4, <2>5 DEF Broken, g
<1> QED
  BY <1>1, <1>2, <1>3, <1>4

\* The connection breaks during the call.
LEMMA CallBreaks ==
  ASSUME NEW c, NEW lg, NEW cp, NEW k, Begun(c, lg, cp, k),
         NEW c2, SameCall(c2, c), c2.pc = "done", c2.verdict = Verdict("error"),
         NEW x, NEW x2, \A q, h, r : x = Under(q, h, r) => Broken(x2, q, h, r),
         c.pc = "call",
         Sent(c, x, lg, k) \/ Handling(c, x, lg, k) \/ Answered(c, x, lg, cp, k)
  PROVE  Stage(c2, x2, lg, cp, k)
<1>1. Begun(c2, lg, cp, k) /\ Calling(c2) /\ c2.cmd = c.cmd
  BY SameCallBegun DEF Calling, SameCall
<1>2. ASSUME Written(lg, k, c.cmd)
      PROVE  Stage(c2, Nothing, lg, cp, k)
  BY <1>2, BackWithCaller, ErrorIsTrue
<1>3. CASE Sent(c, x, lg, k)
  <2>1. x = Under(RequestFor(c.cmd), Nil, Nil) /\ Written(lg, k, c.cmd) /\ Mine(lg, k) = {}
    BY <1>3 DEF Sent, Written
  <2> DEFINE q == RequestFor(c.cmd)
             g == [q EXCEPT !.body = Garbled]
  <2>2. \/ x2 = Nothing \/ x2 = Under(q, Nil, Nil)
        \/ q.body # Nil /\ x2 = Under(g, Nil, Nil)
    BY <2>1, Unders DEF Broken
  <2>3. x2 # Nothing => Sent(c2, x2, lg, k)
    BY <1>1, <2>1, <2>2 DEF Sent
  <2> QED
    BY <1>1, <1>2, <2>1, <2>3 DEF Stage
<1>4. CASE Handling(c, x, lg, k)
  <2>1. PICK d : /\ x = Under(Nil, [cmd |-> d, batch |-> Intended(k, c.cmd)], Nil)
                 /\ d.kind = c.cmd.kind
    BY <1>4 DEF Handling
  <2>2. x2 = x
    BY <2>1 DEF Broken
  <2>3. Handling(c2, x2, lg, k)
    BY <1>1, <1>4, <2>2 DEF Handling
  <2> QED
    BY <1>1, <2>3 DEF Stage
<1>5. CASE Answered(c, x, lg, cp, k)
  <2>1. PICK r : x = Under(Nil, Nil, r)
    BY <1>5 DEF Answered
  <2>2. x2 = Nothing
    BY <2>1, Unders DEF Broken
  <2>3. Written(lg, k, c.cmd)
    BY <1>5 DEF Answered
  <2> QED
    BY <1>2, <2>2, <2>3
<1> QED
  BY <1>3, <1>4, <1>5

\* The connection breaks during a poll.
LEMMA PollBreaks ==
  ASSUME NEW c, NEW lg, NEW cp, NEW k, Waiting(c, lg, cp, k),
         NEW c2, SameCall(c2, c), c2.pc = "done", c2.verdict = c.verdict,
         NEW x, NEW x2, \A q, h, r : x = Under(q, h, r) => Broken(x2, q, h, r),
         \/ x = Nothing
         \/ x = Under(RequestFor(PollOf(c)), Nil, Nil)
         \/ \E r : x = Under(Nil, Nil, r)
  PROVE  Stage(c2, x2, lg, cp, k)
<1>1. Stage(c2, Nothing, lg, cp, k)
  BY PollEnds
<1>2. CASE \E r : x = Under(Nil, Nil, r)
  <2>1. PICK r : x = Under(Nil, Nil, r)
    BY <1>2
  <2>2. Broken(x2, Nil, Nil, r)
    BY <2>1
  <2>3. x2 = Nothing
    BY <2>2, Unders DEF Broken
  <2> QED
    BY <1>1, <2>3
<1>3. CASE x = Under(RequestFor(PollOf(c)), Nil, Nil)
  <2> DEFINE q == RequestFor(PollOf(c))
  <2>1. q.body = Nil
    BY PollIsGet
  <2>2. PollOf(c2) = PollOf(c)
    BY DEF PollOf
  <2>3. q = RequestFor(PollOf(c2))
    BY <2>2
  <2> HIDE DEF q
  <2>4. x2 = Nothing \/ x2 = Under(q, Nil, Nil)
    BY <1>3, <2>1, Unders DEF Broken, q
  <2>5. Begun(c2, lg, cp, k)
    BY SameCallBegun DEF Waiting
  <2>6. Over(c2, Under(q, Nil, Nil), lg, cp, k)
    BY <2>3 DEF Over, Waiting, SameCall
  <2> QED
    BY <1>1, <2>4, <2>5, <2>6 DEF Stage
<1>4. CASE x = Nothing
  BY <1>2, <1>4, Unders
<1> QED
  BY <1>2, <1>3, <1>4

LEMMA DisconnectKeeps ==
  ASSUME ExchangeInv, NEW k \in Caller, Disconnect(k)
  PROVE  ExchangeInv' /\ AllReported
<1> DEFINE c == client[k]
           x == exchange[k]
           c2 == client'[k]
           x2 == exchange'[k]
<1>1. /\ c.pc \in {"call", "poll"} /\ UNCHANGED <<log, checkpoint, tables>>
      /\ c.pc = "call" => Return(k, Verdict("error"))
      /\ c.pc = "poll" => Polled(k, Verdict("error"))
  BY DEF Disconnect, Listening
<1>2. Stage(c, x, log, checkpoint, k)
  BY DEF ExchangeInv
<1>3. Verdict("error").result = "error"
  BY DEF Verdict
<1>4. \A q, h, r : x = Under(q, h, r) => Broken(x2, q, h, r)
  BY DisconnectEffect
<1>5. ASSUME \E q, h, r : x = Under(q, h, r)
      PROVE  DOMAIN exchange' = Caller /\ \A j \in Caller \ {k} : exchange'[j] = exchange[j]
  BY <1>5, DisconnectEffect
<1>6. CASE c.pc = "call"
  <2>1. /\ Begun(c, log, checkpoint, k)
        /\ Sent(c, x, log, k) \/ Handling(c, x, log, k) \/ Answered(c, x, log, checkpoint, k)
    BY <1>2, <1>6, StageOf
  <2>2. IsClient(c)
    BY <2>1 DEF Begun
  <2>3. /\ DOMAIN client' = Caller /\ \A j \in Caller \ {k} : client'[j] = client[j]
        /\ SameCall(c2, c)
        /\ c2.pc = "done"
        /\ c2.verdict = Verdict("error") /\ c2.waited = c.waited
    BY <1>1, <1>3, <1>6, <2>2, ReturnEffect
  <2> HIDE DEF c, c2, x, x2
  <2>4. \E q, h, r : x = Under(q, h, r)
    BY <2>1 DEF Sent, Handling, Answered
  <2>5. Stage(c2, x2, log, checkpoint, k)
    BY <1>4, <1>6, <2>1, <2>3, CallBreaks
  <2>6. Reported(c2, c, log, checkpoint, k)
    BY <2>3, ErrorIsTrue DEF Reported
  <2> QED
    BY <1>1, <1>5, <2>3, <2>4, <2>5, <2>6, ClientMoves DEF c, c2, x2
<1>7. CASE c.pc = "poll"
  <2>1. /\ Waiting(c, log, checkpoint, k)
        /\ \/ x = Nothing
           \/ x = Under(RequestFor(PollOf(c)), Nil, Nil)
           \/ \E r : x = Under(Nil, Nil, r)
    BY <1>2, <1>7, StageOf
  <2>2. IsClient(c)
    BY <2>1 DEF Waiting, Begun
  <2>3. /\ DOMAIN client' = Caller /\ \A j \in Caller \ {k} : client'[j] = client[j]
        /\ SameCall(c2, c)
        /\ c2.pc = "done"
        /\ c2.verdict = c.verdict /\ c2.waited = Verdict("error")
    BY <1>1, <1>3, <1>7, <2>2, PolledEffect
  <2> HIDE DEF c, c2, x, x2
  <2>4. \E q, h, r : x = Under(q, h, r)
    BY <2>1, Unders
  <2>5. Stage(c2, x2, log, checkpoint, k)
    BY <1>4, <2>1, <2>3, PollBreaks
  <2>6. Reported(c2, c, log, checkpoint, k)
    BY <2>3, NoView DEF Reported
  <2> QED
    BY <1>1, <1>5, <2>3, <2>4, <2>5, <2>6, ClientMoves DEF c, c2, x2
<1> QED
  BY <1>1, <1>6, <1>7

\* A drain moves the projection, and nobody's call.
LEMMA DrainKeeps ==
  ASSUME ExchangeInv, Drain
  PROVE  ExchangeInv'
<1>1. /\ checkpoint' \in checkpoint..Len(log) /\ tables' = TablesAt(checkpoint')
      /\ client' = client /\ exchange' = exchange /\ log' = log
  BY DEF Drain
<1>2. IsLog(log) /\ IsList(log) /\ Len(log) \in Nat /\ checkpoint \in 0..Len(log)
  BY ListDomain DEF ExchangeInv, IsLog
<1>3. tables' = TablesIn(log', checkpoint')
  BY <1>1, InLog
<1>4. Continues(log', log)
  BY <1>1, <1>2 DEF Continues
<1>5. checkpoint' \in 0..Len(log')
  BY <1>1, <1>2
<1>6. ASSUME NEW k \in Caller
      PROVE  Stage(client'[k], exchange'[k], log', checkpoint', k)
  <2>1. Elsewhere(log', checkpoint', log, checkpoint, k)
    BY <1>1, <1>2, <1>4 DEF Elsewhere
  <2>2. Stage(client[k], exchange[k], log, checkpoint, k)
    BY DEF ExchangeInv
  <2>3. Stage(client[k], exchange[k], log', checkpoint', k)
    BY <2>1, <2>2, StageStays
  <2> QED
    BY <1>1, <2>3
<1> QED
  BY <1>1, <1>2, <1>3, <1>5, <1>6 DEF ExchangeInv

-----------------------------------------------------------------------------
(***************************************************************************)
(* The theorems.                                                           *)
(***************************************************************************)

LEMMA ExchangeInit == Init => ExchangeInv
<1> SUFFICES ASSUME Init
             PROVE  ExchangeInv
  OBVIOUS
<1> DEFINE L == Len(Past)
<1>1. L \in Nat /\ DOMAIN Past = 1..L
  BY PastAssumption
<1>2. log = [i \in 1..L |-> [by |-> Nil, event |-> Past[i]]]
  BY <1>1 DEF Init
<1>3. log \in [1..L -> Range(log)]
  BY <1>2 DEF Range
<1>4. IsList(log) /\ Len(log) = L /\ DOMAIN log = 1..L
  BY <1>1, <1>3 DEF IsList
<1>5. \A i \in 1..L : log[i].event = Past[i] /\ log[i].by = Nil
  BY <1>2
<1>6. IsLog(log)
  <2> SUFFICES ASSUME NEW i \in 1..L
               PROVE  IsEvent(log[i].event) /\ Founded(log, log[i].event.conversation)
    BY <1>4 DEF IsLog
  <2>1. IsEvent(Past[i]) /\ \E j \in 1..L : Past[j] = ConversationCreated(Past[i].conversation)
    BY <1>1, PastAssumption
  <2>2. PICK j \in 1..L : Past[j] = ConversationCreated(Past[i].conversation)
    BY <2>1
  <2>3. log[i].event = Past[i] /\ log[j].event = Past[j]
    BY <1>5
  <2>4. Founded(log, Past[i].conversation)
    BY <1>4, <2>2, <2>3 DEF Founded
  <2> QED
    BY <2>1, <2>3, <2>4
<1>7. \A k \in Caller : Mine(log, k) = {}
  BY <1>4, <1>5, NilAssumption DEF Mine
<1>8. TablesIn(log, 0) = EmptyTables
  <2> DEFINE base == [ok |-> TRUE, tables |-> EmptyTables]
  <2>1. EntriesIn(log, 0) = <<>>
    BY DEF EntriesIn
  <2>2. FoldLeft(ApplyNext, base, <<>>) = Tx!Fold(base, <<>>)
    BY DEF Tx!Fold, FoldLeft, Tx!FoldLeft, MapThenFoldSet, Tx!MapThenFoldSet, Max, Tx!Max
  <2>3. base.ok /\ base.tables = EmptyTables
    OBVIOUS
  <2> HIDE DEF base
  <2>4. Tx!Fold(base, <<>>) = base
    BY Tx!FoldEmpty
  <2>5. ApplyEntries(EmptyTables, <<>>) = base
    BY <2>2, <2>3, <2>4 DEF ApplyEntries, base
  <2> QED
    BY <2>1, <2>3, <2>5 DEF TablesIn
<1>9. checkpoint = 0 /\ checkpoint \in 0..Len(log)
  BY <1>1, <1>4 DEF Init
<1>10. tables = TablesIn(log, checkpoint)
  BY <1>8, <1>9 DEF Init
<1>11. \A k \in Caller : Stage(client[k], exchange[k], log, checkpoint, k)
  BY <1>7 DEF Init, Stage
<1>12. DOMAIN client = Caller /\ DOMAIN exchange = Caller
  BY DEF Init
<1> QED
  BY <1>6, <1>9, <1>10, <1>11, <1>12 DEF ExchangeInv

\* Every step keeps the invariant and tells callers the truth.
LEMMA ExchangeStep == ExchangeInv /\ [Next]_vars => ExchangeInv' /\ AllReported
<1> SUFFICES ASSUME ExchangeInv, [Next]_vars
             PROVE  ExchangeInv' /\ AllReported
  OBVIOUS
<1>1. ASSUME client' = client
      PROVE  AllReported
  BY <1>1 DEF AllReported, Reported
<1>2. ASSUME NEW k \in Caller, NEW cmd \in Command[k], Call(k, cmd)
      PROVE  ExchangeInv' /\ AllReported
  BY <1>2, CallKeeps
<1>3. ASSUME NEW k \in Caller, Serve(k)
      PROVE  ExchangeInv' /\ AllReported
  BY <1>1, <1>3, ServeKeeps DEF Serve
<1>4. ASSUME NEW k \in Caller, ReadFails(k)
      PROVE  ExchangeInv' /\ AllReported
  BY <1>1, <1>4, ReadFailsKeeps DEF ReadFails
<1>5. ASSUME NEW k \in Caller, AppendCommits(k)
      PROVE  ExchangeInv' /\ AllReported
  BY <1>1, <1>5, AppendCommitsKeeps DEF AppendCommits
<1>6. ASSUME NEW k \in Caller, CommitUnacknowledged(k)
      PROVE  ExchangeInv' /\ AllReported
  BY <1>1, <1>6, CommitUnacknowledgedKeeps DEF CommitUnacknowledged
<1>7. ASSUME NEW k \in Caller, AppendFails(k)
      PROVE  ExchangeInv' /\ AllReported
  BY <1>1, <1>7, AppendFailsKeeps DEF AppendFails
<1>8. ASSUME NEW k \in Caller, Receive(k)
      PROVE  ExchangeInv' /\ AllReported
  BY <1>8, ReceiveKeeps
<1>9. ASSUME NEW k \in Caller, Disconnect(k)
      PROVE  ExchangeInv' /\ AllReported
  BY <1>9, DisconnectKeeps
<1>10. ASSUME NEW k \in Caller, Poll(k)
       PROVE  ExchangeInv' /\ AllReported
  BY <1>10, PollKeeps
<1>11. ASSUME NEW k \in Caller, DeadlinePasses(k)
       PROVE  ExchangeInv' /\ AllReported
  BY <1>11, DeadlinePassesKeeps
<1>12. ASSUME NEW k \in Caller, GiveUp(k)
       PROVE  ExchangeInv' /\ AllReported
  BY <1>12, GiveUpKeeps
<1>13. CASE Drain
  BY <1>1, <1>13, DrainKeeps DEF Drain
<1>14. CASE UNCHANGED vars
  BY <1>1, <1>14 DEF vars, ExchangeInv
<1> QED
  BY <1>2, <1>3, <1>4, <1>5, <1>6, <1>7, <1>8, <1>9, <1>10, <1>11, <1>12, <1>13, <1>14
     DEF Next, ServerStep

\* Every call is at one of its stages, with what that stage promises of the
\* log and of the projection: the request is on its way and nothing is
\* written, the handler holds exactly the command's events, the answer on its
\* way is true, or the caller has a true verdict.
THEOREM ExchangeInvariance == Spec => []ExchangeInv
<1>1. Init => ExchangeInv
  BY ExchangeInit
<1>2. ExchangeInv /\ [Next]_vars => ExchangeInv'
  BY ExchangeStep
<1> QED
  BY <1>1, <1>2, PTL DEF Spec

\* Whatever breaks between driver and database, an accepted write is in the
\* log up to the sequence of its Location, a refused one is not and never
\* will be, and "unchanged" was so at some moment of the call.
THEOREM DriverReportsTruth == Spec => []VerdictsAreTrue
<1>1. ExchangeInv => VerdictsAreTrue
  <2> SUFFICES ASSUME ExchangeInv, NEW k \in Caller
               PROVE  LET v == client[k].verdict
                      IN  CASE v.result = "accepted" ->
                                 /\ v.sequence \in NumbersOf(k)
                                 /\ \A n \in NumbersOf(k) :
                                      n <= v.sequence /\ log[n].event.conversation = v.conversation
                            [] v.result \in {"refused", "forbidden", "not found", "unchanged"} ->
                                 /\ NumbersOf(k) = {} /\ exchange[k].handler = Nil
                                 /\ v.result = "unchanged" =>
                                      \E n \in client[k].since..Len(log) :
                                        MemberAt(client[k].cmd, n) <=> client[k].cmd.kind = "addParticipant"
                            [] OTHER -> TRUE
    BY DEF VerdictsAreTrue
  <2> DEFINE c == client[k]
             x == exchange[k]
             v == c.verdict
  <2>1. Stage(c, x, log, checkpoint, k)
    BY DEF ExchangeInv
  <2>2. NumbersOf(k) = Mine(log, k) /\ \A n : MemberAt(c.cmd, n) = MemberIn(log, c.cmd, n)
    BY InLog DEF NumbersOf, Mine
  <2>3. Idle.verdict = Verdict("none") /\ \A r : Verdict(r).result = r
    BY DEF Idle, Verdict
  <2> HIDE DEF c, x
  <2>4. \/ v.result \in {"none", "error"}
        \/ x.handler = Nil /\ IsTrue(v, log, checkpoint, k, c.cmd, c.since)
    <3>1. CASE c = Idle
      BY <3>1, <2>3
    <3>2. CASE Sent(c, x, log, k) \/ Handling(c, x, log, k) \/ Answered(c, x, log, checkpoint, k)
      BY <3>2, <2>3 DEF Sent, Handling, Answered, Calling
    <3>3. CASE Over(c, x, log, checkpoint, k)
      BY <3>3, Unders DEF Over
    <3> QED
      BY <2>1, <3>1, <3>2, <3>3 DEF Stage
  <2>5. CASE v.result \in {"none", "error"}
    BY <2>5 DEF c
  <2>6. CASE x.handler = Nil /\ IsTrue(v, log, checkpoint, k, c.cmd, c.since)
    <3>1. v.result = "accepted" =>
            /\ v.sequence \in NumbersOf(k)
            /\ \A n \in NumbersOf(k) : n <= v.sequence /\ log[n].event.conversation = v.conversation
      BY <2>2, <2>6 DEF IsTrue
    <3>2. v.result \in {"refused", "forbidden", "not found", "unchanged"} =>
            /\ NumbersOf(k) = {} /\ exchange[k].handler = Nil
            /\ v.result = "unchanged" =>
                 \E n \in c.since..Len(log) : MemberAt(c.cmd, n) <=> c.cmd.kind = "addParticipant"
      BY <2>2, <2>6 DEF IsTrue, x
    <3> QED
      BY <3>1, <3>2 DEF c
  <2> QED
    BY <2>4, <2>5, <2>6
<1> QED
  BY <1>1, ExchangeInvariance, PTL

\* A call's events are in the log as one block, once, or not at all, although
\* connections break, commits go unacknowledged and callers poll and give up.
THEOREM WrittenOnceOrNot == Spec => []WrittenAtMostOnce
<1>1. ExchangeInv => WrittenAtMostOnce
  <2> SUFFICES ASSUME ExchangeInv, NEW k \in Caller
               PROVE  Written(log, k, client[k].cmd)
    BY DEF WrittenAtMostOnce, Written, NumbersOf, Mine
  <2>1. Stage(client[k], exchange[k], log, checkpoint, k)
    BY DEF ExchangeInv
  <2> QED
    BY <2>1 DEF Stage, Sent, Handling, Answered, Over, Written
<1> QED
  BY <1>1, ExchangeInvariance, PTL

\* The reason of every refusal is the one the server gave.
THEOREM RefusalsCarryReasons == Spec => []RefusalsHaveReasons
<1>1. ExchangeInv => RefusalsHaveReasons
  <2> SUFFICES ASSUME ExchangeInv, NEW k \in Caller, client[k].verdict.result = "refused"
               PROVE  client[k].verdict.reason # "request rejected"
    BY DEF RefusalsHaveReasons
  <2> DEFINE c == client[k]
             x == exchange[k]
  <2>1. Stage(c, x, log, checkpoint, k)
    BY DEF ExchangeInv
  <2>2. Idle.verdict = Verdict("none") /\ \A r : Verdict(r).result = r
    BY DEF Idle, Verdict
  <2>3. c.verdict.result = "refused"
    OBVIOUS
  <2> HIDE DEF c, x
  <2>4. IsTrue(c.verdict, log, checkpoint, k, c.cmd, c.since)
    BY <2>1, <2>2, <2>3 DEF Stage, Sent, Handling, Answered, Over, Calling
  <2>5. c.verdict.reason = "reason"
    BY <2>3, <2>4 DEF IsTrue
  <2> QED
    BY <2>5 DEF c
<1> QED
  BY <1>1, ExchangeInvariance, PTL

\* What a read returns through handler, JSON, client and driver was a state of
\* the log or the projection between call and answer, and what a wait ends
\* with contains the write it waited for.
THEOREM ReadsWereTrue == Spec => ReadsAreTrue
<1> DEFINE Step ==
      \A k \in Caller :
       LET cmd == client[k].cmd
           v   == client'[k].verdict
           w   == client'[k].waited
       IN  /\ v # client[k].verdict =>
                /\ v.result = "view" =>
                     \E n \in client[k].since..checkpoint :
                       v.view = FullView(TablesAt(n), n, cmd.conversation)
                /\ v.result = "views" =>
                     \E n \in client[k].since..checkpoint :
                       v.views = ViewsOfParticipant(TablesAt(n), n, cmd.participant)
                /\ v.result = "events" =>
                     \E n \in client[k].since..Len(log) :
                       LET records == RecordsAt(cmd.conversation, n)
                       IN  v.records = [i \in DOMAIN records |-> Listed(records[i])]
           /\ w # client[k].waited /\ w.result = "view" =>
                \E n \in v.sequence..checkpoint : w.view = FullView(TablesAt(n), n, v.conversation)
<1>1. ExchangeInv /\ [Next]_vars => [Step]_vars
  <2> SUFFICES ASSUME AllReported
               PROVE  Step
    BY ExchangeStep
  <2> SUFFICES ASSUME NEW k \in Caller
               PROVE  /\ client'[k].verdict # client[k].verdict =>
                           /\ client'[k].verdict.result = "view" =>
                                \E n \in client[k].since..checkpoint :
                                  client'[k].verdict.view = FullIn(log, n, client[k].cmd.conversation)
                           /\ client'[k].verdict.result = "views" =>
                                \E n \in client[k].since..checkpoint :
                                  client'[k].verdict.views = ViewsIn(log, n, client[k].cmd.participant)
                           /\ client'[k].verdict.result = "events" =>
                                \E n \in client[k].since..Len(log) :
                                  client'[k].verdict.records = ListedIn(log, n, client[k].cmd.conversation)
                      /\ client'[k].waited # client[k].waited /\ client'[k].waited.result = "view" =>
                           \E n \in client'[k].verdict.sequence..checkpoint :
                             client'[k].waited.view = FullIn(log, n, client'[k].verdict.conversation)
    BY InLog DEF ListedIn
  <2>1. Reported(client'[k], client[k], log, checkpoint, k)
    BY DEF AllReported
  <2> QED
    BY <2>1 DEF Reported, IsTrue, PollIsTrue
<1> HIDE DEF Step
<1>2. Spec => [][Step]_vars
  BY <1>1, ExchangeInvariance, PTL DEF Spec
<1> QED
  BY <1>2, PTL DEF Step, ReadsAreTrue
==============================================================================
