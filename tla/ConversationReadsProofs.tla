----------------------- MODULE ConversationReadsProofs -----------------------
(***************************************************************************)
(* Proofs about the GET requests, for any commands, clients, urls and      *)
(* failures.  What a request has read at different moments stays true of   *)
(* the log and of the projection that keep growing behind it, and that is  *)
(* what every answer is put together from.                                 *)
(***************************************************************************)
EXTENDS ConversationReads, ConversationEngineProofs

-----------------------------------------------------------------------------
(***************************************************************************)
(* The engine behind the reads only grows.                                 *)
(***************************************************************************)

\* What a client may rely on between two of its queries.
Grown ==
  /\ DOMAIN log \subseteq DOMAIN log'
  /\ \A s \in DOMAIN log : EventAt(s)' = EventAt(s)
  /\ checkpoint \in Nat /\ checkpoint' \in Nat /\ checkpoint <= checkpoint'
  /\ 1..checkpoint \subseteq DOMAIN log
  /\ \A r \in Request : req[r].state = "accepted" =>
       req'[r] = req[r] /\ decision'[r] = decision[r]
  /\ DOMAIN tables.threads \subseteq DOMAIN tables'.threads

\* Handlers and appends touch nothing that was accepted, and nothing is
\* deleted from the log.
LEMMA ApiGrows ==
  ASSUME EngineInv, [EngineNext]_allVars
  PROVE  /\ DOMAIN log \subseteq DOMAIN log'
         /\ \A s \in DOMAIN log : EventAt(s)' = EventAt(s)
         /\ \A r \in Request : req[r].state = "accepted" =>
              req'[r] = req[r] /\ decision'[r] = decision[r]
<1>1. CASE UNCHANGED <<log, req, decision>>
  BY <1>1 DEF EventAt
<1>2. ASSUME NEW r \in Request, NEW cmd \in Command[r], HandlerStep(r, cmd)
      PROVE  /\ UNCHANGED <<log, req>>
             /\ req[r].state # "accepted"
             /\ \A q \in Request : q # r => decision'[q] = decision[q]
  <2>1. PICK outcome : Decide(r, outcome)
    BY <1>2, HandlerOutcomeOK
  <2>2. AppendOK(r) /\ DOMAIN decision = Request
    BY DEF EngineInv, ApiInv, DecisionInv
  <2>3. req[r].state # "accepted"
    BY <2>1, <2>2 DEF Decide, AppendOK
  <2> QED
    BY <2>1, <2>2, <2>3 DEF Decide, vars
<1>3. ASSUME NEW r \in Request, AppendStep(r)
      PROVE  /\ UNCHANGED <<log, decision>>
             /\ req[r].state # "accepted"
             /\ \A q \in Request : q # r => req'[q] = req[q]
  BY <1>3 DEF AppendStep, Begin, BeginFails, InsertEvent, Rollback, engineVars,
              EngineInv, IndInv, TypeOK
<1>4. ASSUME NEW r \in Request, AppendCommit(r)
      PROVE  /\ UNCHANGED decision
             /\ req[r].state # "accepted"
             /\ \A q \in Request : q # r => req'[q] = req[q]
             /\ DOMAIN log \subseteq DOMAIN log'
             /\ \A s \in DOMAIN log : EventAt(s)' = EventAt(s)
  <2>1. DOMAIN log = events
    BY DEF EngineInv, ApiInv
  <2> QED
    BY <1>4, <2>1, CommitEffect
<1>5. ASSUME NEW rl \in Relay, DrainStep(rl) \/ ProjectionApply(rl) \/ ProjectionReject(rl)
      PROVE  UNCHANGED <<log, req, decision>>
  BY <1>5 DEF DrainStep, ProjectionApply, ProjectionReject, engineVars, ReadPending, ReadCheckpoint,
              MarkDone, DrainFails, Apply, ApplyUnacknowledged, ApplyRun, ApplyRejected, apiVars
<1>6. CASE UNCHANGED allVars
  BY <1>1, <1>6 DEF allVars, vars, engineVars
<1>7. ASSUME NEW r \in Request, NEW cmd \in Command[r], HandlerStep(r, cmd)
      PROVE  /\ DOMAIN log \subseteq DOMAIN log'
             /\ \A s \in DOMAIN log : EventAt(s)' = EventAt(s)
             /\ \A q \in Request : req[q].state = "accepted" =>
                  req'[q] = req[q] /\ decision'[q] = decision[q]
  BY <1>2, <1>7 DEF EventAt
<1>8. ASSUME NEW r \in Request, AppendStep(r)
      PROVE  /\ DOMAIN log \subseteq DOMAIN log'
             /\ \A s \in DOMAIN log : EventAt(s)' = EventAt(s)
             /\ \A q \in Request : req[q].state = "accepted" =>
                  req'[q] = req[q] /\ decision'[q] = decision[q]
  BY <1>3, <1>8 DEF EventAt
<1>9. ASSUME NEW r \in Request, AppendCommit(r)
      PROVE  /\ DOMAIN log \subseteq DOMAIN log'
             /\ \A s \in DOMAIN log : EventAt(s)' = EventAt(s)
             /\ \A q \in Request : req[q].state = "accepted" =>
                  req'[q] = req[q] /\ decision'[q] = decision[q]
  BY <1>4, <1>9
<1> QED
  BY <1>1, <1>5, <1>6, <1>7, <1>8, <1>9 DEF EngineNext

LEMMA EngineGrows ==
  ASSUME EngineInv, [EngineNext]_allVars
  PROVE  Grown /\ EngineInv'
<1>1. EngineInv'
  BY NextEngineInv
<1>2. /\ DOMAIN log \subseteq DOMAIN log'
      /\ \A s \in DOMAIN log : EventAt(s)' = EventAt(s)
      /\ \A r \in Request : req[r].state = "accepted" =>
           req'[r] = req[r] /\ decision'[r] = decision[r]
  BY ApiGrows
<1>3. checkpoint' >= checkpoint
  BY EngineStep, CheckpointAscends DEF EngineInv
<1>4. /\ checkpoint \in Nat /\ 1..checkpoint \subseteq DOMAIN log
      /\ \A s \in 1..checkpoint : Ev[s] = EventAt(s)
  BY LoggedUpToCheckpoint
<1>5. /\ checkpoint' \in Nat
      /\ \A s \in 1..checkpoint' : Ev'[s] = EventAt(s)'
  BY <1>1 DEF EngineInv, ApiInv, IndInv, TypeOK, TablesAgree, Ev
<1>6. RowsOK(Ev, tables, checkpoint)
  BY DEF EngineInv, ProjectionOK
<1>7. RowsOK(Ev', tables', checkpoint')
  BY <1>1 DEF EngineInv, ProjectionOK
<1>8. ASSUME NEW key \in DOMAIN tables.threads
      PROVE  key \in DOMAIN tables'.threads
  <2>1. PICK s \in 1..checkpoint : Ev[s].type = "ThreadStarted" /\ key = ThreadKey(Ev[s])
    BY <1>6 DEF RowsOK
  <2>2. s \in 1..checkpoint'
    BY <1>3, <1>4, <1>5
  <2>3. Ev'[s] = Ev[s]
    BY <1>2, <1>4, <1>5, <2>2
  <2> QED
    BY <1>7, <2>1, <2>2, <2>3 DEF RowsOK
<1> QED
  BY <1>1, <1>2, <1>3, <1>4, <1>5, <1>8 DEF Grown

-----------------------------------------------------------------------------
(***************************************************************************)
(* The requests, seen from outside: what a client has asked for, how far   *)
(* the answer is, and the answer it was given last.                        *)
(***************************************************************************)

\* The queries that each kind of url leads to.
Queries(kind) ==
  CASE kind = "location"     -> {"after", "rows"}
    [] kind = "conversation" -> {"rows"}
    [] kind = "participant"  -> {"ids", "each", "messages"}
    [] kind = "events"       -> {"events"}
    [] OTHER                 -> {}

\* A location is that of a write that was accepted.
Located(url, rq) ==
  url.kind = "location" => url.request \in Request /\ rq[url.request].state = "accepted"

Asking(pc, url, since, rows) == [pc |-> pc, url |-> url, since |-> since, rows |-> rows]

RequestOK(g, rq) ==
  /\ g = Asking(g.pc, g.url, g.since, g.rows)
  /\ g.pc # "ready" => Located(g.url, rq) /\ g.pc \in Queries(g.url.kind)
  /\ g.pc = "each" => g.rows = [todo |-> g.rows.todo, views |-> g.rows.views]

AnsweredOK(a, rq) ==
  /\ a = [status |-> a.status, url |-> a.url, since |-> a.since, view |-> a.view]
  /\ a.status # "none" => Located(a.url, rq)

ReadsOK ==
  /\ DOMAIN get = Client /\ DOMAIN answer = Client
  /\ \A c \in Client : RequestOK(get[c], req) /\ AnsweredOK(answer[c], req)

\* What the request of client c may do next, other than end.
Asks(c, url, pc) ==
  /\ pc \in Queries(url.kind)
  /\ pc \in {"after", "rows", "ids", "events"}
  /\ url.kind = "location" => pc = "after"
  /\ Located(url, req)
  /\ get'[c] = Asking(pc, url, 0, <<>>)

Queried(c, table) ==
  LET id == ConversationOf(get[c].url) IN
  CASE table = "conversation" -> id \in tables.conversations
    [] table = "threads"      -> ThreadsOf(tables, id)
    [] table = "messages"     -> {m \in tables.messages : m.conversation = id}

GoesOn(c) ==
  LET g == get[c] IN
  \/ /\ g.pc = "after"
     /\ CaughtUp(ReturnedSequence(req[g.url.request].seqs))
     /\ get'[c] = Asking("rows", g.url, g.since, <<>>)
  \/ /\ g.pc = "rows"
     /\ \E table \in {"conversation", "threads", "messages"} :
          get'[c] = Asking("rows", g.url, g.since, Put(g.rows, table, Queried(c, table)))
  \/ /\ g.pc = "ids"
     /\ get'[c] = Asking("each", g.url, checkpoint,
                           [todo |-> ConversationsOfParticipant(g.url.id), views |-> <<>>])
  \/ /\ g.pc = "each"
     /\ \E id \in g.rows.todo :
          get'[c] = Asking("messages", g.url, g.since,
                             [todo |-> g.rows.todo \ {id}, views |-> g.rows.views, id |-> id,
                              threads |-> ThreadsOfParticipant(id, g.url.id)])
  \/ /\ g.pc = "messages"
     /\ \E messages :
          /\ messages = {m \in tables.messages :
                           /\ m.conversation = g.rows.id
                           /\ m.thread \in DOMAIN ThreadsOfParticipant(g.rows.id, g.url.id)}
          /\ get'[c] = Asking("each", g.url, g.since,
                                [todo |-> g.rows.todo,
                                 views |-> Put(g.rows.views, g.rows.id, View(g.rows.threads, messages))])

\* How the request of client c may end.
Gives(c, status, view) ==
  answer'[c] = [status |-> status, url |-> get[c].url, since |-> get[c].since, view |-> view]

GivesConversation(c) ==
  LET rows == get[c].rows IN
  /\ get[c].pc = "rows"
  /\ DOMAIN rows = {"conversation", "threads", "messages"}
  /\ \/ (rows.threads = <<>> \/ ~ rows.conversation) /\ Gives(c, "404", <<>>)
     \/ /\ rows.threads # <<>> /\ rows.conversation
        /\ Gives(c, "200", View(rows.threads, rows.messages))

GivesParticipant(c) ==
  /\ get[c].pc = "each"
  /\ get[c].rows.todo = {}
  /\ Gives(c, "200", get[c].rows.views)

GivesEvents(c) ==
  /\ get[c].pc = "events"
  /\ \E listed : /\ listed = SequencesUpTo(get[c].url.id, nextSeq - 1)
                 /\ \/ listed = <<>> /\ Gives(c, "404", listed)
                    \/ listed # <<>> /\ Gives(c, "200", listed)

GivesNothing(c) ==
  /\ get[c].pc # "ready"
  /\ \E status \in {"202", "500"} : Gives(c, status, <<>>)

Answers(c) ==
  GivesConversation(c) \/ GivesParticipant(c) \/ GivesEvents(c) \/ GivesNothing(c)

LEMMA AskingFields ==
  ASSUME NEW pc, NEW url, NEW since, NEW rows
  PROVE  LET g == Asking(pc, url, since, rows) IN
         g.pc = pc /\ g.url = url /\ g.since = since /\ g.rows = rows
BY DEF Asking

LEMMA GivesFields ==
  ASSUME NEW c, NEW status, NEW view, Gives(c, status, view)
  PROVE  /\ answer'[c].status = status /\ answer'[c].view = view
         /\ answer'[c].url = get[c].url /\ answer'[c].since = get[c].since
BY DEF Gives

LEMMA RespondEffect ==
  ASSUME ReadsOK, NEW c \in Client, NEW status, NEW view, Respond(c, status, view)
  PROVE  /\ Gives(c, status, view)
         /\ get'[c] = Ready
         /\ DOMAIN get' = Client /\ DOMAIN answer' = Client
         /\ \A d \in Client : d # c => get'[d] = get[d] /\ answer'[d] = answer[d]
BY DEF Respond, ReadsOK, Gives

LEMMA ContinueEffect ==
  ASSUME ReadsOK, NEW c \in Client, NEW pc, NEW rows, Continue(c, pc, rows)
  PROVE  /\ get'[c] = Asking(pc, get[c].url, get[c].since, rows)
         /\ answer' = answer
         /\ DOMAIN get' = Client
         /\ \A d \in Client : d # c => get'[d] = get[d]
<1>1. get[c] = Asking(get[c].pc, get[c].url, get[c].since, get[c].rows) /\ DOMAIN get = Client
  BY DEF ReadsOK, RequestOK
<1>2. get' = [get EXCEPT ![c].pc = pc, ![c].rows = rows] /\ answer' = answer
  BY DEF Continue
<1> QED
  BY <1>1, <1>2 DEF Asking

LEMMA ReceiveEffect ==
  ASSUME ReadsOK, NEW c \in Client, NEW url, NEW pc, Receive(c, url, pc)
  PROVE  /\ get'[c] = Asking(pc, url, 0, <<>>)
         /\ answer' = answer
         /\ DOMAIN get' = Client
         /\ \A d \in Client : d # c => get'[d] = get[d]
BY DEF Receive, ReadsOK, Asking

\* A step of client c goes on with its request or answers it, and is none of
\* the other clients' business.
LEMMA ClientEffect ==
  ASSUME ReadsOK, NEW c \in Client, ClientStep(c)
  PROVE  /\ DOMAIN get' = Client /\ DOMAIN answer' = Client
         /\ \A d \in Client : d # c => get'[d] = get[d] /\ answer'[d] = answer[d]
         /\ \/ answer'[c] = answer[c] /\ ((\E url \in Url : \E pc : Asks(c, url, pc)) \/ GoesOn(c))
            \/ get'[c] = Ready /\ Answers(c)
<1> DEFINE Asked == /\ DOMAIN get' = Client /\ DOMAIN answer' = Client
                    /\ \A d \in Client : d # c => get'[d] = get[d] /\ answer'[d] = answer[d]
                    /\ answer'[c] = answer[c]
                    /\ (\E url \in Url : \E pc : Asks(c, url, pc))
           Went  == /\ DOMAIN get' = Client /\ DOMAIN answer' = Client
                    /\ \A d \in Client : d # c => get'[d] = get[d] /\ answer'[d] = answer[d]
                    /\ answer'[c] = answer[c]
                    /\ GoesOn(c)
           Ended == /\ DOMAIN get' = Client /\ DOMAIN answer' = Client
                    /\ \A d \in Client : d # c => get'[d] = get[d] /\ answer'[d] = answer[d]
                    /\ get'[c] = Ready
                    /\ Answers(c)
<1>0. DOMAIN get = Client /\ DOMAIN answer = Client
  BY DEF ReadsOK
<1>1. ASSUME NEW url \in Url, FollowLocation(c, url) \/ GetConversation(c, url)
                              \/ GetByParticipant(c, url) \/ ListConversationEvents(c, url)
      PROVE  Asked
  <2>1. PICK pc \in {"after", "rows", "ids", "events"} :
          /\ pc \in Queries(url.kind)
          /\ Receive(c, url, pc)
          /\ url.kind = "location" => pc = "after" /\ req[url.request].state = "accepted"
    <3>1. CASE FollowLocation(c, url)
      BY <3>1 DEF FollowLocation, Queries
    <3>2. CASE GetConversation(c, url)
      BY <3>2 DEF GetConversation, Queries
    <3>3. CASE GetByParticipant(c, url)
      BY <3>3 DEF GetByParticipant, Queries
    <3>4. CASE ListConversationEvents(c, url)
      BY <3>4 DEF ListConversationEvents, Queries
    <3> QED
      BY <1>1, <3>1, <3>2, <3>3, <3>4
  <2>2. Located(url, req)
    BY <2>1, LocationAssumption DEF Located
  <2>3. /\ get'[c] = Asking(pc, url, 0, <<>>)
        /\ answer' = answer
        /\ DOMAIN get' = Client
        /\ \A d \in Client : d # c => get'[d] = get[d]
    BY <2>1, ReceiveEffect
  <2>4. Asks(c, url, pc)
    BY <2>1, <2>2, <2>3 DEF Asks
  <2> QED
    BY <1>0, <2>3, <2>4
<1>2. ASSUME NEW pc, NEW rows, Continue(c, pc, rows),
             get'[c] = Asking(pc, get[c].url, get[c].since, rows) => GoesOn(c)
      PROVE  Went
  BY <1>0, <1>2, ContinueEffect
<1>3. ASSUME NEW status, NEW view, Respond(c, status, view),
             Gives(c, status, view) => Answers(c)
      PROVE  Ended
  BY <1>0, <1>3, RespondEffect
<1>4. CASE QueryFails(c)
  BY <1>3, <1>4 DEF QueryFails, Answers, GivesNothing
<1>5. CASE CheckAfter(c)
  <2>1. CASE CaughtUp(ReturnedSequence(req[get[c].url.request].seqs))
    BY <1>2, <1>5, <2>1 DEF CheckAfter, GoesOn
  <2>2. CASE ~ CaughtUp(ReturnedSequence(req[get[c].url.request].seqs))
    BY <1>3, <1>5, <2>2 DEF CheckAfter, Answers, GivesNothing
  <2> QED
    BY <2>1, <2>2
<1>6. ASSUME NEW table \in {"conversation", "threads", "messages"}, ReadRows(c, table)
      PROVE  Went
  <2>1. get[c].pc = "rows" /\ Continue(c, "rows", Put(get[c].rows, table, Queried(c, table)))
    BY <1>6 DEF ReadRows, Queried
  <2> QED
    BY <1>2, <2>1 DEF GoesOn
<1>7. CASE AnswerConversation(c)
  <2> DEFINE rows == get[c].rows
  <2>0. get[c].pc = "rows" /\ DOMAIN rows = {"conversation", "threads", "messages"}
    BY <1>7 DEF AnswerConversation
  <2>1. CASE rows.threads = <<>> \/ ~ rows.conversation
    <3>1. Respond(c, "404", <<>>)
      BY <1>7, <2>1 DEF AnswerConversation
    <3> QED
      BY <1>3, <2>0, <2>1, <3>1 DEF Answers, GivesConversation
  <2>2. CASE ~ (rows.threads = <<>> \/ ~ rows.conversation)
    <3>1. Respond(c, "200", View(rows.threads, rows.messages))
      BY <1>7, <2>2 DEF AnswerConversation
    <3> QED
      BY <1>3, <2>0, <2>2, <3>1 DEF Answers, GivesConversation
  <2> QED
    BY <2>1, <2>2
<1>8. CASE ReadIds(c)
  <2> DEFINE rows == [todo |-> ConversationsOfParticipant(get[c].url.id), views |-> <<>>]
  <2>1. /\ get[c].pc = "ids" /\ answer' = answer
        /\ get' = [get EXCEPT ![c].pc = "each", ![c].since = checkpoint, ![c].rows = rows]
    BY <1>8 DEF ReadIds
  <2>2. get[c] = Asking(get[c].pc, get[c].url, get[c].since, get[c].rows)
    BY DEF ReadsOK, RequestOK
  <2> HIDE DEF rows
  <2>3. /\ get'[c] = Asking("each", get[c].url, checkpoint, rows)
        /\ DOMAIN get' = Client
        /\ \A d \in Client : d # c => get'[d] = get[d]
    BY <1>0, <2>1, <2>2 DEF Asking
  <2>4. GoesOn(c)
    BY <2>1, <2>3 DEF GoesOn, rows
  <2> QED
    BY <1>0, <2>1, <2>3, <2>4
<1>9. ASSUME NEW id \in tables.conversations, ReadThreads(c, id)
      PROVE  Went
  <2> DEFINE rows == [todo |-> get[c].rows.todo \ {id}, views |-> get[c].rows.views, id |-> id,
                      threads |-> ThreadsOfParticipant(id, get[c].url.id)]
  <2>1. get[c].pc = "each" /\ id \in get[c].rows.todo /\ Continue(c, "messages", rows)
    BY <1>9 DEF ReadThreads
  <2>2. get'[c] = Asking("messages", get[c].url, get[c].since, rows) => GoesOn(c)
    BY <2>1 DEF GoesOn
  <2> QED
    BY <1>2, <2>1, <2>2
<1>10. CASE ReadMessages(c)
  <2> DEFINE messages == {m \in tables.messages :
                           /\ m.conversation = get[c].rows.id
                           /\ m.thread \in DOMAIN ThreadsOfParticipant(get[c].rows.id, get[c].url.id)}
             rows == [todo |-> get[c].rows.todo,
                      views |-> Put(get[c].rows.views, get[c].rows.id, View(get[c].rows.threads, messages))]
  <2>1. get[c].pc = "messages" /\ Continue(c, "each", rows)
    BY <1>10 DEF ReadMessages
  <2>2. get'[c] = Asking("each", get[c].url, get[c].since, rows) => GoesOn(c)
    BY <2>1 DEF GoesOn
  <2> QED
    BY <1>2, <2>1, <2>2
<1>11. CASE AnswerParticipant(c)
  BY <1>3, <1>11 DEF AnswerParticipant, Answers, GivesParticipant
<1>12. CASE AnswerEvents(c)
  <2> DEFINE listed == SequencesUpTo(get[c].url.id, nextSeq - 1)
             status == IF listed = <<>> THEN "404" ELSE "200"
  <2>1. get[c].pc = "events" /\ Respond(c, status, listed)
    BY <1>12 DEF AnswerEvents
  <2>2. CASE listed = <<>>
    <3>1. Respond(c, "404", listed)
      BY <2>1, <2>2
    <3>2. Gives(c, "404", listed) => Answers(c)
      BY <2>1, <2>2 DEF Answers, GivesEvents
    <3> QED
      BY <1>3, <3>1, <3>2
  <2>3. CASE listed # <<>>
    <3>1. Respond(c, "200", listed)
      BY <2>1, <2>3
    <3>2. Gives(c, "200", listed) => Answers(c)
      BY <2>1, <2>3 DEF Answers, GivesEvents
    <3> QED
      BY <1>3, <3>1, <3>2
  <2> QED
    BY <2>2, <2>3
<1> QED
  BY <1>1, <1>4, <1>5, <1>6, <1>7, <1>8, <1>9, <1>10, <1>11, <1>12 DEF ClientStep

-----------------------------------------------------------------------------
(***************************************************************************)
(* The invariants of the engine, and the shape of the requests.            *)
(***************************************************************************)

\* Either the engine moves and the requests stand still, or the other way
\* round.
LEMMA ReadsStep ==
  ASSUME EngineInv, [ReadsNext]_<<allVars, readVars>>
  PROVE  /\ Grown
         /\ EngineInv'
         /\ \/ UNCHANGED <<get, answer>>
            \/ UNCHANGED allVars /\ \E c \in Client : ClientStep(c)
<1>1. [EngineNext]_allVars
  BY DEF ReadsNext
<1> QED
  BY <1>1, EngineGrows DEF ReadsNext, readVars

LEMMA RequestStays ==
  ASSUME Grown
  PROVE  /\ \A url : Located(url, req) => Located(url, req')
         /\ \A g : RequestOK(g, req) => RequestOK(g, req')
         /\ \A a : AnsweredOK(a, req) => AnsweredOK(a, req')
<1>1. \A url : Located(url, req) => Located(url, req')
  BY DEF Grown, Located
<1> QED
  BY <1>1 DEF RequestOK, AnsweredOK

LEMMA ReadyOK ==
  ASSUME NEW rq
  PROVE  RequestOK(Ready, rq) /\ AnsweredOK(NoAnswer, rq)
BY DEF RequestOK, AnsweredOK, Ready, NoAnswer, Asking

LEMMA ReadsInitOK == ReadsInit => EngineInv /\ ReadsOK
BY InitEngineInv, ReadyOK DEF ReadsInit, ReadsOK

\* A request goes from one query to the next that its url leads to.
LEMMA GoesOnOK ==
  ASSUME NEW c, RequestOK(get[c], req), GoesOn(c)
  PROVE  RequestOK(get'[c], req)
<1> DEFINE g == get[c]
           Went(pc, since, rows) == get'[c] = Asking(pc, g.url, since, rows)
<1>1. RequestOK(g, req)
  OBVIOUS
<1>2. ASSUME NEW pc, NEW since, NEW rows, Went(pc, since, rows), g.pc # "ready",
             pc \in Queries(g.url.kind),
             pc = "each" => rows = [todo |-> rows.todo, views |-> rows.views]
      PROVE  RequestOK(get'[c], req)
  BY <1>1, <1>2 DEF RequestOK, Asking
<1>3. CASE g.pc = "after"
  <2>1. Went("rows", g.since, <<>>) /\ "rows" \in Queries(g.url.kind)
    BY <1>1, <1>3 DEF GoesOn, RequestOK, Queries
  <2> QED
    BY <1>2, <1>3, <2>1
<1>4. CASE g.pc = "rows"
  <2>1. PICK rows : Went("rows", g.since, rows)
    BY <1>4 DEF GoesOn
  <2>2. "rows" \in Queries(g.url.kind)
    BY <1>1, <1>4 DEF RequestOK
  <2> QED
    BY <1>2, <1>4, <2>1, <2>2
<1>5. CASE g.pc = "ids"
  <2>1. PICK todo, views : Went("each", checkpoint, [todo |-> todo, views |-> views])
    BY <1>5 DEF GoesOn
  <2>2. "each" \in Queries(g.url.kind)
    BY <1>1, <1>5 DEF RequestOK, Queries
  <2> QED
    BY <1>2, <1>5, <2>1, <2>2
<1>6. CASE g.pc = "each"
  <2>1. PICK rows : Went("messages", g.since, rows)
    BY <1>6 DEF GoesOn
  <2>2. "messages" \in Queries(g.url.kind)
    BY <1>1, <1>6 DEF RequestOK, Queries
  <2> QED
    BY <1>2, <1>6, <2>1, <2>2
<1>7. CASE g.pc = "messages"
  <2>1. PICK todo, views : Went("each", g.since, [todo |-> todo, views |-> views])
    BY <1>7 DEF GoesOn
  <2>2. "each" \in Queries(g.url.kind)
    BY <1>1, <1>7 DEF RequestOK, Queries
  <2> QED
    BY <1>2, <1>7, <2>1, <2>2
<1> QED
  BY <1>3, <1>4, <1>5, <1>6, <1>7 DEF GoesOn

LEMMA ReadsNextOK ==
  ASSUME EngineInv, ReadsOK, [ReadsNext]_<<allVars, readVars>>
  PROVE  ReadsOK'
<1>1. Grown
  BY ReadsStep
<1>2. /\ DOMAIN get = Client /\ DOMAIN answer = Client
      /\ \A c \in Client : RequestOK(get[c], req) /\ AnsweredOK(answer[c], req)
  BY DEF ReadsOK
<1>3. CASE UNCHANGED <<get, answer>>
  BY <1>1, <1>2, <1>3, RequestStays DEF ReadsOK
<1>4. ASSUME NEW c \in Client, ClientStep(c)
      PROVE  ReadsOK'
  <2>1. /\ DOMAIN get' = Client /\ DOMAIN answer' = Client
        /\ \A d \in Client : d # c => get'[d] = get[d] /\ answer'[d] = answer[d]
        /\ \/ answer'[c] = answer[c] /\ ((\E url \in Url : \E pc : Asks(c, url, pc)) \/ GoesOn(c))
           \/ get'[c] = Ready /\ Answers(c)
    BY <1>4, ClientEffect
  <2>2. ASSUME NEW url \in Url, NEW pc, Asks(c, url, pc)
        PROVE  RequestOK(get'[c], req)
    BY <2>2 DEF Asks, RequestOK, Asking
  <2>3. ASSUME Answers(c)
        PROVE  AnsweredOK(answer'[c], req)
    <3>1. PICK status, view : get[c].pc # "ready" /\ Gives(c, status, view)
      BY <2>3 DEF Answers, GivesConversation, GivesParticipant, GivesEvents, GivesNothing
    <3>2. Located(get[c].url, req)
      BY <1>2, <3>1 DEF RequestOK
    <3> QED
      BY <3>1, <3>2 DEF AnsweredOK, Gives
  <2>4. RequestOK(get'[c], req) /\ AnsweredOK(answer'[c], req)
    BY <1>2, <2>1, <2>2, <2>3, GoesOnOK, ReadyOK
  <2>5. \A d \in Client : RequestOK(get'[d], req) /\ AnsweredOK(answer'[d], req)
    BY <1>2, <2>1, <2>4
  <2> QED
    BY <1>1, <2>1, <2>5, RequestStays DEF ReadsOK
<1> QED
  BY <1>3, <1>4, ReadsStep

\* The engine behind the reads keeps its invariant, for any number of relays.
THEOREM ReadsInvariance == ReadsSpec => [](EngineInv /\ ReadsOK)
<1>1. ReadsInit => EngineInv /\ ReadsOK
  BY ReadsInitOK
<1>2. EngineInv /\ ReadsOK /\ [ReadsNext]_<<allVars, readVars>> => (EngineInv /\ ReadsOK)'
  BY ReadsStep, ReadsNextOK
<1> QED
  BY <1>1, <1>2, PTL DEF ReadsSpec

-----------------------------------------------------------------------------
(***************************************************************************)
(* Listings.                                                               *)
(***************************************************************************)

\* The rows of a query ORDER BY sequence.
Ascending(list) ==
  /\ list \in Seq(Nat)
  /\ \A i, j \in DOMAIN list : i < j => list[i] < list[j]

LEMMA PickAscends ==
  ASSUME NEW P, NEW n \in Nat
  PROVE  /\ Ascending(Pick(Interval(1, n), P))
         /\ Range(Pick(Interval(1, n), P)) = P \cap 1..n
<1> DEFINE p(m) == Pick(Interval(1, m), P)
           S    == {m \in Nat : Ascending(p(m)) /\ Range(p(m)) = P \cap 1..m}
<1>1. 0 \in S
  <2>1. Interval(1, 0) \in Seq(Nat) /\ Len(Interval(1, 0)) = 0
    BY IntervalIsSeq
  <2>2. Interval(1, 0) = <<>>
    BY <2>1
  <2>3. p(0) = <<>>
    BY <2>2, PickNothing
  <2>4. Ascending(<<>>) /\ Range(<<>>) = P \cap 1..0
    BY DEF Ascending, Range
  <2> QED
    BY <2>3, <2>4
<1>2. ASSUME NEW m \in Nat, m \in S
      PROVE  m + 1 \in S
  <2>1. /\ Interval(1, m) \in Seq(Nat)
        /\ Len(Interval(1, m)) = m
        /\ Interval(1, m + 1) = Append(Interval(1, m), m + 1)
    <3>1. 1 \in Nat \ {0} /\ 1 <= m + 1 /\ m + 1 - 1 = m
      OBVIOUS
    <3> QED
      BY <3>1, IntervalIsSeq, IntervalGrows
  <2>2. p(m + 1) = IF m + 1 \in P THEN Append(p(m), m + 1) ELSE p(m)
    <3> DEFINE run == Interval(1, m)
    <3> HIDE DEF run
    <3>1. Pick(Append(run, m + 1), P) =
            IF Len(run) + 1 \in P THEN Append(Pick(run, P), m + 1) ELSE Pick(run, P)
      BY <2>1, PickAppend, m + 1 \in Nat DEF run
    <3> QED
      BY <3>1, <2>1 DEF run
  <2> DEFINE old == p(m)
             new == Append(old, m + 1)
  <2>3. Ascending(old) /\ Range(old) = P \cap 1..m
    BY <1>2
  <2> HIDE DEF p
  <2>4. CASE m + 1 \notin P
    <3>1. P \cap 1..(m + 1) = P \cap 1..m
      BY <2>4
    <3> QED
      BY <2>2, <2>3, <2>4, <3>1
  <2>5. CASE m + 1 \in P
    <3>1. p(m + 1) = new
      BY <2>2, <2>5
    <3>2. old \in Seq(Nat) /\ IsList(old)
      BY <2>3, SeqIsList DEF Ascending
    <3>3. Range(new) = Range(old) \cup {m + 1}
      BY <3>2, AppendFacts
    <3>4. P \cap 1..(m + 1) = (P \cap 1..m) \cup {m + 1}
      BY <2>5
    <3>5. \A i \in DOMAIN old : old[i] < m + 1
      <4>1. \A i \in DOMAIN old : old[i] \in 1..m
        BY <2>3 DEF Range
      <4> QED
        BY <4>1
    <3> HIDE DEF old
    <3>6. /\ new \in Seq(Nat)
          /\ DOMAIN new = 1..(Len(old) + 1)
          /\ DOMAIN old = 1..Len(old)
          /\ Len(old) \in Nat
          /\ new[Len(old) + 1] = m + 1
          /\ \A i \in 1..Len(old) : new[i] = old[i]
      BY <3>2
    <3> HIDE DEF new
    <3>7. ASSUME NEW i \in DOMAIN new, NEW j \in DOMAIN new, i < j
          PROVE  new[i] < new[j]
      <4>1. i \in 1..Len(old)
        BY <3>6, <3>7
      <4>2. j \in 1..Len(old) \/ j = Len(old) + 1
        BY <3>6, <3>7
      <4>3. j \in 1..Len(old) => old[i] < old[j]
        BY <2>3, <3>6, <3>7, <4>1 DEF Ascending
      <4> QED
        BY <3>5, <3>6, <4>1, <4>2, <4>3
    <3>8. Ascending(new)
      BY <3>6, <3>7 DEF Ascending
    <3> QED
      BY <2>3, <3>1, <3>3, <3>4, <3>8
  <2> QED
    BY <2>4, <2>5
<1>3. Nat \subseteq S
  <2> HIDE DEF S
  <2> QED
    BY <1>1, <1>2, Induction
<1> QED
  BY <1>3

\* The property of a listing, by the events of the log.
CausalListing(listed, ev) ==
  /\ listed \in Seq(DOMAIN ev)
  /\ listed # <<>>
  /\ ev[listed[1]].type = "ConversationCreated"
  /\ \A i \in 2..Len(listed) :
       ev[listed[i]].type # "ThreadStarted" =>
         \E j \in 1..(i - 1) : /\ ev[listed[j]].type = "ThreadStarted"
                               /\ ThreadKey(ev[listed[j]]) = ThreadKey(ev[listed[i]])

\* What an event needs has a smaller number, and it is in the same listing.
LEMMA ListingIsCausal ==
  ASSUME EngineInv, NEW id, NEW n \in Nat, SequencesUpTo(id, n) # <<>>
  PROVE  CausalListing(SequencesUpTo(id, n), Ev)
<1> DEFINE mine   == {s \in DOMAIN log : log[s].conversation_id = id}
           listed == SequencesUpTo(id, n)
<1>1. Ascending(listed) /\ Range(listed) = mine \cap 1..n
  BY PickAscends DEF SequencesUpTo
<1>2. \A s : s \in mine <=> s \in DOMAIN log /\ EventAt(s).conversation = id
  <2>1. RowsAreEvents
    BY DEF EngineInv, ApiInv
  <2> QED
    BY <2>1, ConversationOfRow DEF IsOf
<1>3. LogOK(Ev) /\ DOMAIN log = events /\ DOMAIN Ev = DOMAIN log /\ \A s \in DOMAIN log : Ev[s] = EventAt(s)
  BY DEF EngineInv, ApiInv, Ev
<1>4. listed # <<>>
  OBVIOUS
<1> HIDE DEF mine, listed
<1>5. /\ listed \in Seq(Nat)
      /\ DOMAIN listed = 1..Len(listed)
      /\ Len(listed) \in Nat \ {0}
  BY <1>1, <1>4 DEF Ascending
<1>6. \A i \in 1..Len(listed) : /\ listed[i] \in DOMAIN log
                                /\ listed[i] \in 1..n
                                /\ EventAt(listed[i]).conversation = id
  BY <1>1, <1>2, <1>5 DEF Range
<1>7. ASSUME NEW i \in 1..Len(listed), NEW s \in DOMAIN log, s <= listed[i] - 1,
             EventAt(s).conversation = id
      PROVE  \E j \in 1..(i - 1) : listed[j] = s
  <2>1. s \in Nat \ {0}
    BY <1>3, EventsAreFounded
  <2>2. s \in 1..n
    BY <1>6, <1>7, <2>1
  <2>3. s \in Range(listed)
    BY <1>1, <1>2, <1>7, <2>2
  <2>4. PICK j \in 1..Len(listed) : listed[j] = s
    BY <1>5, <2>3 DEF Range
  <2>5. ~ (i < j)
    <3>1. i < j => listed[i] < listed[j]
      BY <1>1, <1>5, <2>4 DEF Ascending
    <3> QED
      BY <1>6, <1>7, <2>1, <2>4, <3>1
  <2>6. i # j
    BY <1>6, <1>7, <2>1, <2>4
  <2>7. j \in 1..(i - 1)
    BY <1>5, <2>5, <2>6
  <2> QED
    BY <2>4, <2>7
<1>8. ASSUME NEW i \in 1..Len(listed)
      PROVE  LET e == EventAt(listed[i]) IN
             /\ e.type = "ThreadStarted" => i # 1
             /\ e.type \notin {"ThreadStarted", "ConversationCreated"} =>
                  \E j \in 1..(i - 1) : /\ EventAt(listed[j]).type = "ThreadStarted"
                                        /\ ThreadKey(EventAt(listed[j])) = ThreadKey(e)
  <2> DEFINE s == listed[i]
             e == EventAt(s)
  <2>1. s \in DOMAIN log /\ e.conversation = id
    BY <1>6
  <2>2. /\ IsEvent(e)
        /\ e.type = "ThreadStarted" => CreatedUpTo(e.conversation, s - 1)
        /\ e.type \in {"MessagePosted", "ParticipantAdded", "ParticipantRemoved"} =>
             StartedUpTo(e.conversation, e.thread, s - 1)
    BY <1>3, <2>1, EventsAreFounded
  <2>3. e.type = "ThreadStarted" => i # 1
    <3>1. SUFFICES ASSUME e.type = "ThreadStarted"
                   PROVE  i # 1
      OBVIOUS
    <3>2. PICK f \in DOMAIN log : f <= s - 1 /\ EventAt(f).conversation = id
      BY <2>1, <2>2, <3>1 DEF CreatedUpTo
    <3>3. \E j \in 1..(i - 1) : TRUE
      BY <1>7, <3>2
    <3> QED
      BY <3>3
  <2>4. ASSUME e.type \notin {"ThreadStarted", "ConversationCreated"}
        PROVE  \E j \in 1..(i - 1) : /\ EventAt(listed[j]).type = "ThreadStarted"
                                     /\ ThreadKey(EventAt(listed[j])) = ThreadKey(e)
    <3>1. e.type \in {"MessagePosted", "ParticipantAdded", "ParticipantRemoved"}
      BY <2>2, <2>4 DEF IsEvent
    <3>2. PICK f \in DOMAIN log : /\ f <= s - 1 /\ EventAt(f).type = "ThreadStarted"
                                  /\ ThreadKey(EventAt(f)) = <<e.conversation, e.thread>>
      BY <2>2, <3>1 DEF StartedUpTo
    <3>3. EventAt(f).conversation = id /\ ThreadKey(EventAt(f)) = ThreadKey(e)
      BY <2>1, <3>2 DEF ThreadKey
    <3> QED
      BY <1>7, <3>2, <3>3
  <2> QED
    BY <2>3, <2>4
<1>9. EventAt(listed[1]).type = "ConversationCreated"
  <2>1. 1 \in 1..Len(listed) /\ ~ \E j \in 1..(1 - 1) : TRUE
    BY <1>5
  <2> QED
    BY <1>8, <2>1
<1>10. ASSUME NEW i \in 2..Len(listed), EventAt(listed[i]).type # "ThreadStarted"
       PROVE  \E j \in 1..(i - 1) : /\ EventAt(listed[j]).type = "ThreadStarted"
                                    /\ ThreadKey(EventAt(listed[j])) = ThreadKey(EventAt(listed[i]))
  <2>1. i \in 1..Len(listed) /\ 1 \in 1..Len(listed) /\ 1 < i
    BY <1>5
  <2>2. listed[1] < listed[i]
    BY <1>1, <1>5, <2>1 DEF Ascending
  <2>3. listed[1] # listed[i]
    BY <1>6, <2>1, <2>2
  <2>4. EventAt(listed[i]).type # "ConversationCreated"
    BY <1>3, <1>6, <1>9, <2>1, <2>3, CreatedOnce
  <2> QED
    BY <1>8, <1>10, <2>1, <2>4
<1>11. listed \in Seq(DOMAIN log)
  BY <1>5, <1>6
<1>12. CausalListing(listed, Ev)
  <2>1. \A i \in 1..Len(listed) : Ev[listed[i]] = EventAt(listed[i])
    BY <1>3, <1>6
  <2>2. 1 \in 1..Len(listed)
    BY <1>5
  <2>3. \A i \in 2..Len(listed) : i \in 1..Len(listed) /\ 1..(i - 1) \subseteq 1..Len(listed)
    BY <1>5
  <2>4. Ev[listed[1]].type = "ConversationCreated"
    BY <1>9, <2>1, <2>2
  <2>5. ASSUME NEW i \in 2..Len(listed), Ev[listed[i]].type # "ThreadStarted"
        PROVE  \E j \in 1..(i - 1) : /\ Ev[listed[j]].type = "ThreadStarted"
                                     /\ ThreadKey(Ev[listed[j]]) = ThreadKey(Ev[listed[i]])
    <3>1. PICK j \in 1..(i - 1) : /\ EventAt(listed[j]).type = "ThreadStarted"
                                  /\ ThreadKey(EventAt(listed[j])) = ThreadKey(EventAt(listed[i]))
      BY <1>10, <2>1, <2>3, <2>5
    <3> QED
      BY <2>1, <2>3, <3>1
  <2> QED
    BY <1>3, <1>4, <1>11, <2>4, <2>5 DEF CausalListing
<1> QED
  BY <1>12 DEF listed

\* What is listed stays listed: numbers keep their events.
ListingOK(a, ev) == a.status = "200" /\ a.url.kind = "events" => CausalListing(a.view, ev)

ListingInv == \A c \in Client : ListingOK(answer[c], Ev)

LEMMA EventsStay ==
  ASSUME Grown
  PROVE  DOMAIN Ev \subseteq DOMAIN Ev' /\ \A s \in DOMAIN Ev : Ev'[s] = Ev[s]
BY DEF Grown, Ev

LEMMA ListingStays ==
  ASSUME NEW ev, NEW ev2, DOMAIN ev \subseteq DOMAIN ev2, \A s \in DOMAIN ev : ev2[s] = ev[s],
         NEW a, ListingOK(a, ev)
  PROVE  ListingOK(a, ev2)
<1> DEFINE listed == a.view
<1>1. SUFFICES ASSUME CausalListing(listed, ev)
               PROVE  CausalListing(listed, ev2)
  BY DEF ListingOK
<1> HIDE DEF listed
<1>2. /\ listed \in Seq(DOMAIN ev) /\ listed # <<>>
      /\ ev[listed[1]].type = "ConversationCreated"
      /\ \A i \in 2..Len(listed) :
           ev[listed[i]].type # "ThreadStarted" =>
             \E j \in 1..(i - 1) : /\ ev[listed[j]].type = "ThreadStarted"
                                   /\ ThreadKey(ev[listed[j]]) = ThreadKey(ev[listed[i]])
  BY <1>1 DEF CausalListing
<1>3. listed \in Seq(DOMAIN ev2)
  BY <1>2
<1>4. /\ 1 \in 1..Len(listed)
      /\ \A i \in 2..Len(listed) : i \in 1..Len(listed) /\ 1..(i - 1) \subseteq 1..Len(listed)
      /\ \A i \in 1..Len(listed) : listed[i] \in DOMAIN ev
  BY <1>2
<1>5. \A i \in 1..Len(listed) : ev2[listed[i]] = ev[listed[i]]
  BY <1>4
<1>6. \A i \in 2..Len(listed) :
        ev2[listed[i]].type # "ThreadStarted" =>
          \E j \in 1..(i - 1) : /\ ev2[listed[j]].type = "ThreadStarted"
                                /\ ThreadKey(ev2[listed[j]]) = ThreadKey(ev2[listed[i]])
  <2> SUFFICES ASSUME NEW i \in 2..Len(listed), ev2[listed[i]].type # "ThreadStarted"
               PROVE  \E j \in 1..(i - 1) : /\ ev2[listed[j]].type = "ThreadStarted"
                                             /\ ThreadKey(ev2[listed[j]]) = ThreadKey(ev2[listed[i]])
    OBVIOUS
  <2>1. i \in 1..Len(listed) /\ 1..(i - 1) \subseteq 1..Len(listed)
    BY <1>4
  <2>2. ev2[listed[i]] = ev[listed[i]]
    BY <1>5, <2>1
  <2>3. PICK j \in 1..(i - 1) : /\ ev[listed[j]].type = "ThreadStarted"
                                /\ ThreadKey(ev[listed[j]]) = ThreadKey(ev[listed[i]])
    BY <1>2, <2>2
  <2>4. ev2[listed[j]] = ev[listed[j]]
    BY <1>5, <2>1
  <2> QED
    BY <2>2, <2>3, <2>4
<1> QED
  BY <1>2, <1>3, <1>4, <1>5, <1>6 DEF CausalListing

LEMMA ListingNext ==
  ASSUME EngineInv, ReadsOK, ListingInv, [ReadsNext]_<<allVars, readVars>>
  PROVE  ListingInv'
<1>1. Grown
  BY ReadsStep
<1>2. \A a : ListingOK(a, Ev) => ListingOK(a, Ev')
  <2>1. DOMAIN Ev \subseteq DOMAIN Ev' /\ \A s \in DOMAIN Ev : Ev'[s] = Ev[s]
    BY <1>1, EventsStay
  <2> QED
    BY <2>1, ListingStays
<1>3. CASE UNCHANGED <<get, answer>>
  BY <1>2, <1>3 DEF ListingInv
<1>4. ASSUME NEW c \in Client, ClientStep(c)
      PROVE  ListingInv'
  <2>1. /\ \A d \in Client : d # c => answer'[d] = answer[d]
        /\ answer'[c] = answer[c] \/ Answers(c)
    BY <1>4, ClientEffect
  <2>2. ASSUME Answers(c)
        PROVE  ListingOK(answer'[c], Ev)
    <3>1. CASE GivesConversation(c) \/ GivesParticipant(c)
      <4>1. get[c].pc \in {"rows", "each"} /\ get[c].pc \in Queries(get[c].url.kind)
        BY <3>1 DEF ReadsOK, RequestOK, GivesConversation, GivesParticipant
      <4>2. get[c].url.kind # "events"
        BY <4>1 DEF Queries
      <4> QED
        BY <3>1, <4>2 DEF ListingOK, GivesConversation, GivesParticipant, Gives
    <3>2. CASE GivesEvents(c)
      <4>1. PICK listed : /\ listed = SequencesUpTo(get[c].url.id, nextSeq - 1)
                          /\ \/ listed = <<>> /\ Gives(c, "404", listed)
                             \/ listed # <<>> /\ Gives(c, "200", listed)
        BY <3>2 DEF GivesEvents
      <4>2. nextSeq - 1 \in Nat
        BY DEF EngineInv, IndInv, TypeOK
      <4>3. listed # <<>> => CausalListing(listed, Ev)
        BY <4>1, <4>2, ListingIsCausal
      <4> QED
        BY <4>1, <4>3 DEF ListingOK, Gives
    <3>3. CASE GivesNothing(c)
      BY <3>3 DEF ListingOK, GivesNothing, Gives
    <3> QED
      BY <2>2, <3>1, <3>2, <3>3 DEF Answers
  <2>3. \A d \in Client : ListingOK(answer'[d], Ev)
    BY <2>1, <2>2 DEF ListingInv
  <2> QED
    BY <1>2, <2>3 DEF ListingInv
<1> QED
  BY <1>3, <1>4, ReadsStep

LEMMA ListingGives ==
  ASSUME EngineInv, ListingInv
  PROVE  ListingsAreCausal
<1>1. SUFFICES ASSUME NEW c \in Client, answer[c].status = "200", answer[c].url.kind = "events"
               PROVE  LET listed == answer[c].view IN
                      /\ EventAt(listed[1]).type = "ConversationCreated"
                      /\ \A i \in 2..Len(listed) :
                           EventAt(listed[i]).type # "ThreadStarted" =>
                             \E j \in 1..(i - 1) :
                               /\ EventAt(listed[j]).type = "ThreadStarted"
                               /\ ThreadKey(EventAt(listed[j])) = ThreadKey(EventAt(listed[i]))
  BY DEF ListingsAreCausal
<1> DEFINE listed == answer[c].view
<1>2. CausalListing(listed, Ev)
  BY <1>1 DEF ListingInv, ListingOK
<1> HIDE DEF listed
<1>3. listed \in Seq(DOMAIN Ev) /\ listed # <<>>
  BY <1>2 DEF CausalListing
<1>4. /\ 1 \in 1..Len(listed)
      /\ \A i \in 2..Len(listed) : i \in 1..Len(listed) /\ 1..(i - 1) \subseteq 1..Len(listed)
      /\ \A i \in 1..Len(listed) : listed[i] \in DOMAIN Ev
  BY <1>3
<1>5. \A i \in 1..Len(listed) : Ev[listed[i]] = EventAt(listed[i])
  BY <1>4 DEF Ev
<1>6. /\ Ev[listed[1]].type = "ConversationCreated"
      /\ \A i \in 2..Len(listed) :
           Ev[listed[i]].type # "ThreadStarted" =>
             \E j \in 1..(i - 1) : /\ Ev[listed[j]].type = "ThreadStarted"
                                   /\ ThreadKey(Ev[listed[j]]) = ThreadKey(Ev[listed[i]])
  BY <1>2 DEF CausalListing
<1>7. /\ EventAt(listed[1]).type = "ConversationCreated"
      /\ \A i \in 2..Len(listed) :
           EventAt(listed[i]).type # "ThreadStarted" =>
             \E j \in 1..(i - 1) : /\ EventAt(listed[j]).type = "ThreadStarted"
                                   /\ ThreadKey(EventAt(listed[j])) = ThreadKey(EventAt(listed[i]))
  BY <1>4, <1>5, <1>6, Zenon
<1> QED
  BY <1>7 DEF listed

\* Any listing of the events of a conversation begins with the conversation,
\* and nothing in it happens in a thread before that thread starts.
THEOREM EventsListedInOrder == ReadsSpec => []ListingsAreCausal
<1>1. ReadsInit => ListingInv
  BY DEF ReadsInit, ListingInv, ListingOK, NoAnswer
<1>2. EngineInv /\ ReadsOK /\ ListingInv /\ [ReadsNext]_<<allVars, readVars>> => ListingInv'
  BY ListingNext
<1>3. EngineInv /\ ListingInv => ListingsAreCausal
  BY ListingGives
<1> QED
  BY <1>1, <1>2, <1>3, ReadsInvariance, PTL DEF ReadsSpec

-----------------------------------------------------------------------------
(***************************************************************************)
(* What the queries of a conversation return.                              *)
(***************************************************************************)
LEMMA ThreadsRead ==
  ASSUME EngineInv, NEW id
  PROVE  LET threads == ThreadsOf(tables, id) IN
         \A t : /\ t \in DOMAIN threads <=> <<id, t>> \in DOMAIN tables.threads
                /\ t \in DOMAIN threads =>
                     /\ threads[t] = tables.threads[<<id, t>>].participants
                     /\ IsList(threads[t])
                     /\ \A p : Contains(threads[t], p) <=> p \in MembersByTables(<<id, t>>)
<1> DEFINE ids == {key[2] : key \in {k \in DOMAIN tables.threads : k[1] = id}}
           threads == ThreadsOf(tables, id)
<1>1. threads = [t \in ids |-> tables.threads[<<id, t>>].participants]
  BY DEF ThreadsOf
<1>2. \A k \in DOMAIN tables.threads : k = <<k[1], k[2]>>
  <2>1. \A k \in DOMAIN tables.threads : \E s : k = ThreadKey(Ev[s])
    BY DEF EngineInv, ProjectionOK, RowsOK
  <2> QED
    BY <2>1 DEF ThreadKey
<1>3. \A t : t \in ids <=> <<id, t>> \in DOMAIN tables.threads
  <2>1. \A t : <<id, t>>[1] = id /\ <<id, t>>[2] = t
    OBVIOUS
  <2> QED
    BY <1>2, <2>1, Zenon
<1> HIDE DEF ids
<1>4. ASSUME NEW t \in ids
      PROVE  /\ threads[t] = tables.threads[<<id, t>>].participants
             /\ IsList(threads[t])
             /\ \A p : Contains(threads[t], p) <=> p \in MembersByTables(<<id, t>>)
  <2> DEFINE list == tables.threads[<<id, t>>].participants
  <2>1. threads[t] = list
    BY <1>1
  <2>2. <<id, t>> \in DOMAIN tables.threads
    BY <1>3
  <2>3. IsList(list)
    BY <2>2 DEF EngineInv, ProjectionOK, TablesOK
  <2>4. MembersByTables(<<id, t>>) = Range(list)
    BY <2>2 DEF MembersByTables, ParticipantsRow
  <2> HIDE DEF list
  <2>5. \A p : Contains(list, p) <=> p \in Range(list)
    BY <2>3 DEF IsList, Contains, Range
  <2> QED
    BY <2>1, <2>3, <2>4, <2>5 DEF list
<1> QED
  BY <1>1, <1>3, <1>4

\* Every thread of the projection belongs to a conversation that is there.
LEMMA ConversationRead ==
  ASSUME EngineInv, NEW key \in DOMAIN tables.threads
  PROVE  key[1] \in tables.conversations
<1>1. RowsOK(Ev, tables, checkpoint)
  BY DEF EngineInv, ProjectionOK
<1>2. PICK s \in 1..checkpoint : Ev[s].type = "ThreadStarted" /\ key = ThreadKey(Ev[s])
  BY <1>1 DEF RowsOK
<1>3. Ev[s].conversation \in tables.conversations
  BY <1>1, <1>2 DEF RowsOK
<1> QED
  BY <1>2, <1>3 DEF ThreadKey

\* The thread of an event up to the checkpoint is in the projection.
LEMMA ThreadIsProjected ==
  ASSUME EngineInv, NEW s \in 1..checkpoint, EventAt(s).type # "ConversationCreated"
  PROVE  ThreadKey(EventAt(s)) \in DOMAIN tables.threads
<1> DEFINE e == EventAt(s)
<1>1. /\ LogOK(Ev) /\ RowsOK(Ev, tables, checkpoint)
      /\ checkpoint \in Nat /\ 1..checkpoint \subseteq DOMAIN log
      /\ \A n \in DOMAIN log : Ev[n] = EventAt(n)
  BY LoggedUpToCheckpoint DEF EngineInv, ApiInv, ProjectionOK
<1>2. s \in DOMAIN log
  BY <1>1
<1>3. /\ s \in Nat \ {0} /\ IsEvent(e)
      /\ e.type \in {"MessagePosted", "ParticipantAdded", "ParticipantRemoved"} =>
           StartedUpTo(e.conversation, e.thread, s - 1)
  BY <1>1, <1>2, EventsAreFounded
<1>4. \E n \in 1..checkpoint : Ev[n].type = "ThreadStarted" /\ ThreadKey(Ev[n]) = ThreadKey(e)
  <2>1. CASE e.type = "ThreadStarted"
    BY <1>1, <1>2, <2>1
  <2>2. CASE e.type # "ThreadStarted"
    <3>1. e.type \in {"MessagePosted", "ParticipantAdded", "ParticipantRemoved"}
      BY <1>3, <2>2 DEF IsEvent
    <3>2. PICK n \in DOMAIN log : /\ n <= s - 1 /\ EventAt(n).type = "ThreadStarted"
                                  /\ ThreadKey(EventAt(n)) = <<e.conversation, e.thread>>
      BY <1>3, <3>1 DEF StartedUpTo
    <3>3. n \in Nat \ {0}
      BY <1>1, EventsAreFounded
    <3>4. n \in 1..checkpoint
      BY <1>1, <1>3, <3>2, <3>3
    <3> QED
      BY <1>1, <3>2, <3>4 DEF ThreadKey
  <2> QED
    BY <2>1, <2>2
<1> QED
  BY <1>1, <1>4 DEF RowsOK

-----------------------------------------------------------------------------
(***************************************************************************)
(* Following a Location.                                                   *)
(***************************************************************************)

\* ChangedLater, Shows and what its parts read, for given events ev up to n.
Undone(ev, n, s, e, type) ==
  \E m \in (s + 1)..n : /\ ev[m].type = type
                        /\ ThreadKey(ev[m]) = ThreadKey(e)
                        /\ ev[m].participant = e.participant

ThreadsShow(threads, s, e, ev, n) ==
  /\ e.type # "ConversationCreated" => e.thread \in DOMAIN threads
  /\ e.type = "ParticipantAdded" =>
       Contains(threads[e.thread], e.participant) \/ Undone(ev, n, s, e, "ParticipantRemoved")
  /\ e.type = "ParticipantRemoved" =>
       ~ Contains(threads[e.thread], e.participant) \/ Undone(ev, n, s, e, "ParticipantAdded")

MessagesShow(messages, s, e) ==
  e.type = "MessagePosted" => MessageRow([sequence |-> s, event |-> e]) \in messages

ViewShows(view, s, e, ev, n) ==
  /\ e.type # "ConversationCreated" => e.thread \in DOMAIN view
  /\ e.type = "MessagePosted" => \E m \in view[e.thread].messages : m.sequence = s
  /\ e.type = "ParticipantAdded" =>
       \/ Contains(view[e.thread].participants, e.participant)
       \/ Undone(ev, n, s, e, "ParticipantRemoved")
  /\ e.type = "ParticipantRemoved" =>
       \/ ~ Contains(view[e.thread].participants, e.participant)
       \/ Undone(ev, n, s, e, "ParticipantAdded")

\* What the queries after CheckAfter have returned is all of the write.
FollowingOK(g, rq, dec, ev, n) ==
  g.pc = "rows" /\ g.url.kind = "location" =>
    LET seqs == rq[g.url.request].seqs
        b    == dec[g.url.request].batch
    IN  /\ ReturnedSequence(seqs) \in 1..n
        /\ "conversation" \in DOMAIN g.rows => g.rows.conversation
        /\ "threads" \in DOMAIN g.rows =>
             /\ g.rows.threads # <<>>
             /\ \A i \in DOMAIN seqs : ThreadsShow(g.rows.threads, seqs[i], b[i], ev, n)
        /\ "messages" \in DOMAIN g.rows =>
             \A i \in DOMAIN seqs : MessagesShow(g.rows.messages, seqs[i], b[i])

ShownOK(a, rq, dec, ev, n) ==
  a.status \in {"200", "404"} /\ a.url.kind = "location" =>
    /\ a.status = "200"
    /\ \A i \in DOMAIN rq[a.url.request].seqs :
         ViewShows(a.view, rq[a.url.request].seqs[i], dec[a.url.request].batch[i], ev, n)

FollowInv ==
  \A c \in Client : /\ FollowingOK(get[c], req, decision, Ev, checkpoint)
                    /\ ShownOK(answer[c], req, decision, Ev, checkpoint)

\* What was undone stays undone.
LEMMA UndoneStays ==
  ASSUME NEW ev, NEW ev2, NEW n \in Nat, NEW n2 \in Nat, n <= n2, 1..n \subseteq DOMAIN ev,
         \A s \in DOMAIN ev : ev2[s] = ev[s], NEW s \in Nat, NEW e, NEW type,
         Undone(ev, n, s, e, type)
  PROVE  Undone(ev2, n2, s, e, type)
<1>1. PICK m \in (s + 1)..n : /\ ev[m].type = type
                              /\ ThreadKey(ev[m]) = ThreadKey(e)
                              /\ ev[m].participant = e.participant
  BY DEF Undone
<1>2. m \in (s + 1)..n2 /\ m \in 1..n
  OBVIOUS
<1>3. ev2[m] = ev[m]
  BY <1>2
<1> QED
  BY <1>1, <1>2, <1>3 DEF Undone

LEMMA FollowStays ==
  ASSUME EngineInv, Grown
  PROVE  /\ \A g : RequestOK(g, req) /\ FollowingOK(g, req, decision, Ev, checkpoint) =>
              FollowingOK(g, req', decision', Ev', checkpoint')
         /\ \A a : AnsweredOK(a, req) /\ ShownOK(a, req, decision, Ev, checkpoint) =>
              ShownOK(a, req', decision', Ev', checkpoint')
<1>1. /\ checkpoint \in Nat /\ checkpoint' \in Nat /\ checkpoint <= checkpoint'
      /\ 1..checkpoint \subseteq DOMAIN log /\ DOMAIN Ev = DOMAIN log
      /\ \A s \in DOMAIN Ev : Ev'[s] = Ev[s]
  BY EventsStay DEF Grown, Ev
<1>2. ASSUME NEW r \in Request, NEW i \in DOMAIN req[r].seqs
      PROVE  req[r].seqs[i] \in Nat
  BY DEF EngineInv, IndInv, TypeOK
<1>3. \A s \in Nat : \A e, type : Undone(Ev, checkpoint, s, e, type) => Undone(Ev', checkpoint', s, e, type)
  <2> DEFINE ev == Ev
             ev2 == Ev'
             n == checkpoint
             n2 == checkpoint'
  <2>1. n \in Nat /\ n2 \in Nat /\ n <= n2 /\ 1..n \subseteq DOMAIN ev /\ \A s \in DOMAIN ev : ev2[s] = ev[s]
    BY <1>1
  <2> HIDE DEF ev, ev2, n, n2
  <2>2. \A s \in Nat : \A e, type : Undone(ev, n, s, e, type) => Undone(ev2, n2, s, e, type)
    BY <2>1, UndoneStays
  <2> QED
    BY <2>2 DEF ev, ev2, n, n2
<1> DEFINE Was(s, e, type) == Undone(Ev, checkpoint, s, e, type)
           Is(s, e, type)  == Undone(Ev', checkpoint', s, e, type)
<1>4. \A s \in Nat : \A e, threads :
        ThreadsShow(threads, s, e, Ev, checkpoint) => ThreadsShow(threads, s, e, Ev', checkpoint')
  <2> SUFFICES ASSUME NEW s \in Nat, NEW e, NEW threads, ThreadsShow(threads, s, e, Ev, checkpoint)
               PROVE  ThreadsShow(threads, s, e, Ev', checkpoint')
    OBVIOUS
  <2>1. \A type : Was(s, e, type) => Is(s, e, type)
    BY <1>3
  <2>2. /\ e.type # "ConversationCreated" => e.thread \in DOMAIN threads
        /\ e.type = "ParticipantAdded" =>
             Contains(threads[e.thread], e.participant) \/ Was(s, e, "ParticipantRemoved")
        /\ e.type = "ParticipantRemoved" =>
             ~ Contains(threads[e.thread], e.participant) \/ Was(s, e, "ParticipantAdded")
    BY DEF ThreadsShow
  <2> HIDE DEF Was, Is
  <2>3. /\ e.type = "ParticipantAdded" =>
             Contains(threads[e.thread], e.participant) \/ Is(s, e, "ParticipantRemoved")
        /\ e.type = "ParticipantRemoved" =>
             ~ Contains(threads[e.thread], e.participant) \/ Is(s, e, "ParticipantAdded")
    BY <2>1, <2>2
  <2> QED
    BY <2>2, <2>3 DEF ThreadsShow, Is
<1>5. \A s \in Nat : \A e, view :
        ViewShows(view, s, e, Ev, checkpoint) => ViewShows(view, s, e, Ev', checkpoint')
  <2> SUFFICES ASSUME NEW s \in Nat, NEW e, NEW view, ViewShows(view, s, e, Ev, checkpoint)
               PROVE  ViewShows(view, s, e, Ev', checkpoint')
    OBVIOUS
  <2>1. \A type : Was(s, e, type) => Is(s, e, type)
    BY <1>3
  <2>2. /\ e.type # "ConversationCreated" => e.thread \in DOMAIN view
        /\ e.type = "MessagePosted" => \E m \in view[e.thread].messages : m.sequence = s
        /\ e.type = "ParticipantAdded" =>
             Contains(view[e.thread].participants, e.participant) \/ Was(s, e, "ParticipantRemoved")
        /\ e.type = "ParticipantRemoved" =>
             ~ Contains(view[e.thread].participants, e.participant) \/ Was(s, e, "ParticipantAdded")
    BY DEF ViewShows
  <2> HIDE DEF Was, Is
  <2>3. /\ e.type = "ParticipantAdded" =>
             Contains(view[e.thread].participants, e.participant) \/ Is(s, e, "ParticipantRemoved")
        /\ e.type = "ParticipantRemoved" =>
             ~ Contains(view[e.thread].participants, e.participant) \/ Is(s, e, "ParticipantAdded")
    BY <2>1, <2>2
  <2> QED
    BY <2>2, <2>3 DEF ViewShows, Is
<1>6. \A r \in Request : req[r].state = "accepted" => req'[r] = req[r] /\ decision'[r] = decision[r]
  BY DEF Grown
<1>7. \A s : s \in 1..checkpoint => s \in 1..checkpoint'
  BY <1>1
<1>8. ASSUME NEW g, RequestOK(g, req), FollowingOK(g, req, decision, Ev, checkpoint)
      PROVE  FollowingOK(g, req', decision', Ev', checkpoint')
  <2> SUFFICES ASSUME g.pc = "rows", g.url.kind = "location"
               PROVE  FollowingOK(g, req', decision', Ev', checkpoint')
    BY DEF FollowingOK
  <2> DEFINE r == g.url.request
  <2>1. r \in Request /\ req[r].state = "accepted"
    BY <1>8 DEF RequestOK, Located
  <2>2. req'[r] = req[r] /\ decision'[r] = decision[r] /\ \A i \in DOMAIN req[r].seqs : req[r].seqs[i] \in Nat
    BY <1>2, <1>6, <2>1
  <2> HIDE DEF r
  <2> DEFINE seqs == req[r].seqs
             b    == decision[r].batch
  <2>3. /\ ReturnedSequence(seqs) \in 1..checkpoint
        /\ "conversation" \in DOMAIN g.rows => g.rows.conversation
        /\ "threads" \in DOMAIN g.rows =>
             /\ g.rows.threads # <<>>
             /\ \A i \in DOMAIN seqs : ThreadsShow(g.rows.threads, seqs[i], b[i], Ev, checkpoint)
        /\ "messages" \in DOMAIN g.rows =>
             \A i \in DOMAIN seqs : MessagesShow(g.rows.messages, seqs[i], b[i])
    BY <1>8 DEF FollowingOK, r
  <2>4. req'[r].seqs = seqs /\ decision'[r].batch = b
    BY <2>2
  <2>5. ReturnedSequence(seqs) \in 1..checkpoint'
    BY <1>7, <2>3
  <2>6. \A i \in DOMAIN seqs : ThreadsShow(g.rows.threads, seqs[i], b[i], Ev, checkpoint) =>
                               ThreadsShow(g.rows.threads, seqs[i], b[i], Ev', checkpoint')
    BY <1>4, <2>2
  <2> HIDE DEF seqs, b
  <2> QED
    BY <2>3, <2>4, <2>5, <2>6, Zenon DEF FollowingOK, r
<1>9. ASSUME NEW a, AnsweredOK(a, req), ShownOK(a, req, decision, Ev, checkpoint)
      PROVE  ShownOK(a, req', decision', Ev', checkpoint')
  <2> SUFFICES ASSUME a.status \in {"200", "404"}, a.url.kind = "location"
               PROVE  ShownOK(a, req', decision', Ev', checkpoint')
    BY DEF ShownOK
  <2> DEFINE r == a.url.request
  <2>1. r \in Request /\ req[r].state = "accepted"
    BY <1>9 DEF AnsweredOK, Located
  <2>2. req'[r] = req[r] /\ decision'[r] = decision[r] /\ \A i \in DOMAIN req[r].seqs : req[r].seqs[i] \in Nat
    BY <1>2, <1>6, <2>1
  <2> HIDE DEF r
  <2>3. /\ a.status = "200"
        /\ \A i \in DOMAIN req[r].seqs :
             ViewShows(a.view, req[r].seqs[i], decision[r].batch[i], Ev, checkpoint)
    BY <1>9 DEF ShownOK, r
  <2>4. \A i \in DOMAIN req[r].seqs :
             ViewShows(a.view, req[r].seqs[i], decision[r].batch[i], Ev', checkpoint')
    BY <1>5, <2>2, <2>3
  <2>5. \A i \in DOMAIN req'[r].seqs :
             ViewShows(a.view, req'[r].seqs[i], decision'[r].batch[i], Ev', checkpoint')
    BY <2>2, <2>4
  <2> QED
    BY <2>3, <2>5 DEF ShownOK, r
<1> QED
  BY <1>8, <1>9

\* Once the checkpoint has reached the number of a write, each of the three
\* queries of Get shows what it can show of it.
LEMMA ProjectedIsRead ==
  ASSUME EngineInv, ReadYourWrites, NEW r \in Request, req[r].state = "accepted",
         ReturnedSequence(req[r].seqs) \in 1..checkpoint, NEW id, id = decision[r].batch[1].conversation
  PROVE  /\ id \in tables.conversations
         /\ ThreadsOf(tables, id) # <<>>
         /\ \A i \in DOMAIN req[r].seqs :
              /\ ThreadsShow(ThreadsOf(tables, id), req[r].seqs[i], decision[r].batch[i], Ev, checkpoint)
              /\ MessagesShow({m \in tables.messages : m.conversation = id},
                              req[r].seqs[i], decision[r].batch[i])
<1> DEFINE threads == ThreadsOf(tables, id)
<1>1. checkpoint \in Nat /\ 1..checkpoint \subseteq DOMAIN log /\ \A s \in DOMAIN log : Ev[s] = EventAt(s)
  BY LoggedUpToCheckpoint
<1>2. Projected(r) /\ Committed(r)
  <2>1. checkpoint >= ReturnedSequence(req[r].seqs)
    BY <1>1
  <2> QED
    BY <2>1 DEF Projected, Committed
<1>3. /\ BatchOK(decision[r].batch, r, {EventAt(n) : n \in Before(r)})
      /\ DOMAIN req[r].seqs = DOMAIN decision[r].batch
  BY <1>2, CommittedBatch
<1>4. \A i \in DOMAIN req[r].seqs : Visible(req[r].seqs[i], decision[r].batch[i])
  BY <1>2 DEF ReadYourWrites
<1>5. ASSUME NEW i \in DOMAIN req[r].seqs
      PROVE  /\ req[r].seqs[i] \in 1..checkpoint
             /\ EventAt(req[r].seqs[i]) = decision[r].batch[i]
  BY <1>2, <1>3, ProjectedRows
<1>6. ASSUME NEW i \in DOMAIN req[r].seqs
      PROVE  decision[r].batch[i].conversation = id
  BY <1>3 DEF BatchOK
<1>7. ASSUME NEW i \in DOMAIN req[r].seqs, decision[r].batch[i].type # "ConversationCreated"
      PROVE  /\ ThreadKey(decision[r].batch[i]) \in DOMAIN tables.threads
             /\ ThreadKey(decision[r].batch[i]) = <<id, decision[r].batch[i].thread>>
             /\ decision[r].batch[i].thread \in DOMAIN threads
  <2>1. ThreadKey(decision[r].batch[i]) \in DOMAIN tables.threads
    BY <1>5, <1>7, ThreadIsProjected
  <2>2. ThreadKey(decision[r].batch[i]) = <<id, decision[r].batch[i].thread>>
    BY <1>6 DEF ThreadKey
  <2> QED
    BY <2>1, <2>2, ThreadsRead
<1>8. PICK k \in DOMAIN req[r].seqs : decision[r].batch[k].type # "ConversationCreated"
  <2>1. 1 \in DOMAIN decision[r].batch
    BY <1>3 DEF BatchOK, IsBatch
  <2>2. CASE decision[r].batch[1].type = "ConversationCreated"
    BY <1>3, <2>1, <2>2 DEF BatchOK
  <2> QED
    BY <1>3, <2>1, <2>2
<1>9. id \in tables.conversations
  <2> DEFINE key == ThreadKey(decision[r].batch[k])
  <2>1. key \in DOMAIN tables.threads /\ key = <<id, decision[r].batch[k].thread>>
    BY <1>7, <1>8
  <2> HIDE DEF key
  <2>2. key[1] \in tables.conversations
    BY <2>1, ConversationRead
  <2> QED
    BY <2>1, <2>2
<1>10. threads # <<>>
  BY <1>7, <1>8
<1>11. ASSUME NEW i \in DOMAIN req[r].seqs
       PROVE  /\ ThreadsShow(threads, req[r].seqs[i], decision[r].batch[i], Ev, checkpoint)
              /\ MessagesShow({m \in tables.messages : m.conversation = id},
                              req[r].seqs[i], decision[r].batch[i])
  <2> DEFINE s == req[r].seqs[i]
             e == decision[r].batch[i]
  <2>1. Visible(s, e) /\ s \in 1..checkpoint /\ e.conversation = id
    BY <1>4, <1>5, <1>6
  <2>2. e.type # "ConversationCreated" => /\ ThreadKey(e) = <<id, e.thread>>
                                          /\ e.thread \in DOMAIN threads
    BY <1>7
  <2> HIDE DEF s, e
  <2>3. ASSUME NEW type, ChangedLater(s, e, type)
        PROVE  Undone(Ev, checkpoint, s, e, type)
    <3>1. PICK n \in (s + 1)..checkpoint : /\ EventAt(n).type = type
                                           /\ ThreadKey(EventAt(n)) = ThreadKey(e)
                                           /\ EventAt(n).participant = e.participant
      BY <2>3 DEF ChangedLater
    <3>2. n \in 1..checkpoint
      BY <1>1, <2>1
    <3>3. Ev[n] = EventAt(n)
      BY <1>1, <3>2
    <3> QED
      BY <3>1, <3>3 DEF Undone
  <2>4. e.type # "ConversationCreated" =>
          \A p : Contains(threads[e.thread], p) <=> p \in MembersByTables(ThreadKey(e))
    BY <2>2, ThreadsRead
  <2>5. e.type = "ParticipantAdded" =>
          Contains(threads[e.thread], e.participant) \/ Undone(Ev, checkpoint, s, e, "ParticipantRemoved")
    <3>1. SUFFICES ASSUME e.type = "ParticipantAdded"
                   PROVE  \/ Contains(threads[e.thread], e.participant)
                          \/ Undone(Ev, checkpoint, s, e, "ParticipantRemoved")
      OBVIOUS
    <3>2. e.participant \in MembersByTables(ThreadKey(e)) \/ ChangedLater(s, e, "ParticipantRemoved")
      BY <2>1, <3>1 DEF Visible
    <3> QED
      BY <2>3, <2>4, <3>1, <3>2
  <2>6. e.type = "ParticipantRemoved" =>
          ~ Contains(threads[e.thread], e.participant) \/ Undone(Ev, checkpoint, s, e, "ParticipantAdded")
    <3>1. SUFFICES ASSUME e.type = "ParticipantRemoved"
                   PROVE  \/ ~ Contains(threads[e.thread], e.participant)
                          \/ Undone(Ev, checkpoint, s, e, "ParticipantAdded")
      OBVIOUS
    <3>2. e.participant \notin MembersByTables(ThreadKey(e)) \/ ChangedLater(s, e, "ParticipantAdded")
      BY <2>1, <3>1 DEF Visible
    <3> QED
      BY <2>3, <2>4, <3>1, <3>2
  <2>7. ThreadsShow(threads, s, e, Ev, checkpoint)
    BY <2>2, <2>5, <2>6, Zenon DEF ThreadsShow
  <2>8. MessagesShow({m \in tables.messages : m.conversation = id}, s, e)
    <3>1. SUFFICES ASSUME e.type = "MessagePosted"
                   PROVE  MessageRow([sequence |-> s, event |-> e])
                            \in {m \in tables.messages : m.conversation = id}
      BY DEF MessagesShow
    <3>2. MessageRow([sequence |-> s, event |-> e]) \in tables.messages
      BY <2>1, <3>1 DEF Visible
    <3>3. MessageRow([sequence |-> s, event |-> e]).conversation = id
      BY <2>1 DEF MessageRow
    <3> QED
      BY <3>2, <3>3
  <2> QED
    BY <2>7, <2>8 DEF s, e
<1> QED
  BY <1>9, <1>10, <1>11

\* A view is put together from threads and messages, and shows what they do.
LEMMA ViewIsShown ==
  ASSUME NEW threads, NEW messages, NEW s, NEW e, NEW ev, NEW n, IsEvent(e),
         ThreadsShow(threads, s, e, ev, n), MessagesShow(messages, s, e)
  PROVE  ViewShows(View(threads, messages), s, e, ev, n)
<1> DEFINE view == View(threads, messages)
<1>1. /\ DOMAIN view = DOMAIN threads
      /\ \A t \in DOMAIN threads : /\ view[t].participants = threads[t]
                                   /\ view[t].messages = {m \in messages : m.thread = t}
  BY DEF View
<1>2. MessageRow([sequence |-> s, event |-> e]).thread = e.thread
      /\ MessageRow([sequence |-> s, event |-> e]).sequence = s
  BY DEF MessageRow
<1> HIDE DEF view
<1>3. e.type # "ConversationCreated" => e.thread \in DOMAIN view
  BY <1>1 DEF ThreadsShow
<1>4. e.type = "MessagePosted" => \E m \in view[e.thread].messages : m.sequence = s
  <2>1. SUFFICES ASSUME e.type = "MessagePosted"
                 PROVE  \E m \in view[e.thread].messages : m.sequence = s
    OBVIOUS
  <2>2. e.thread \in DOMAIN threads
    BY <2>1 DEF ThreadsShow
  <2>3. MessageRow([sequence |-> s, event |-> e]) \in messages
    BY <2>1 DEF MessagesShow
  <2>4. MessageRow([sequence |-> s, event |-> e]) \in view[e.thread].messages
    BY <1>1, <1>2, <2>2, <2>3
  <2> QED
    BY <1>2, <2>4
<1>5. e.type \in {"ParticipantAdded", "ParticipantRemoved"} => view[e.thread].participants = threads[e.thread]
  BY <1>1 DEF ThreadsShow
<1>6. ViewShows(view, s, e, ev, n)
  BY <1>3, <1>4, <1>5 DEF ViewShows, ThreadsShow
<1> QED
  BY <1>6 DEF view

LEMMA FollowingGoesOn ==
  ASSUME EngineInv, ReadYourWrites, ReadsOK, NEW c \in Client,
         FollowingOK(get[c], req, decision, Ev, checkpoint), GoesOn(c)
  PROVE  FollowingOK(get'[c], req, decision, Ev, checkpoint)
<1> DEFINE g == get[c]
           r == g.url.request
           seqs == req[r].seqs
           b == decision[r].batch
           new == get'[c]
<1>1. RequestOK(g, req)
  BY DEF ReadsOK
<1>2. CASE g.pc \in {"ids", "each", "messages"}
  <2>0. PICK pc, url, since, rows : pc # "rows" /\ new = Asking(pc, url, since, rows)
    BY <1>2 DEF GoesOn
  <2>1. new.pc # "rows"
    BY <2>0, AskingFields
  <2> QED
    BY <2>1 DEF FollowingOK
<1>3. CASE g.pc = "after"
  <2>1. /\ CaughtUp(ReturnedSequence(seqs))
        /\ new = Asking("rows", g.url, g.since, <<>>)
    BY <1>3 DEF GoesOn
  <2>2. g.url.kind = "location"
    BY <1>1, <1>3 DEF RequestOK, Queries
  <2>3. r \in Request /\ req[r].state = "accepted"
    BY <1>1, <1>3, <2>2 DEF RequestOK, Located
  <2>4. Projected(r) /\ Committed(r)
    BY <2>1, <2>3 DEF Projected, CaughtUp, Committed
  <2>5. /\ DOMAIN seqs = DOMAIN b /\ IsBatch(b)
        /\ seqs \in Seq(Nat)
    BY <2>3, <2>4, CommittedBatch DEF BatchOK
  <2>6. Len(seqs) \in DOMAIN b
    <3> HIDE DEF seqs, b
    <3> QED
      BY <2>5 DEF IsBatch
  <2>7. ReturnedSequence(seqs) \in 1..checkpoint
    BY <2>3, <2>4, <2>6, ProjectedRows DEF ReturnedSequence
  <2>8. new.url = g.url /\ new.rows = <<>>
    BY <2>1 DEF Asking
  <2>9. DOMAIN new.rows = {}
    BY <2>8
  <2> QED
    BY <2>7, <2>8, <2>9 DEF FollowingOK
<1>4. CASE g.pc = "rows"
  <2> SUFFICES ASSUME new.pc = "rows", new.url.kind = "location"
               PROVE  FollowingOK(new, req, decision, Ev, checkpoint)
    BY DEF FollowingOK
  <2>1. PICK table \in {"conversation", "threads", "messages"} :
          new = Asking("rows", g.url, g.since, Put(g.rows, table, Queried(c, table)))
    BY <1>4 DEF GoesOn
  <2>2. new.url = g.url /\ new.rows = Put(g.rows, table, Queried(c, table))
    BY <2>1 DEF Asking
  <2>3. r \in Request /\ req[r].state = "accepted" /\ g.url.kind = "location"
    BY <1>1, <1>4, <2>2 DEF RequestOK, Located
  <2>4. /\ ReturnedSequence(seqs) \in 1..checkpoint
        /\ "conversation" \in DOMAIN g.rows => g.rows["conversation"]
        /\ "threads" \in DOMAIN g.rows =>
             /\ g.rows["threads"] # <<>>
             /\ \A i \in DOMAIN seqs : ThreadsShow(g.rows["threads"], seqs[i], b[i], Ev, checkpoint)
        /\ "messages" \in DOMAIN g.rows =>
             \A i \in DOMAIN seqs : MessagesShow(g.rows["messages"], seqs[i], b[i])
    BY <1>4, <2>3 DEF FollowingOK
  <2> DEFINE id == ConversationOf(g.url)
  <2>5. id = decision[r].batch[1].conversation
    BY <2>3 DEF ConversationOf
  <2> HIDE DEF id
  <2>6. /\ id \in tables.conversations
        /\ ThreadsOf(tables, id) # <<>>
        /\ \A i \in DOMAIN seqs :
             /\ ThreadsShow(ThreadsOf(tables, id), seqs[i], b[i], Ev, checkpoint)
             /\ MessagesShow({m \in tables.messages : m.conversation = id}, seqs[i], b[i])
    BY <2>3, <2>4, <2>5, ProjectedIsRead
  <2> DEFINE value == Queried(c, table)
  <2>7. /\ table = "conversation" => value
        /\ table = "threads" => value = ThreadsOf(tables, id)
        /\ table = "messages" => value = {m \in tables.messages : m.conversation = id}
    BY <2>6 DEF Queried, id
  <2>8. /\ DOMAIN new.rows = DOMAIN g.rows \cup {table}
        /\ new.rows[table] = value
        /\ \A k \in DOMAIN g.rows : k # table => new.rows[k] = g.rows[k]
    <3> DEFINE rows == g.rows
               all  == new.rows
    <3>1. all = Put(rows, table, value)
      BY <2>2
    <3> HIDE DEF rows, all, value
    <3>2. /\ DOMAIN all = DOMAIN rows \cup {table}
          /\ all[table] = value
          /\ \A k \in DOMAIN rows : k # table => all[k] = rows[k]
      BY <3>1 DEF Put
    <3> QED
      BY <3>2 DEF rows, all
  <2> HIDE DEF value, seqs, b, r, g, new
  <2>9. "conversation" \in DOMAIN new.rows => new.rows["conversation"]
    BY <2>4, <2>7, <2>8
  <2>10. "threads" \in DOMAIN new.rows =>
             /\ new.rows["threads"] # <<>>
             /\ \A i \in DOMAIN seqs : ThreadsShow(new.rows["threads"], seqs[i], b[i], Ev, checkpoint)
    BY <2>4, <2>6, <2>7, <2>8
  <2>11. "messages" \in DOMAIN new.rows =>
             \A i \in DOMAIN seqs : MessagesShow(new.rows["messages"], seqs[i], b[i])
    BY <2>4, <2>6, <2>7, <2>8
  <2> QED
    BY <2>2, <2>4, <2>9, <2>10, <2>11 DEF FollowingOK, seqs, b, r
<1> QED
  BY <1>2, <1>3, <1>4 DEF GoesOn

LEMMA FollowingAnswers ==
  ASSUME EngineInv, ReadsOK, NEW c \in Client,
         FollowingOK(get[c], req, decision, Ev, checkpoint), Answers(c)
  PROVE  ShownOK(answer'[c], req, decision, Ev, checkpoint)
<1> DEFINE g == get[c]
           r == g.url.request
           seqs == req[r].seqs
           b == decision[r].batch
<1>1. RequestOK(g, req)
  BY DEF ReadsOK
<1>2. CASE GivesNothing(c)
  BY <1>2 DEF GivesNothing, Gives, ShownOK
<1>3. CASE GivesParticipant(c) \/ GivesEvents(c)
  <2>1. g.pc \in {"each", "events"} /\ answer'[c].url = g.url
    <3>1. PICK status, view : g.pc \in {"each", "events"} /\ Gives(c, status, view)
      BY <1>3 DEF GivesParticipant, GivesEvents
    <3> QED
      BY <3>1, GivesFields
  <2>2. g.url.kind # "location"
    BY <1>1, <2>1 DEF RequestOK, Queries
  <2> QED
    BY <2>1, <2>2 DEF ShownOK
<1>4. CASE GivesConversation(c)
  <2> SUFFICES ASSUME g.url.kind = "location"
               PROVE  ShownOK(answer'[c], req, decision, Ev, checkpoint)
    BY <1>4 DEF GivesConversation, Gives, ShownOK
  <2>1. g.pc = "rows" /\ DOMAIN g.rows = {"conversation", "threads", "messages"}
    BY <1>4 DEF GivesConversation
  <2>2. /\ g.rows.conversation
        /\ g.rows.threads # <<>>
        /\ \A i \in DOMAIN seqs : ThreadsShow(g.rows.threads, seqs[i], b[i], Ev, checkpoint)
        /\ \A i \in DOMAIN seqs : MessagesShow(g.rows.messages, seqs[i], b[i])
    BY <2>1 DEF FollowingOK
  <2>3. Gives(c, "200", View(g.rows.threads, g.rows.messages))
    BY <1>4, <2>2 DEF GivesConversation
  <2>4. r \in Request /\ req[r].state = "accepted"
    BY <1>1, <2>1 DEF RequestOK, Located
  <2>5. \A i \in DOMAIN seqs : IsEvent(b[i])
    <3>1. Committed(r)
      BY <2>4 DEF Committed
    <3> QED
      BY <2>4, <3>1, CommittedBatch DEF BatchOK
  <2>6. \A i \in DOMAIN seqs :
          ViewShows(View(g.rows.threads, g.rows.messages), seqs[i], b[i], Ev, checkpoint)
    BY <2>2, <2>5, ViewIsShown
  <2>7. /\ answer'[c].status = "200" /\ answer'[c].url = g.url
        /\ answer'[c].view = View(g.rows.threads, g.rows.messages)
    BY <2>3 DEF Gives
  <2> QED
    BY <2>6, <2>7 DEF ShownOK
<1> QED
  BY <1>2, <1>3, <1>4 DEF Answers

LEMMA FollowNext ==
  ASSUME EngineInv, ReadYourWrites, ReadsOK, FollowInv, [ReadsNext]_<<allVars, readVars>>
  PROVE  FollowInv'
<1>1. Grown
  BY ReadsStep
<1>2. CASE UNCHANGED <<get, answer>>
  <2>1. \A c \in Client : /\ FollowingOK(get[c], req', decision', Ev', checkpoint')
                          /\ ShownOK(answer[c], req', decision', Ev', checkpoint')
    BY <1>1, FollowStays DEF ReadsOK, FollowInv
  <2> QED
    BY <1>2, <2>1 DEF FollowInv
<1>3. ASSUME NEW c \in Client, ClientStep(c), UNCHANGED allVars
      PROVE  FollowInv'
  <2>1. /\ \A d \in Client : d # c => get'[d] = get[d] /\ answer'[d] = answer[d]
        /\ \/ answer'[c] = answer[c] /\ ((\E url \in Url : \E pc : Asks(c, url, pc)) \/ GoesOn(c))
           \/ get'[c] = Ready /\ Answers(c)
    BY <1>3, ClientEffect
  <2>2. ASSUME NEW url \in Url, NEW pc, Asks(c, url, pc)
        PROVE  FollowingOK(get'[c], req, decision, Ev, checkpoint)
    <3>1. get'[c] = Asking(pc, url, 0, <<>>) /\ (url.kind = "location" => pc = "after")
      BY <2>2 DEF Asks
    <3>2. ~ (get'[c].pc = "rows" /\ get'[c].url.kind = "location")
      BY <3>1, AskingFields
    <3> QED
      BY <3>2 DEF FollowingOK
  <2>3. FollowingOK(Ready, req, decision, Ev, checkpoint)
    BY DEF FollowingOK, Ready
  <2>4. /\ FollowingOK(get'[c], req, decision, Ev, checkpoint)
        /\ ShownOK(answer'[c], req, decision, Ev, checkpoint)
    BY <2>1, <2>2, <2>3, FollowingGoesOn, FollowingAnswers DEF FollowInv
  <2>5. \A d \in Client : /\ FollowingOK(get'[d], req, decision, Ev, checkpoint)
                          /\ ShownOK(answer'[d], req, decision, Ev, checkpoint)
    BY <2>1, <2>4 DEF FollowInv
  <2>6. req' = req /\ decision' = decision /\ log' = log /\ checkpoint' = checkpoint
    BY <1>3 DEF allVars, vars, engineVars
  <2>7. Ev' = Ev
    BY <2>6 DEF Ev, EventAt
  <2> QED
    BY <2>5, <2>6, <2>7 DEF FollowInv
<1> QED
  BY <1>2, <1>3, ReadsStep

LEMMA FollowGives ==
  ASSUME EngineInv, ReadsOK, FollowInv
  PROVE  FollowedIsShown
<1>1. SUFFICES ASSUME NEW c \in Client, NEW r, r = answer[c].url.request,
                      answer[c].status \in {"200", "404"}, answer[c].url.kind = "location"
               PROVE  /\ answer[c].status = "200"
                      /\ \A i \in DOMAIN req[r].seqs :
                           Shows(answer[c].view, req[r].seqs[i], decision[r].batch[i])
  BY DEF FollowedIsShown
<1>2. r \in Request /\ req[r].state = "accepted"
  BY <1>1 DEF ReadsOK, AnsweredOK, Located
<1>3. /\ answer[c].status = "200"
      /\ \A i \in DOMAIN req[r].seqs :
           ViewShows(answer[c].view, req[r].seqs[i], decision[r].batch[i], Ev, checkpoint)
  BY <1>1 DEF FollowInv, ShownOK
<1>4. /\ BatchOK(decision[r].batch, r, {EventAt(n) : n \in Before(r)})
      /\ DOMAIN req[r].seqs = DOMAIN decision[r].batch
      /\ req[r].seqs \in Seq(Nat)
  BY <1>2, CommittedBatch DEF Committed
<1>5. ASSUME NEW i \in DOMAIN req[r].seqs
      PROVE  Shows(answer[c].view, req[r].seqs[i], decision[r].batch[i])
  <2> DEFINE s == req[r].seqs[i]
             e == decision[r].batch[i]
             view == answer[c].view
  <2>1. ViewShows(view, s, e, Ev, checkpoint) /\ IsEvent(e) /\ s \in Nat
    <3>1. ViewShows(view, s, e, Ev, checkpoint)
      BY <1>3
    <3>2. IsEvent(e)
      BY <1>4 DEF BatchOK
    <3>3. s \in Nat
      BY <1>4
    <3> QED
      BY <3>1, <3>2, <3>3
  <2> HIDE DEF s, e, view
  <2>2. ASSUME NEW type, Undone(Ev, checkpoint, s, e, type)
        PROVE  ChangedLater(s, e, type)
    <3>1. PICK n \in (s + 1)..checkpoint : /\ Ev[n].type = type
                                           /\ ThreadKey(Ev[n]) = ThreadKey(e)
                                           /\ Ev[n].participant = e.participant
      BY <2>2 DEF Undone
    <3>2. n \in 1..checkpoint
      BY <2>1, LoggedUpToCheckpoint
    <3>3. Ev[n] = EventAt(n)
      BY <3>2, LoggedUpToCheckpoint
    <3> QED
      BY <3>1, <3>3 DEF ChangedLater
  <2>3. e.type \in {"ConversationCreated", "ThreadStarted", "MessagePosted",
                    "ParticipantAdded", "ParticipantRemoved"}
    BY <2>1 DEF IsEvent
  <2>4. Shows(view, s, e)
    BY <2>1, <2>2, <2>3 DEF Shows, ViewShows
  <2> QED
    BY <2>4 DEF s, e, view
<1> QED
  BY <1>3, <1>5

LEMMA ReadsAreEngineSteps == ReadsSpec => EngineSpec
<1>1. ReadsInit => EngineInit
  BY DEF ReadsInit
<1>2. [ReadsNext]_<<allVars, readVars>> => [EngineNext]_allVars
  BY DEF ReadsNext
<1> QED
  BY <1>1, <1>2, PTL DEF ReadsSpec, EngineSpec

\* With one relay, a client that follows the Location of its write is
\* answered 202 or sees all of the write, however many writes and other
\* reads go on meanwhile.
THEOREM FollowedLocationShowsWrite ==
  ASSUME OneRelay
  PROVE  ReadsSpec => []FollowedIsShown
<1>1. ReadsInit => FollowInv
  BY DEF ReadsInit, FollowInv, FollowingOK, ShownOK, Ready, NoAnswer
<1>2. EngineInv /\ ReadYourWrites /\ ReadsOK /\ FollowInv /\ [ReadsNext]_<<allVars, readVars>> => FollowInv'
  BY FollowNext
<1>3. EngineInv /\ ReadsOK /\ FollowInv => FollowedIsShown
  BY FollowGives
<1>4. ReadsSpec => []ReadYourWrites
  BY ReadsAreEngineSteps, WritesAreRead, PTL
<1> QED
  BY <1>1, <1>2, <1>3, <1>4, ReadsInvariance, PTL DEF ReadsSpec

-----------------------------------------------------------------------------
(***************************************************************************)
(* The conversations of a participant.                                     *)
(***************************************************************************)
LEMMA ParticipantRead ==
  ASSUME EngineInv, NEW id, NEW p
  PROVE  LET threads == ThreadsOfParticipant(id, p) IN
         /\ \A t : t \in DOMAIN threads <=> /\ <<id, t>> \in DOMAIN tables.threads
                                            /\ p \in MembersByTables(<<id, t>>)
         /\ threads = <<>> <=> DOMAIN threads = {}
<1> DEFINE all  == ThreadsOf(tables, id)
           mine == {u \in DOMAIN all : Contains(all[u], p)}
           threads == ThreadsOfParticipant(id, p)
<1>1. threads = [t \in mine |-> all[t]]
  BY DEF ThreadsOfParticipant
<1>2. \A t : t \in mine <=> <<id, t>> \in DOMAIN tables.threads /\ p \in MembersByTables(<<id, t>>)
  BY ThreadsRead
<1> HIDE DEF mine, all
<1>3. DOMAIN threads = mine
  BY <1>1
<1>4. mine = {} => [t \in mine |-> all[t]] = <<>>
  OBVIOUS
<1>5. DOMAIN (<<>>) = {}
  OBVIOUS
<1> QED
  BY <1>1, <1>2, <1>3, <1>4, <1>5

\* The first query was made at a checkpoint that has been reached.
SinceInv ==
  \A c \in Client : get[c].since \in 0..checkpoint /\ answer[c].since \in 0..checkpoint

LEMMA SinceNext ==
  ASSUME EngineInv, ReadsOK, SinceInv, [ReadsNext]_<<allVars, readVars>>
  PROVE  SinceInv'
<1>1. checkpoint \in Nat /\ checkpoint' \in Nat /\ checkpoint <= checkpoint'
  BY ReadsStep DEF Grown
<1>2. \A n : n \in 0..checkpoint => n \in 0..checkpoint'
  BY <1>1
<1>3. CASE UNCHANGED <<get, answer>>
  BY <1>2, <1>3 DEF SinceInv
<1>4. ASSUME NEW c \in Client, ClientStep(c)
      PROVE  SinceInv'
  <2>1. /\ \A d \in Client : d # c => get'[d] = get[d] /\ answer'[d] = answer[d]
        /\ \/ answer'[c] = answer[c] /\ ((\E url \in Url : \E pc : Asks(c, url, pc)) \/ GoesOn(c))
           \/ get'[c] = Ready /\ Answers(c)
    BY <1>4, ClientEffect
  <2>2. 0 \in 0..checkpoint /\ checkpoint \in 0..checkpoint
    BY <1>1
  <2>3. ASSUME NEW url \in Url, NEW pc, Asks(c, url, pc)
        PROVE  get'[c].since = 0
    BY <2>3, AskingFields DEF Asks
  <2>4. ASSUME GoesOn(c)
        PROVE  get'[c].since \in {get[c].since, checkpoint}
    <3>1. PICK pc, url, rows : \/ get'[c] = Asking(pc, url, get[c].since, rows)
                               \/ get'[c] = Asking(pc, url, checkpoint, rows)
      BY <2>4 DEF GoesOn
    <3> QED
      BY <3>1, AskingFields
  <2>5. ASSUME Answers(c)
        PROVE  answer'[c].since = get[c].since
    <3>1. PICK status, view : Gives(c, status, view)
      BY <2>5 DEF Answers, GivesConversation, GivesParticipant, GivesEvents, GivesNothing
    <3> QED
      BY <3>1, GivesFields
  <2>6. Ready.since = 0
    BY DEF Ready
  <2>7. get'[c].since \in 0..checkpoint /\ answer'[c].since \in 0..checkpoint
    BY <2>1, <2>2, <2>3, <2>4, <2>5, <2>6 DEF SinceInv
  <2>8. \A d \in Client : get'[d].since \in 0..checkpoint /\ answer'[d].since \in 0..checkpoint
    BY <2>1, <2>7 DEF SinceInv
  <2> QED
    BY <1>2, <2>8 DEF SinceInv
<1> QED
  BY <1>3, <1>4, ReadsStep

LEMMA SinceAlways == ReadsSpec => []SinceInv
<1>1. ReadsInit => SinceInv
  <2>1. EngineInit => checkpoint \in Nat
    BY InitEngineInv, LoggedUpToCheckpoint
  <2>2. checkpoint \in Nat => 0 \in 0..checkpoint
    OBVIOUS
  <2> QED
    BY <2>1, <2>2 DEF ReadsInit, SinceInv, Ready, NoAnswer
<1>2. EngineInv /\ ReadsOK /\ SinceInv /\ [ReadsNext]_<<allVars, readVars>> => SinceInv'
  BY SinceNext
<1> QED
  BY <1>1, <1>2, ReadsInvariance, PTL DEF ReadsSpec

\* By the events up to n, participant p is on a thread of conversation id.
OnThread(ev, n, id, p) ==
  \E t : \E s \in 1..n : /\ p \in Joined(ev[s], <<id, t>>)
                         /\ \A m \in (s + 1)..n : p \notin Left(ev[m], <<id, t>>)

RemovedSince(ev, n, since, id, p) ==
  \E s \in (since + 1)..n : /\ ev[s].type = "ParticipantRemoved"
                            /\ ev[s].conversation = id
                            /\ ev[s].participant = p

ViewsOK(views, p, since, ev, n) ==
  \A id \in DOMAIN views : views[id] = <<>> => RemovedSince(ev, n, since, id, p)

\* The ids still to be read are those of conversations in which p was on a
\* thread at the first query.
CollectingOK(g, ev, n) ==
  /\ g.pc \in {"each", "messages"} =>
       /\ \A id \in g.rows.todo : OnThread(ev, g.since, id, g.url.id)
       /\ ViewsOK(g.rows.views, g.url.id, g.since, ev, n)
  /\ g.pc = "messages" =>
       (DOMAIN g.rows.threads = {} => RemovedSince(ev, n, g.since, g.rows.id, g.url.id))

CollectedOK(a, ev, n) ==
  a.status = "200" /\ a.url.kind = "participant" => ViewsOK(a.view, a.url.id, a.since, ev, n)

CollectInv ==
  \A c \in Client : CollectingOK(get[c], Ev, checkpoint) /\ CollectedOK(answer[c], Ev, checkpoint)

\* A conversation that is listed by the first query has a thread with p on it.
LEMMA ListedIsOnThread ==
  ASSUME EngineInv, ExactlyOnceInOrder, NEW p, NEW id \in ConversationsOfParticipant(p)
  PROVE  OnThread(Ev, checkpoint, id, p)
<1>1. ThreadsOfParticipant(id, p) # <<>>
  BY DEF ConversationsOfParticipant
<1>2. PICK t : <<id, t>> \in DOMAIN tables.threads /\ p \in MembersByTables(<<id, t>>)
  BY <1>1, ParticipantRead
<1>3. PICK s \in 1..checkpoint : /\ p \in Joined(EventAt(s), <<id, t>>)
                                 /\ \A n \in (s + 1)..checkpoint : p \notin Left(EventAt(n), <<id, t>>)
  BY <1>2, MembersInOrder
<1>4. checkpoint \in Nat /\ \A n \in 1..checkpoint : Ev[n] = EventAt(n)
  BY LoggedUpToCheckpoint
<1>5. \A n \in (s + 1)..checkpoint : n \in 1..checkpoint
  BY <1>4
<1>6. p \in Joined(Ev[s], <<id, t>>) /\ \A n \in (s + 1)..checkpoint : p \notin Left(Ev[n], <<id, t>>)
  BY <1>3, <1>4, <1>5
<1> QED
  BY <1>6 DEF OnThread

\* If p is on no thread of it any more, p has been removed since.
LEMMA NoThreadIsRemoved ==
  ASSUME EngineInv, ExactlyOnceInOrder, NEW p, NEW id, NEW since \in 0..checkpoint,
         OnThread(Ev, since, id, p), DOMAIN ThreadsOfParticipant(id, p) = {}
  PROVE  RemovedSince(Ev, checkpoint, since, id, p)
<1>1. PICK t, s : /\ s \in 1..since
                  /\ p \in Joined(Ev[s], <<id, t>>)
                  /\ \A m \in (s + 1)..since : p \notin Left(Ev[m], <<id, t>>)
  BY DEF OnThread
<1> DEFINE key == <<id, t>>
<1>2. /\ checkpoint \in Nat /\ \A n \in 1..checkpoint : Ev[n] = EventAt(n)
      /\ s \in 1..checkpoint
  BY <1>1, LoggedUpToCheckpoint
<1>3. key \in DOMAIN tables.threads
  <2>1. EventAt(s).type # "ConversationCreated" /\ ThreadKey(EventAt(s)) = key
    BY <1>1, <1>2 DEF Joined
  <2> QED
    BY <1>2, <2>1, ThreadIsProjected
<1>4. p \notin MembersByTables(key)
  BY <1>3, ParticipantRead
<1> HIDE DEF key
<1>5. p \in Joined(EventAt(s), key)
  BY <1>1, <1>2 DEF key
<1>6. PICK n \in (s + 1)..checkpoint : p \in Left(EventAt(n), key)
  BY <1>2, <1>3, <1>4, <1>5, MembersInOrder
<1>7. n \in 1..checkpoint /\ n \in Nat /\ s \in Nat /\ s < n
  BY <1>2, <1>6
<1>8. n \notin (s + 1)..since
  BY <1>1, <1>2, <1>6, <1>7 DEF key
<1>9. n \in (since + 1)..checkpoint
  BY <1>1, <1>2, <1>7, <1>8
<1>10. /\ EventAt(n).type = "ParticipantRemoved" /\ EventAt(n).conversation = id
       /\ EventAt(n).participant = p
  BY <1>6 DEF Left, ThreadKey, key
<1> QED
  BY <1>2, <1>7, <1>9, <1>10 DEF RemovedSince

\* Both stay true while the log grows.
LEMMA CollectStays ==
  ASSUME Grown
  PROVE  /\ \A since \in 0..checkpoint : \A id, p :
              OnThread(Ev, since, id, p) => OnThread(Ev', since, id, p)
         /\ \A since \in 0..checkpoint : \A id, p :
              RemovedSince(Ev, checkpoint, since, id, p) => RemovedSince(Ev', checkpoint', since, id, p)
<1>1. /\ checkpoint \in Nat /\ checkpoint' \in Nat /\ checkpoint <= checkpoint'
      /\ \A s \in 1..checkpoint : Ev'[s] = Ev[s]
  BY EventsStay DEF Grown, Ev
<1>2. ASSUME NEW since \in 0..checkpoint, NEW id, NEW p, OnThread(Ev, since, id, p)
      PROVE  OnThread(Ev', since, id, p)
  <2>1. PICK t, s : /\ s \in 1..since
                    /\ p \in Joined(Ev[s], <<id, t>>)
                    /\ \A m \in (s + 1)..since : p \notin Left(Ev[m], <<id, t>>)
    BY <1>2 DEF OnThread
  <2>2. s \in 1..checkpoint /\ \A m \in (s + 1)..since : m \in 1..checkpoint
    BY <1>1, <2>1
  <2>3. p \in Joined(Ev'[s], <<id, t>>) /\ \A m \in (s + 1)..since : p \notin Left(Ev'[m], <<id, t>>)
    BY <1>1, <2>1, <2>2
  <2> QED
    BY <2>1, <2>3 DEF OnThread
<1>3. ASSUME NEW since \in 0..checkpoint, NEW id, NEW p, RemovedSince(Ev, checkpoint, since, id, p)
      PROVE  RemovedSince(Ev', checkpoint', since, id, p)
  <2>1. PICK s \in (since + 1)..checkpoint : /\ Ev[s].type = "ParticipantRemoved"
                                             /\ Ev[s].conversation = id
                                             /\ Ev[s].participant = p
    BY <1>3 DEF RemovedSince
  <2>2. s \in 1..checkpoint /\ s \in (since + 1)..checkpoint'
    BY <1>1
  <2>3. Ev'[s] = Ev[s]
    BY <1>1, <2>2
  <2> QED
    BY <2>1, <2>2, <2>3 DEF RemovedSince
<1> QED
  BY <1>2, <1>3

\* The three queries behind a participant's conversations, field by field.
FirstQuery(g, new) ==
  /\ g.pc = "ids" /\ new.pc = "each" /\ new.url = g.url /\ new.since = checkpoint
  /\ new.rows.todo = ConversationsOfParticipant(g.url.id)
  /\ new.rows.views = <<>>

ThreadsQuery(g, new) ==
  /\ g.pc = "each" /\ new.pc = "messages" /\ new.url = g.url /\ new.since = g.since
  /\ new.rows.id \in g.rows.todo
  /\ new.rows.todo = g.rows.todo \ {new.rows.id}
  /\ new.rows.views = g.rows.views
  /\ new.rows.threads = ThreadsOfParticipant(new.rows.id, g.url.id)

MessagesQuery(g, new) ==
  /\ g.pc = "messages" /\ new.pc = "each" /\ new.url = g.url /\ new.since = g.since
  /\ new.rows.todo = g.rows.todo
  /\ \E messages :
       /\ messages = {m \in tables.messages :
                        /\ m.conversation = g.rows.id
                        /\ m.thread \in DOMAIN ThreadsOfParticipant(g.rows.id, g.url.id)}
       /\ new.rows.views = Put(g.rows.views, g.rows.id, View(g.rows.threads, messages))

LEMMA ParticipantGoesOn ==
  ASSUME NEW c, GoesOn(c)
  PROVE  \/ get'[c].pc = "rows"
         \/ FirstQuery(get[c], get'[c])
         \/ ThreadsQuery(get[c], get'[c])
         \/ MessagesQuery(get[c], get'[c])
<1> DEFINE g == get[c]
           new == get'[c]
<1>1. CASE g.pc = "after" \/ g.pc = "rows"
  <2>1. PICK url, since, rows : new = Asking("rows", url, since, rows)
    BY <1>1 DEF GoesOn
  <2> QED
    BY <2>1, AskingFields
<1>2. CASE g.pc = "ids"
  <2> DEFINE rows == [todo |-> ConversationsOfParticipant(g.url.id), views |-> <<>>]
  <2>1. new = Asking("each", g.url, checkpoint, rows)
    BY <1>2 DEF GoesOn
  <2>2. rows.todo = ConversationsOfParticipant(g.url.id) /\ rows.views = <<>>
    OBVIOUS
  <2> HIDE DEF rows, g, new
  <2>3. new.pc = "each" /\ new.url = g.url /\ new.since = checkpoint /\ new.rows = rows
    BY <2>1, AskingFields
  <2>4. FirstQuery(g, new)
    BY <1>2, <2>2, <2>3 DEF FirstQuery
  <2> QED
    BY <2>4 DEF g, new
<1>3. CASE g.pc = "each"
  <2>1. PICK id \in g.rows.todo :
          new = Asking("messages", g.url, g.since,
                       [todo |-> g.rows.todo \ {id}, views |-> g.rows.views, id |-> id,
                        threads |-> ThreadsOfParticipant(id, g.url.id)])
    BY <1>3 DEF GoesOn
  <2> DEFINE rows == [todo |-> g.rows.todo \ {id}, views |-> g.rows.views, id |-> id,
                      threads |-> ThreadsOfParticipant(id, g.url.id)]
  <2>2. /\ rows.todo = g.rows.todo \ {id} /\ rows.views = g.rows.views /\ rows.id = id
        /\ rows.threads = ThreadsOfParticipant(id, g.url.id)
    OBVIOUS
  <2> HIDE DEF rows, g, new
  <2>3. new.pc = "messages" /\ new.url = g.url /\ new.since = g.since /\ new.rows = rows
    BY <2>1, AskingFields DEF rows
  <2>4. ThreadsQuery(g, new)
    BY <1>3, <2>1, <2>2, <2>3 DEF ThreadsQuery
  <2> QED
    BY <2>4 DEF g, new
<1>4. CASE g.pc = "messages"
  <2>1. PICK messages :
          /\ messages = {m \in tables.messages :
                           /\ m.conversation = g.rows.id
                           /\ m.thread \in DOMAIN ThreadsOfParticipant(g.rows.id, g.url.id)}
          /\ new = Asking("each", g.url, g.since,
                          [todo |-> g.rows.todo,
                           views |-> Put(g.rows.views, g.rows.id, View(g.rows.threads, messages))])
    BY <1>4 DEF GoesOn
  <2> DEFINE rows == [todo |-> g.rows.todo,
                      views |-> Put(g.rows.views, g.rows.id, View(g.rows.threads, messages))]
  <2>2. rows.todo = g.rows.todo
        /\ rows.views = Put(g.rows.views, g.rows.id, View(g.rows.threads, messages))
    OBVIOUS
  <2> HIDE DEF rows, g, new
  <2>3. new.pc = "each" /\ new.url = g.url /\ new.since = g.since /\ new.rows = rows
    BY <2>1, AskingFields DEF rows
  <2>4. MessagesQuery(g, new)
    BY <1>4, <2>1, <2>2, <2>3 DEF MessagesQuery
  <2> QED
    BY <2>4 DEF g, new
<1> QED
  BY <1>1, <1>2, <1>3, <1>4 DEF GoesOn

\* A view has the threads it was put together from.
LEMMA ViewDomain ==
  ASSUME NEW threads, NEW messages
  PROVE  DOMAIN View(threads, messages) = DOMAIN threads
BY DEF View

LEMMA CollectingGoesOn ==
  ASSUME EngineInv, ExactlyOnceInOrder, ReadsOK, SinceInv, NEW c \in Client,
         CollectingOK(get[c], Ev, checkpoint), GoesOn(c)
  PROVE  CollectingOK(get'[c], Ev, checkpoint)
<1> DEFINE g   == get[c]
           new == get'[c]
           p   == g.url.id
<1>1. g.since \in 0..checkpoint
  BY DEF SinceInv
<1>2. CASE new.pc = "rows"
  BY <1>2 DEF CollectingOK
<1>3. CASE FirstQuery(g, new)
  <2>1. \A id \in new.rows.todo : OnThread(Ev, new.since, id, new.url.id)
    BY <1>3, ListedIsOnThread DEF FirstQuery
  <2>2. new.pc = "each" /\ DOMAIN new.rows.views = {}
    BY <1>3 DEF FirstQuery
  <2> QED
    BY <2>1, <2>2 DEF CollectingOK, ViewsOK
<1>4. CASE ThreadsQuery(g, new)
  <2> DEFINE id == new.rows.id
  <2>1. /\ g.pc = "each" /\ new.pc = "messages" /\ new.url = g.url /\ new.since = g.since
        /\ id \in g.rows.todo
        /\ new.rows.todo = g.rows.todo \ {id}
        /\ new.rows.views = g.rows.views
        /\ new.rows.threads = ThreadsOfParticipant(id, p)
    BY <1>4 DEF ThreadsQuery
  <2>2. /\ \A i \in g.rows.todo : OnThread(Ev, g.since, i, p)
        /\ ViewsOK(g.rows.views, p, g.since, Ev, checkpoint)
    BY <2>1 DEF CollectingOK
  <2>3. OnThread(Ev, g.since, id, p)
    BY <2>1, <2>2
  <2>4. DOMAIN new.rows.threads = {} => RemovedSince(Ev, checkpoint, g.since, id, p)
    BY <1>1, <2>1, <2>3, NoThreadIsRemoved
  <2> HIDE DEF g, new, p, id
  <2>5. \A i \in new.rows.todo : OnThread(Ev, g.since, i, p)
    BY <2>1, <2>2
  <2>6. CollectingOK(new, Ev, checkpoint)
    BY <2>1, <2>2, <2>4, <2>5 DEF CollectingOK, p, id
  <2> QED
    BY <2>6 DEF new
<1>5. CASE MessagesQuery(g, new)
  <2>1. PICK messages :
          /\ g.pc = "messages" /\ new.pc = "each" /\ new.url = g.url /\ new.since = g.since
          /\ new.rows.todo = g.rows.todo
          /\ new.rows.views = Put(g.rows.views, g.rows.id, View(g.rows.threads, messages))
    BY <1>5 DEF MessagesQuery
  <2>2. /\ \A i \in g.rows.todo : OnThread(Ev, g.since, i, p)
        /\ ViewsOK(g.rows.views, p, g.since, Ev, checkpoint)
        /\ DOMAIN g.rows.threads = {} => RemovedSince(Ev, checkpoint, g.since, g.rows.id, p)
    BY <2>1 DEF CollectingOK
  <2> DEFINE views == g.rows.views
             id    == g.rows.id
             view  == View(g.rows.threads, messages)
             all   == new.rows.views
  <2>3. view = <<>> => DOMAIN g.rows.threads = {}
    BY ViewDomain
  <2>4. all = Put(views, id, view)
    BY <2>1
  <2> HIDE DEF g, new, p, views, id, view, all
  <2>5. /\ DOMAIN all = DOMAIN views \cup {id}
        /\ all[id] = view
        /\ \A i \in DOMAIN views : i # id => all[i] = views[i]
    BY <2>4 DEF Put
  <2>6. ASSUME NEW i \in DOMAIN all, all[i] = <<>>
        PROVE  RemovedSince(Ev, checkpoint, g.since, i, p)
    <3>1. CASE i = id
      BY <2>2, <2>3, <2>5, <2>6, <3>1 DEF id
    <3>2. CASE i # id
      BY <2>2, <2>5, <2>6, <3>2 DEF ViewsOK, views
    <3> QED
      BY <3>1, <3>2
  <2>7. ViewsOK(new.rows.views, p, g.since, Ev, checkpoint)
    BY <2>6 DEF ViewsOK, all
  <2>8. CollectingOK(new, Ev, checkpoint)
    BY <2>1, <2>2, <2>7 DEF CollectingOK, p
  <2> QED
    BY <2>8 DEF new
<1> QED
  BY <1>2, <1>3, <1>4, <1>5, ParticipantGoesOn

\* What a request may be answered, if its url asks for a participant.
LEMMA ParticipantAnswers ==
  ASSUME ReadsOK, NEW c \in Client, Answers(c),
         answer'[c].status = "200", answer'[c].url.kind = "participant"
  PROVE  /\ get[c].pc = "each" /\ get[c].rows.todo = {}
         /\ answer'[c].view = get[c].rows.views
         /\ answer'[c].url = get[c].url /\ answer'[c].since = get[c].since
<1> DEFINE g == get[c]
<1>1. RequestOK(g, req)
  BY DEF ReadsOK
<1>2. PICK status, view : g.pc # "ready" /\ Gives(c, status, view)
  BY DEF Answers, GivesConversation, GivesParticipant, GivesEvents, GivesNothing
<1>3. g.url.kind = "participant"
  BY <1>2, GivesFields
<1>4. g.pc \in {"ids", "each", "messages"}
  BY <1>1, <1>2, <1>3 DEF RequestOK, Queries
<1>5. ~ GivesNothing(c)
  BY GivesFields DEF GivesNothing
<1>6. GivesParticipant(c)
  BY <1>4, <1>5 DEF Answers, GivesConversation, GivesEvents
<1> QED
  BY <1>6, GivesFields DEF GivesParticipant

LEMMA CollectNext ==
  ASSUME EngineInv, ExactlyOnceInOrder, ReadsOK, SinceInv, CollectInv,
         [ReadsNext]_<<allVars, readVars>>
  PROVE  CollectInv'
<1>1. Grown
  BY ReadsStep
<1>2. CASE UNCHANGED <<get, answer>>
  <2>1. /\ \A since \in 0..checkpoint : \A id, p :
             OnThread(Ev, since, id, p) => OnThread(Ev', since, id, p)
        /\ \A since \in 0..checkpoint : \A id, p :
             RemovedSince(Ev, checkpoint, since, id, p) => RemovedSince(Ev', checkpoint', since, id, p)
    BY <1>1, CollectStays
  <2>2. \A since \in 0..checkpoint : \A views, p :
          ViewsOK(views, p, since, Ev, checkpoint) => ViewsOK(views, p, since, Ev', checkpoint')
    BY <2>1 DEF ViewsOK
  <2>3. ASSUME NEW c \in Client
        PROVE  CollectingOK(get[c], Ev', checkpoint')
    <3>1. CollectingOK(get[c], Ev, checkpoint) /\ get[c].since \in 0..checkpoint
      BY DEF CollectInv, SinceInv
    <3> QED
      BY <2>1, <2>2, <3>1 DEF CollectingOK
  <2>4. ASSUME NEW c \in Client
        PROVE  CollectedOK(answer[c], Ev', checkpoint')
    <3>1. CollectedOK(answer[c], Ev, checkpoint) /\ answer[c].since \in 0..checkpoint
      BY DEF CollectInv, SinceInv
    <3> QED
      BY <2>2, <3>1 DEF CollectedOK
  <2> QED
    BY <1>2, <2>3, <2>4 DEF CollectInv
<1>3. ASSUME NEW c \in Client, ClientStep(c), UNCHANGED allVars
      PROVE  CollectInv'
  <2>1. /\ \A d \in Client : d # c => get'[d] = get[d] /\ answer'[d] = answer[d]
        /\ \/ answer'[c] = answer[c] /\ ((\E url \in Url : \E pc : Asks(c, url, pc)) \/ GoesOn(c))
           \/ get'[c] = Ready /\ Answers(c)
    BY <1>3, ClientEffect
  <2>2. ASSUME NEW url \in Url, NEW pc, Asks(c, url, pc)
        PROVE  CollectingOK(get'[c], Ev, checkpoint)
    <3>1. get'[c].pc \in {"after", "rows", "ids", "events"}
      BY <2>2, AskingFields DEF Asks
    <3> QED
      BY <3>1 DEF CollectingOK
  <2>3. CollectingOK(Ready, Ev, checkpoint)
    BY DEF CollectingOK, Ready
  <2>4. CollectingOK(get[c], Ev, checkpoint) /\ CollectedOK(answer[c], Ev, checkpoint)
    BY DEF CollectInv
  <2>5. ASSUME Answers(c)
        PROVE  CollectedOK(answer'[c], Ev, checkpoint)
    <3>1. SUFFICES ASSUME answer'[c].status = "200", answer'[c].url.kind = "participant"
                   PROVE  ViewsOK(answer'[c].view, answer'[c].url.id, answer'[c].since, Ev, checkpoint)
      BY DEF CollectedOK
    <3>2. /\ get[c].pc = "each"
          /\ answer'[c].view = get[c].rows.views
          /\ answer'[c].url = get[c].url /\ answer'[c].since = get[c].since
      BY <2>5, <3>1, ParticipantAnswers
    <3> QED
      BY <2>4, <3>2 DEF CollectingOK
  <2>6. CollectingOK(get'[c], Ev, checkpoint) /\ CollectedOK(answer'[c], Ev, checkpoint)
    BY <2>1, <2>2, <2>3, <2>4, <2>5, CollectingGoesOn
  <2>7. \A d \in Client : CollectingOK(get'[d], Ev, checkpoint) /\ CollectedOK(answer'[d], Ev, checkpoint)
    BY <2>1, <2>6 DEF CollectInv
  <2>8. log' = log /\ checkpoint' = checkpoint
    BY <1>3 DEF allVars, vars, engineVars
  <2>9. Ev' = Ev
    BY <2>8 DEF Ev, EventAt
  <2> QED
    BY <2>7, <2>8, <2>9 DEF CollectInv
<1> QED
  BY <1>2, <1>3, ReadsStep

LEMMA CollectGives ==
  ASSUME EngineInv, SinceInv, CollectInv
  PROVE  EmptyOnlyWhenRemoved
<1>1. SUFFICES ASSUME NEW c \in Client, answer[c].status = "200", answer[c].url.kind = "participant",
                      NEW id \in DOMAIN answer[c].view, answer[c].view[id] = <<>>
               PROVE  \E s \in (answer[c].since + 1)..checkpoint :
                        /\ EventAt(s).type = "ParticipantRemoved"
                        /\ EventAt(s).conversation = id
                        /\ EventAt(s).participant = answer[c].url.id
  BY DEF EmptyOnlyWhenRemoved
<1>2. RemovedSince(Ev, checkpoint, answer[c].since, id, answer[c].url.id)
  BY <1>1 DEF CollectInv, CollectedOK, ViewsOK
<1>3. PICK s \in (answer[c].since + 1)..checkpoint : /\ Ev[s].type = "ParticipantRemoved"
                                                     /\ Ev[s].conversation = id
                                                     /\ Ev[s].participant = answer[c].url.id
  BY <1>2 DEF RemovedSince
<1>4. s \in 1..checkpoint
  <2>1. answer[c].since \in 0..checkpoint /\ checkpoint \in Nat
    BY LoggedUpToCheckpoint DEF SinceInv
  <2> QED
    BY <1>3, <2>1
<1>5. Ev[s] = EventAt(s)
  BY <1>4, LoggedUpToCheckpoint
<1> QED
  BY <1>3, <1>5

\* With one relay, a conversation is listed without a thread only if the
\* participant was removed from it after the ids were read.
THEOREM ListedWithoutThread ==
  ASSUME OneRelay
  PROVE  ReadsSpec => []EmptyOnlyWhenRemoved
<1>1. ReadsInit => CollectInv
  BY DEF ReadsInit, CollectInv, CollectingOK, CollectedOK, Ready, NoAnswer
<1>2. EngineInv /\ ExactlyOnceInOrder /\ ReadsOK /\ SinceInv /\ CollectInv
        /\ [ReadsNext]_<<allVars, readVars>> => CollectInv'
  BY CollectNext
<1>3. EngineInv /\ SinceInv /\ CollectInv => EmptyOnlyWhenRemoved
  BY CollectGives
<1>4. DeliveryInv => ExactlyOnceInOrder
  BY DEF DeliveryInv
<1>5. ReadsSpec => []ExactlyOnceInOrder
  BY <1>4, ReadsAreEngineSteps, EngineDelivers, PTL
<1> QED
  BY <1>1, <1>2, <1>3, <1>5, ReadsInvariance, SinceAlways, PTL DEF ReadsSpec

-----------------------------------------------------------------------------
(***************************************************************************)
(* Members see their threads.                                              *)
(***************************************************************************)

\* Whoever is a member by the log up to n has joined by then.
LEMMA MembersHaveJoined ==
  ASSUME LogOK(Ev), RowsAreEvents, NEW c, NEW t, NEW n \in Nat, NEW p \in MembersByLog(c, t, n)
  PROVE  \E s \in DOMAIN log : s \in 1..n /\ p \in Joined(EventAt(s), <<c, t>>)
<1> DEFINE J(m) == \E s \in DOMAIN log : s \in 1..m /\ p \in Joined(EventAt(s), <<c, t>>)
           S    == {m \in Nat : p \in Range(MembersOf(Conv(c, m), t)) => J(m)}
<1>1. 0 \in S
  <2> DEFINE nobody == [id |-> "", threads |-> <<>>]
  <2>1. DOMAIN nobody.threads = {}
    <3>1. nobody.threads = <<>> /\ DOMAIN <<>> = {}
      OBVIOUS
    <3> QED
      BY <3>1
  <2>2. Conv(c, 0) = nobody
    BY RehydrateStep
  <2> HIDE DEF nobody
  <2>3. MembersOf(Conv(c, 0), t) = <<>>
    BY <2>1, <2>2 DEF MembersOf
  <2>4. Range(<<>>) = {}
    BY DEF Range
  <2> QED
    BY <2>3, <2>4
<1>2. ASSUME NEW m \in Nat, m \in S
      PROVE  m + 1 \in S
  <2> DEFINE e    == EventAt(m + 1)
             conv == Conv(c, m)
             list == MembersOf(conv, t)
             new  == MembersOf(Conv(c, m + 1), t)
  <2>1. AggregateOK(conv) /\ AggregateOK(Conv(c, m + 1))
    BY AggregateIsThatOfLog DEF AggregateAt
  <2>2. Conv(c, m + 1) = IF IsOf(m + 1, c) THEN ApplyToAggregate(conv, e) ELSE conv
    BY RehydrateStep
  <2>3. IsList(list)
    BY <2>1 DEF AggregateOK, MembersOf, IsList, Range
  <2>4. p \in Range(list) => J(m + 1)
    <3>1. p \in Range(list) => J(m)
      BY <1>2
    <3>2. \A s : s \in 1..m => s \in 1..(m + 1)
      OBVIOUS
    <3> QED
      BY <3>1, <3>2
  <2>5. SUFFICES ASSUME p \in Range(new), p \notin Range(list)
                 PROVE  J(m + 1)
    BY <2>4, m + 1 \in Nat
  <2>6. IsOf(m + 1, c)
    BY <2>2, <2>5
  <2>7. m + 1 \in DOMAIN log /\ e.conversation = c /\ IsEvent(e)
    BY <2>6, ConversationOfRow, EventsAreFounded
  <2>8. t \in DOMAIN Conv(c, m + 1).threads
    <3>1. CASE t \notin DOMAIN Conv(c, m + 1).threads
      <4>1. new = <<>>
        BY <3>1 DEF MembersOf
      <4> QED
        BY <2>5, <4>1 DEF Range
    <3> QED
      BY <3>1
  <2>9. new = Reapplied(list, e, t)
    BY <2>1, <2>2, <2>6, <2>7, <2>8, ApplyToAggregateEffect
  <2> HIDE DEF e, list, new
  <2>10. p \in Joined(e, <<c, t>>)
    <3>1. CASE e.type = "ThreadStarted" /\ e.thread = t
      BY <2>5, <2>7, <2>9, <3>1 DEF Reapplied, Joined, ThreadKey
    <3>2. CASE e.type = "ParticipantAdded" /\ e.thread = t
      <4>1. new = Append(list, e.participant)
        BY <2>9, <3>2 DEF Reapplied
      <4>2. Range(new) = Range(list) \cup {e.participant}
        BY <2>3, <4>1, AppendFacts
      <4>3. p = e.participant
        BY <2>5, <4>2
      <4> QED
        BY <2>7, <3>2, <4>3 DEF Joined, ThreadKey
    <3>3. CASE e.type = "ParticipantRemoved" /\ e.thread = t
      <4>1. new = RemoveFirst(list, e.participant)
        BY <2>9, <3>3 DEF Reapplied
      <4>2. Range(new) \subseteq Range(list)
        BY <2>3, <4>1, RemoveFirstFacts
      <4> QED
        BY <2>5, <4>2
    <3>4. CASE ~ (e.type \in {"ThreadStarted", "ParticipantAdded", "ParticipantRemoved"} /\ e.thread = t)
      <4>1. new = list
        BY <2>9, <3>4 DEF Reapplied
      <4> QED
        BY <2>5, <4>1
    <3> QED
      BY <3>1, <3>2, <3>3, <3>4
  <2>11. m + 1 \in 1..(m + 1)
    OBVIOUS
  <2> QED
    BY <2>7, <2>10, <2>11 DEF e
<1>3. Nat \subseteq S
  <2> HIDE DEF S
  <2> QED
    BY <1>1, <1>2, Induction
<1> QED
  BY <1>3 DEF MembersByLog, Conv

\* Participant p has joined thread t of conversation id by event n, and the
\* log has no removal.
StaysMember(ev, n, p, id, t) ==
  /\ \E s \in 1..n : p \in Joined(ev[s], <<id, t>>)
  /\ \A s \in DOMAIN ev : p \notin Left(ev[s], <<id, t>>)

\* The views have the thread, with all its messages up to event n.
ShownIn(views, ev, n, id, t) ==
  /\ id \in DOMAIN views
  /\ t \in DOMAIN views[id]
  /\ \A s \in 1..n : ev[s].type = "MessagePosted" /\ ThreadKey(ev[s]) = <<id, t>> =>
       MessageRow([sequence |-> s, event |-> ev[s]]) \in views[id][t].messages

SeeingOK(g, ev) ==
  /\ g.pc = "each" => \A id, t : StaysMember(ev, g.since, g.url.id, id, t) =>
       id \in g.rows.todo \/ ShownIn(g.rows.views, ev, g.since, id, t)
  /\ g.pc = "messages" => \A id, t : StaysMember(ev, g.since, g.url.id, id, t) =>
       IF id = g.rows.id
       THEN t \in DOMAIN g.rows.threads
       ELSE id \in g.rows.todo \/ ShownIn(g.rows.views, ev, g.since, id, t)

SeenOK(a, ev) ==
  a.status = "200" /\ a.url.kind = "participant" =>
    \A id, t : StaysMember(ev, a.since, a.url.id, id, t) => ShownIn(a.view, ev, a.since, id, t)

SeeInv == \A c \in Client : SeeingOK(get[c], Ev) /\ SeenOK(answer[c], Ev)

\* Such a member is found by every query, however often runs were applied.
LEMMA MemberIsRead ==
  ASSUME EngineInv, NEW since \in 0..checkpoint, NEW p, NEW id, NEW t,
         StaysMember(Ev, since, p, id, t)
  PROVE  t \in DOMAIN ThreadsOfParticipant(id, p) /\ id \in ConversationsOfParticipant(p)
<1> DEFINE key == <<id, t>>
<1>1. PICK s \in 1..since : p \in Joined(Ev[s], key)
  BY DEF StaysMember
<1>2. /\ checkpoint \in Nat /\ \A n \in 1..checkpoint : Ev[n] = EventAt(n)
      /\ s \in 1..checkpoint /\ 1..checkpoint \subseteq DOMAIN Ev
  BY LoggedUpToCheckpoint DEF Ev
<1>3. key \in DOMAIN tables.threads
  <2>1. EventAt(s).type # "ConversationCreated" /\ ThreadKey(EventAt(s)) = key
    BY <1>1, <1>2 DEF Joined
  <2> QED
    BY <1>2, <2>1, ThreadIsProjected
<1>4. /\ MembersOK(Ev, tables, applied)
      /\ applied \in Seq(Nat) /\ RowsOf(applied) \subseteq 1..checkpoint
      /\ 1..checkpoint \subseteq RowsOf(applied)
  BY DEF EngineInv, ProjectionOK, HistoryOK, IndInv, TablesAgree
<1>5. MembersByTables(key) = MembersAfter(Ev, applied, key)
  BY <1>3, <1>4 DEF MembersOK, MembersByTables, ParticipantsRow
<1>6. PICK i \in 1..Len(applied) : applied[i] = s
  BY <1>2, <1>4 DEF RowsOf
<1>7. \A j \in 1..Len(applied) : applied[j] \in DOMAIN Ev
  <2>1. \A j \in 1..Len(applied) : applied[j] \in RowsOf(applied)
    BY <1>4 DEF RowsOf
  <2> QED
    BY <1>2, <1>4, <2>1, Zenon
<1>8. \A j \in (i + 1)..Len(applied) : j \in 1..Len(applied)
  BY <1>4
<1>9. \A j \in (i + 1)..Len(applied) : p \notin Left(Ev[applied[j]], key)
  BY <1>7, <1>8 DEF StaysMember
<1>10. p \in MembersByTables(key)
  <2>1. p \in MembersAfter(Ev, applied, key) <=>
          \E k \in 1..Len(applied) : /\ p \in Joined(Ev[applied[k]], key)
                                     /\ \A j \in (k + 1)..Len(applied) : p \notin Left(Ev[applied[j]], key)
    BY MembersAfterIn
  <2> QED
    BY <1>1, <1>5, <1>6, <1>9, <2>1
<1>11. t \in DOMAIN ThreadsOfParticipant(id, p)
  BY <1>3, <1>10, ParticipantRead
<1>12. ThreadsOfParticipant(id, p) # <<>>
  BY <1>11
<1>13. id \in tables.conversations
  <2>1. key[1] \in tables.conversations
    BY <1>3, ConversationRead
  <2> QED
    BY <2>1
<1> QED
  BY <1>11, <1>12, <1>13 DEF ConversationsOfParticipant


\* Both are about events that stay in the log, and no removal is forgotten.
LEMMA SeeStays ==
  ASSUME Grown, NEW since \in 0..checkpoint
  PROVE  /\ \A p, id, t : StaysMember(Ev', since, p, id, t) => StaysMember(Ev, since, p, id, t)
         /\ \A views, id, t : ShownIn(views, Ev, since, id, t) => ShownIn(views, Ev', since, id, t)
<1>1. /\ \A s \in 1..since : Ev'[s] = Ev[s]
      /\ DOMAIN Ev \subseteq DOMAIN Ev'
      /\ \A s \in DOMAIN Ev : Ev'[s] = Ev[s]
  <2>1. checkpoint \in Nat
    BY DEF Grown
  <2>2. /\ \A s \in 1..checkpoint : Ev'[s] = Ev[s]
        /\ DOMAIN Ev \subseteq DOMAIN Ev'
        /\ \A s \in DOMAIN Ev : Ev'[s] = Ev[s]
    BY EventsStay DEF Grown, Ev
  <2>3. \A s \in 1..since : s \in 1..checkpoint
    BY <2>1
  <2> QED
    BY <2>2, <2>3
<1>2. ASSUME NEW p, NEW id, NEW t, StaysMember(Ev', since, p, id, t)
      PROVE  StaysMember(Ev, since, p, id, t)
  BY <1>1, <1>2 DEF StaysMember
<1>3. ASSUME NEW views, NEW id, NEW t, ShownIn(views, Ev, since, id, t)
      PROVE  ShownIn(views, Ev', since, id, t)
  BY <1>1, <1>3 DEF ShownIn
<1> QED
  BY <1>2, <1>3

\* The messages that the last query returns are all those up to event n.
LEMMA MessagesAreRead ==
  ASSUME EngineInv, NEW since \in 0..checkpoint, NEW id, NEW t, NEW ids, t \in ids,
         NEW messages,
         messages = {m \in tables.messages : m.conversation = id /\ m.thread \in ids},
         NEW s \in 1..since, Ev[s].type = "MessagePosted", ThreadKey(Ev[s]) = <<id, t>>
  PROVE  LET row == MessageRow([sequence |-> s, event |-> Ev[s]]) IN
         row \in messages /\ row.thread = t
<1> DEFINE row == MessageRow([sequence |-> s, event |-> Ev[s]])
<1>1. checkpoint \in Nat /\ RowsOK(Ev, tables, checkpoint)
  BY LoggedUpToCheckpoint DEF EngineInv, ProjectionOK
<1>2. s \in 1..checkpoint
  BY <1>1
<1>3. row \in tables.messages
  BY <1>1, <1>2 DEF RowsOK
<1>4. row.conversation = Ev[s].conversation /\ row.thread = Ev[s].thread
  BY DEF MessageRow
<1>5. Ev[s].conversation = id /\ Ev[s].thread = t
  BY DEF ThreadKey
<1> QED
  BY <1>3, <1>4, <1>5

LEMMA SeeingGoesOn ==
  ASSUME EngineInv, ReadsOK, SinceInv, NEW c \in Client,
         SeeingOK(get[c], Ev), GoesOn(c)
  PROVE  SeeingOK(get'[c], Ev)
<1> DEFINE g   == get[c]
           new == get'[c]
           p   == g.url.id
           Stays(id, t) == StaysMember(Ev, g.since, p, id, t)
<1>1. g.since \in 0..checkpoint /\ checkpoint \in 0..checkpoint
  BY LoggedUpToCheckpoint DEF SinceInv
<1>2. CASE new.pc = "rows"
  BY <1>2 DEF SeeingOK
<1>3. CASE FirstQuery(g, new)
  <2>1. /\ new.pc = "each" /\ new.since = checkpoint /\ new.url = g.url
        /\ new.rows.todo = ConversationsOfParticipant(p)
    BY <1>3 DEF FirstQuery
  <2>2. \A id, t : StaysMember(Ev, checkpoint, p, id, t) => id \in ConversationsOfParticipant(p)
    BY <1>1, MemberIsRead
  <2> QED
    BY <2>1, <2>2 DEF SeeingOK
<1>4. CASE ThreadsQuery(g, new)
  <2>1. /\ g.pc = "each" /\ new.pc = "messages" /\ new.url = g.url /\ new.since = g.since
        /\ new.rows.todo = g.rows.todo \ {new.rows.id}
        /\ new.rows.views = g.rows.views
        /\ new.rows.threads = ThreadsOfParticipant(new.rows.id, p)
    BY <1>4 DEF ThreadsQuery
  <2>2. \A id, t : Stays(id, t) => id \in g.rows.todo \/ ShownIn(g.rows.views, Ev, g.since, id, t)
    BY <2>1 DEF SeeingOK
  <2>3. \A id, t : Stays(id, t) => t \in DOMAIN ThreadsOfParticipant(id, p)
    BY <1>1, MemberIsRead
  <2> HIDE DEF g, new, p
  <2>4. SeeingOK(new, Ev)
    BY <2>1, <2>2, <2>3 DEF SeeingOK, p
  <2> QED
    BY <2>4 DEF new
<1>5. CASE MessagesQuery(g, new)
  <2>1. PICK messages :
          /\ messages = {m \in tables.messages :
                           m.conversation = g.rows.id /\ m.thread \in DOMAIN ThreadsOfParticipant(g.rows.id, p)}
          /\ new.rows.views = Put(g.rows.views, g.rows.id, View(g.rows.threads, messages))
    BY <1>5 DEF MessagesQuery
  <2>2. /\ g.pc = "messages" /\ new.pc = "each" /\ new.url = g.url /\ new.since = g.since
        /\ new.rows.todo = g.rows.todo
    BY <1>5 DEF MessagesQuery
  <2> DEFINE views   == g.rows.views
             id      == g.rows.id
             threads == g.rows.threads
             view    == View(threads, messages)
             all     == new.rows.views
  <2>3. \A i, t : Stays(i, t) => IF i = id THEN t \in DOMAIN threads
                                 ELSE i \in g.rows.todo \/ ShownIn(views, Ev, g.since, i, t)
    BY <2>2 DEF SeeingOK
  <2>4. all = Put(views, id, view)
    BY <2>1
  <2>5. \A t : Stays(id, t) => t \in DOMAIN ThreadsOfParticipant(id, p)
    BY <1>1, MemberIsRead
  <2>6. /\ DOMAIN view = DOMAIN threads
        /\ \A t \in DOMAIN threads : view[t].messages = {m \in messages : m.thread = t}
    BY DEF View
  <2>7. ASSUME NEW t, t \in DOMAIN ThreadsOfParticipant(id, p),
               NEW s \in 1..g.since, Ev[s].type = "MessagePosted", ThreadKey(Ev[s]) = <<id, t>>
        PROVE  LET row == MessageRow([sequence |-> s, event |-> Ev[s]]) IN
               row \in messages /\ row.thread = t
    BY <1>1, <2>1, <2>7, MessagesAreRead
  <2> HIDE DEF g, new, p, views, id, threads, view, all
  <2>8. /\ DOMAIN all = DOMAIN views \cup {id}
        /\ all[id] = view
        /\ \A i \in DOMAIN views : i # id => all[i] = views[i]
    BY <2>4 DEF Put
  <2>9. ASSUME NEW t, Stays(id, t)
        PROVE  ShownIn(all, Ev, g.since, id, t)
    <3>1. t \in DOMAIN view /\ view[t].messages = {m \in messages : m.thread = t}
      BY <2>3, <2>6, <2>9
    <3>2. t \in DOMAIN ThreadsOfParticipant(id, p)
      BY <2>5, <2>9
    <3>3. ASSUME NEW s \in 1..g.since, Ev[s].type = "MessagePosted", ThreadKey(Ev[s]) = <<id, t>>
          PROVE  MessageRow([sequence |-> s, event |-> Ev[s]]) \in view[t].messages
      BY <2>7, <3>1, <3>2, <3>3
    <3> QED
      BY <2>8, <3>1, <3>3 DEF ShownIn
  <2>10. ASSUME NEW i, NEW t, i # id, ShownIn(views, Ev, g.since, i, t)
         PROVE  ShownIn(all, Ev, g.since, i, t)
    <3>1. i \in DOMAIN views
      BY <2>10 DEF ShownIn
    <3>2. i \in DOMAIN all /\ all[i] = views[i]
      BY <2>8, <2>10, <3>1
    <3> QED
      BY <2>10, <3>2 DEF ShownIn
  <2>11. ASSUME NEW i, NEW t, Stays(i, t)
         PROVE  i \in g.rows.todo \/ ShownIn(all, Ev, g.since, i, t)
    BY <2>3, <2>9, <2>10, <2>11
  <2>12. SeeingOK(new, Ev)
    BY <2>2, <2>11 DEF SeeingOK, p, all
  <2> QED
    BY <2>12 DEF new
<1> QED
  BY <1>2, <1>3, <1>4, <1>5, ParticipantGoesOn

LEMMA SeeNext ==
  ASSUME EngineInv, ReadsOK, SinceInv, SeeInv, [ReadsNext]_<<allVars, readVars>>
  PROVE  SeeInv'
<1>1. Grown
  BY ReadsStep
<1>2. CASE UNCHANGED <<get, answer>>
  <2>1. \A since \in 0..checkpoint :
          /\ \A p, id, t : StaysMember(Ev', since, p, id, t) => StaysMember(Ev, since, p, id, t)
          /\ \A views, id, t : ShownIn(views, Ev, since, id, t) => ShownIn(views, Ev', since, id, t)
    BY <1>1, SeeStays
  <2>2. ASSUME NEW c \in Client
        PROVE  SeeingOK(get[c], Ev') /\ SeenOK(answer[c], Ev')
    <3>1. SeeingOK(get[c], Ev) /\ SeenOK(answer[c], Ev)
      BY DEF SeeInv
    <3>2. get[c].since \in 0..checkpoint /\ answer[c].since \in 0..checkpoint
      BY DEF SinceInv
    <3>3. SeeingOK(get[c], Ev')
      BY <2>1, <3>1, <3>2 DEF SeeingOK
    <3>4. SeenOK(answer[c], Ev')
      BY <2>1, <3>1, <3>2 DEF SeenOK
    <3> QED
      BY <3>3, <3>4
  <2> QED
    BY <1>2, <2>2 DEF SeeInv
<1>3. ASSUME NEW c \in Client, ClientStep(c), UNCHANGED allVars
      PROVE  SeeInv'
  <2>1. /\ \A d \in Client : d # c => get'[d] = get[d] /\ answer'[d] = answer[d]
        /\ \/ answer'[c] = answer[c] /\ ((\E url \in Url : \E pc : Asks(c, url, pc)) \/ GoesOn(c))
           \/ get'[c] = Ready /\ Answers(c)
    BY <1>3, ClientEffect
  <2>2. ASSUME NEW url \in Url, NEW pc, Asks(c, url, pc)
        PROVE  SeeingOK(get'[c], Ev)
    <3>1. get'[c].pc \in {"after", "rows", "ids", "events"}
      BY <2>2, AskingFields DEF Asks
    <3> QED
      BY <3>1 DEF SeeingOK
  <2>3. SeeingOK(Ready, Ev)
    BY DEF SeeingOK, Ready
  <2>4. SeeingOK(get[c], Ev) /\ SeenOK(answer[c], Ev)
    BY DEF SeeInv
  <2>5. ASSUME Answers(c)
        PROVE  SeenOK(answer'[c], Ev)
    <3>1. SUFFICES ASSUME answer'[c].status = "200", answer'[c].url.kind = "participant"
                   PROVE  \A id, t : StaysMember(Ev, answer'[c].since, answer'[c].url.id, id, t) =>
                                       ShownIn(answer'[c].view, Ev, answer'[c].since, id, t)
      BY DEF SeenOK
    <3>2. /\ get[c].pc = "each" /\ get[c].rows.todo = {}
          /\ answer'[c].view = get[c].rows.views
          /\ answer'[c].url = get[c].url /\ answer'[c].since = get[c].since
      BY <2>5, <3>1, ParticipantAnswers
    <3> QED
      BY <2>4, <3>2 DEF SeeingOK
  <2>6. SeeingOK(get'[c], Ev) /\ SeenOK(answer'[c], Ev)
    BY <2>1, <2>2, <2>3, <2>4, <2>5, SeeingGoesOn
  <2>7. \A d \in Client : SeeingOK(get'[d], Ev) /\ SeenOK(answer'[d], Ev)
    BY <2>1, <2>6 DEF SeeInv
  <2>8. log' = log
    BY <1>3 DEF allVars, vars, engineVars
  <2>9. Ev' = Ev
    BY <2>8 DEF Ev, EventAt
  <2> QED
    BY <2>7, <2>9 DEF SeeInv
<1> QED
  BY <1>2, <1>3, ReadsStep

LEMMA SeeGives ==
  ASSUME EngineInv, SinceInv, SeeInv
  PROVE  MembersSeeTheirThreads
<1> SUFFICES ASSUME NEW c \in Client, answer[c].status = "200", answer[c].url.kind = "participant",
                    NEW key \in DOMAIN tables.threads,
                    answer[c].url.id \in MembersByLog(key[1], key[2], answer[c].since),
                    ~ \E s \in DOMAIN log : /\ EventAt(s).type = "ParticipantRemoved"
                                            /\ ThreadKey(EventAt(s)) = key
                                            /\ EventAt(s).participant = answer[c].url.id
             PROVE  /\ key[1] \in DOMAIN answer[c].view
                    /\ key[2] \in DOMAIN answer[c].view[key[1]]
                    /\ {m \in tables.messages : /\ <<m.conversation, m.thread>> = key
                                                /\ m.sequence <= answer[c].since}
                         \subseteq answer[c].view[key[1]][key[2]].messages
  BY DEF MembersSeeTheirThreads
<1> DEFINE a == answer[c]
           p == a.url.id
           n == a.since
           id == key[1]
           t == key[2]
<1>1. /\ LogOK(Ev) /\ RowsAreEvents /\ RowsOK(Ev, tables, checkpoint)
      /\ checkpoint \in Nat /\ \A s \in DOMAIN log : Ev[s] = EventAt(s)
      /\ DOMAIN Ev = DOMAIN log
  BY LoggedUpToCheckpoint DEF EngineInv, ApiInv, ProjectionOK, Ev
<1>2. n \in 0..checkpoint /\ n \in Nat
  BY <1>1 DEF SinceInv
<1>3. key = <<id, t>>
  <2>1. PICK s : key = ThreadKey(Ev[s])
    BY <1>1 DEF RowsOK
  <2> QED
    BY <2>1 DEF ThreadKey
<1>4. PICK s \in DOMAIN log : s \in 1..n /\ p \in Joined(EventAt(s), <<id, t>>)
  BY <1>1, <1>2, MembersHaveJoined
<1>5. \A m \in DOMAIN Ev : p \notin Left(Ev[m], <<id, t>>)
  BY <1>1, <1>3 DEF Left
<1>6. StaysMember(Ev, n, p, id, t)
  BY <1>1, <1>4, <1>5 DEF StaysMember
<1>7. ShownIn(a.view, Ev, n, id, t)
  BY <1>6 DEF SeeInv, SeenOK
<1>8. ASSUME NEW m \in tables.messages, <<m.conversation, m.thread>> = key, m.sequence <= n
      PROVE  m \in a.view[id][t].messages
  <2>1. PICK i \in 1..checkpoint : /\ Ev[i].type = "MessagePosted"
                                   /\ m = MessageRow([sequence |-> i, event |-> Ev[i]])
    BY <1>1 DEF RowsOK
  <2>2. m.sequence = i /\ m.conversation = Ev[i].conversation /\ m.thread = Ev[i].thread
    BY <2>1 DEF MessageRow
  <2>3. i \in 1..n
    BY <1>1, <1>2, <1>8, <2>1, <2>2
  <2>4. ThreadKey(Ev[i]) = <<id, t>>
    BY <1>3, <1>8, <2>2 DEF ThreadKey
  <2> QED
    BY <1>7, <2>1, <2>3, <2>4 DEF ShownIn
<1> QED
  BY <1>7, <1>8 DEF ShownIn

\* Whatever runs are applied again, by however many relays: a participant who
\* was a member at the first query and was never removed is shown the thread,
\* with all the messages it had then.
THEOREM MembersFindTheirThreads == ReadsSpec => []MembersSeeTheirThreads
<1>1. ReadsInit => SeeInv
  BY DEF ReadsInit, SeeInv, SeeingOK, SeenOK, Ready, NoAnswer
<1>2. EngineInv /\ ReadsOK /\ SinceInv /\ SeeInv /\ [ReadsNext]_<<allVars, readVars>> => SeeInv'
  BY SeeNext
<1>3. EngineInv /\ SinceInv /\ SeeInv => MembersSeeTheirThreads
  BY SeeGives
<1> QED
  BY <1>1, <1>2, <1>3, ReadsInvariance, SinceAlways, PTL DEF ReadsSpec

-----------------------------------------------------------------------------
(***************************************************************************)
(* Views of a conversation extend each other.                              *)
(***************************************************************************)

\* ConversationOf, for given decisions.
ConvOf(url, dec) ==
  IF url.kind = "location" THEN dec[url.request].batch[1].conversation ELSE url.id

\* The messages of conversation id among the events up to n.
PostedUpTo(ev, id, n) ==
  {MessageRow([sequence |-> s, event |-> ev[s]])
     : s \in {m \in 1..n : ev[m].type = "MessagePosted" /\ ev[m].conversation = id}}

\* The threads were in the projection, and stay there.
ThreadsStay(ts, tb, id) == \A t \in ts : <<id, t>> \in DOMAIN tb.threads

\* What the queries of Get have returned so far.
SnapshotsOK(g, id, ev, tb, n) ==
  g.pc = "rows" =>
    /\ "threads" \in DOMAIN g.rows => ThreadsStay(DOMAIN g.rows["threads"], tb, id)
    /\ "messages" \in DOMAIN g.rows => \E m \in 0..n : g.rows["messages"] = PostedUpTo(ev, id, m)

\* All threads of an answer have their messages from the same query.
ViewOK(a, id, ev, tb, n) ==
  OfConversation(a) /\ a.status = "200" =>
    /\ ThreadsStay(DOMAIN a.view, tb, id)
    /\ \E m \in 0..n : \A t \in DOMAIN a.view :
         a.view[t].messages = {r \in PostedUpTo(ev, id, m) : r.thread = t}

\* What is new among the messages comes after what the view has.
LaterMessages(view, messages) ==
  \A t \in DOMAIN view :
    /\ view[t].messages \subseteq {r \in messages : r.thread = t}
    /\ \A r \in messages : r.thread = t /\ r \notin view[t].messages =>
         \A q \in view[t].messages : q.sequence < r.sequence

\* The request is ahead of the answer that the client was given last.
AheadOK(g, a, dec) ==
  g.pc = "rows" /\ OfConversation(a) /\ a.status = "200" /\ ConvOf(g.url, dec) = ConvOf(a.url, dec) =>
    /\ "conversation" \in DOMAIN g.rows => g.rows["conversation"] \/ DOMAIN a.view = {}
    /\ "threads" \in DOMAIN g.rows => DOMAIN a.view \subseteq DOMAIN g.rows["threads"]
    /\ "messages" \in DOMAIN g.rows => LaterMessages(a.view, g.rows["messages"])

ViewInv ==
  \A c \in Client :
    /\ SnapshotsOK(get[c], ConvOf(get[c].url, decision), Ev, tables, checkpoint)
    /\ ViewOK(answer[c], ConvOf(answer[c].url, decision), Ev, tables, checkpoint)
    /\ AheadOK(get[c], answer[c], decision)

LEMMA PostedGrows ==
  ASSUME NEW ev, NEW id, NEW n \in Nat, NEW m \in 0..n
  PROVE  /\ PostedUpTo(ev, id, m) \subseteq PostedUpTo(ev, id, n)
         /\ \A q \in PostedUpTo(ev, id, m) : q.sequence \in Nat /\ q.sequence <= m
         /\ \A r \in PostedUpTo(ev, id, n) : r \notin PostedUpTo(ev, id, m) =>
              r.sequence \in Nat /\ r.sequence > m
<1> DEFINE row(s) == MessageRow([sequence |-> s, event |-> ev[s]])
<1>1. \A s : row(s).sequence = s
  BY DEF MessageRow
<1>2. \A k, r : r \in PostedUpTo(ev, id, k) <=>
        \E s \in 1..k : ev[s].type = "MessagePosted" /\ ev[s].conversation = id /\ r = row(s)
  BY DEF PostedUpTo
<1> HIDE DEF row
<1>3. \A s \in 1..m : s \in 1..n /\ s \in Nat /\ s <= m
  OBVIOUS
<1>4. \A s \in 1..n : s \in Nat /\ (s \in 1..m \/ s > m)
  OBVIOUS
<1>5. PostedUpTo(ev, id, m) \subseteq PostedUpTo(ev, id, n)
  BY <1>2, <1>3
<1>6. \A q \in PostedUpTo(ev, id, m) : q.sequence \in Nat /\ q.sequence <= m
  BY <1>1, <1>2, <1>3
<1>7. ASSUME NEW r \in PostedUpTo(ev, id, n), r \notin PostedUpTo(ev, id, m)
      PROVE  r.sequence \in Nat /\ r.sequence > m
  <2>1. PICK s \in 1..n : ev[s].type = "MessagePosted" /\ ev[s].conversation = id /\ r = row(s)
    BY <1>2
  <2>2. s \notin 1..m
    BY <1>2, <1>7, <2>1
  <2> QED
    BY <1>1, <1>4, <2>1, <2>2
<1> QED
  BY <1>5, <1>6, <1>7

\* A query of the messages returns all of them up to the checkpoint.
LEMMA MessagesQueried ==
  ASSUME EngineInv, NEW id
  PROVE  {m \in tables.messages : m.conversation = id} = PostedUpTo(Ev, id, checkpoint)
<1> DEFINE row(s) == MessageRow([sequence |-> s, event |-> Ev[s]])
<1>1. \A s : row(s).conversation = Ev[s].conversation
  BY DEF MessageRow
<1>2. tables.messages = {row(s) : s \in {m \in 1..checkpoint : Ev[m].type = "MessagePosted"}}
  BY DEF EngineInv, ProjectionOK, RowsOK
<1>3. PostedUpTo(Ev, id, checkpoint) =
        {row(s) : s \in {m \in 1..checkpoint : Ev[m].type = "MessagePosted" /\ Ev[m].conversation = id}}
  BY DEF PostedUpTo
<1> HIDE DEF row
<1> QED
  BY <1>1, <1>2, <1>3

LEMMA ViewStays ==
  ASSUME Grown
  PROVE  /\ \A url : Located(url, req) => ConvOf(url, decision') = ConvOf(url, decision)
         /\ \A id : \A m \in 0..checkpoint : PostedUpTo(Ev', id, m) = PostedUpTo(Ev, id, m)
         /\ \A ts, id : ThreadsStay(ts, tables, id) => ThreadsStay(ts, tables', id)
         /\ \A m \in 0..checkpoint : m \in 0..checkpoint'
<1>1. \A url : Located(url, req) => ConvOf(url, decision') = ConvOf(url, decision)
  BY DEF Grown, Located, ConvOf
<1>2. /\ checkpoint \in Nat /\ checkpoint' \in Nat /\ checkpoint <= checkpoint'
      /\ \A s \in 1..checkpoint : Ev'[s] = Ev[s]
  BY EventsStay DEF Grown, Ev
<1>3. ASSUME NEW id, NEW m \in 0..checkpoint
      PROVE  PostedUpTo(Ev', id, m) = PostedUpTo(Ev, id, m)
  <2> DEFINE ev == Ev
             ev2 == Ev'
  <2>1. \A s \in 1..m : ev2[s] = ev[s]
    <3>1. \A s \in 1..m : s \in 1..checkpoint
      BY <1>2
    <3> QED
      BY <1>2, <3>1
  <2> HIDE DEF ev, ev2
  <2>2. PostedUpTo(ev2, id, m) = PostedUpTo(ev, id, m)
    BY <2>1 DEF PostedUpTo
  <2> QED
    BY <2>2 DEF ev, ev2
<1>4. \A ts, id : ThreadsStay(ts, tables, id) => ThreadsStay(ts, tables', id)
  BY DEF Grown, ThreadsStay
<1>5. \A m \in 0..checkpoint : m \in 0..checkpoint'
  BY <1>2
<1> QED
  BY <1>1, <1>3, <1>4, <1>5

\* The messages read now extend whatever the client was shown before.
LEMMA ReadIsLater ==
  ASSUME EngineInv, NEW a, NEW id, OfConversation(a), a.status = "200",
         ViewOK(a, id, Ev, tables, checkpoint)
  PROVE  /\ id \in tables.conversations \/ DOMAIN a.view = {}
         /\ DOMAIN a.view \subseteq DOMAIN ThreadsOf(tables, id)
         /\ LaterMessages(a.view, PostedUpTo(Ev, id, checkpoint))
<1>1. checkpoint \in Nat
  BY LoggedUpToCheckpoint
<1>2. PICK m \in 0..checkpoint : \A t \in DOMAIN a.view :
        a.view[t].messages = {r \in PostedUpTo(Ev, id, m) : r.thread = t}
  BY DEF ViewOK
<1>3. \A t \in DOMAIN a.view : <<id, t>> \in DOMAIN tables.threads
  BY DEF ViewOK, ThreadsStay
<1>4. id \in tables.conversations \/ DOMAIN a.view = {}
  <2>1. ASSUME NEW t \in DOMAIN a.view
        PROVE  id \in tables.conversations
    <3> DEFINE key == <<id, t>>
    <3>1. key \in DOMAIN tables.threads /\ key[1] = id
      BY <1>3
    <3> HIDE DEF key
    <3> QED
      BY <3>1, ConversationRead
  <2> QED
    BY <2>1
<1>5. DOMAIN a.view \subseteq DOMAIN ThreadsOf(tables, id)
  BY <1>3, ThreadsRead
<1> DEFINE now == PostedUpTo(Ev, id, checkpoint)
           old == PostedUpTo(Ev, id, m)
<1>6. /\ m \in Nat /\ old \subseteq now
      /\ \A q \in old : q.sequence \in Nat /\ q.sequence <= m
      /\ \A r \in now : r \notin old => r.sequence \in Nat /\ r.sequence > m
  BY <1>1, PostedGrows
<1> HIDE DEF now, old
<1>7. ASSUME NEW t \in DOMAIN a.view
      PROVE  /\ a.view[t].messages \subseteq {r \in now : r.thread = t}
             /\ \A r \in now : r.thread = t /\ r \notin a.view[t].messages =>
                  \A q \in a.view[t].messages : q.sequence < r.sequence
  <2>1. a.view[t].messages = {r \in old : r.thread = t}
    BY <1>2 DEF old
  <2>2. ASSUME NEW r \in now, r.thread = t, r \notin a.view[t].messages,
               NEW q \in a.view[t].messages
        PROVE  q.sequence < r.sequence
    <3>1. r \notin old /\ q \in old
      BY <2>1, <2>2
    <3>2. /\ q.sequence \in Nat /\ q.sequence <= m /\ r.sequence \in Nat /\ r.sequence > m
      BY <1>6, <3>1
    <3> QED
      BY <1>6, <3>2
  <2> QED
    BY <1>6, <2>1, <2>2
<1>8. LaterMessages(a.view, PostedUpTo(Ev, id, checkpoint))
  BY <1>7 DEF LaterMessages, now
<1> QED
  BY <1>4, <1>5, <1>8

\* A request that begins to read rows has read none.
LEMMA NothingReadOK ==
  ASSUME NEW g, g.pc # "rows" \/ g.rows = <<>>, NEW id, NEW ev, NEW tb, NEW n, NEW a, NEW dec
  PROVE  SnapshotsOK(g, id, ev, tb, n) /\ AheadOK(g, a, dec)
<1>1. g.pc # "rows" \/ DOMAIN g.rows = {}
  OBVIOUS
<1> QED
  BY <1>1 DEF SnapshotsOK, AheadOK

LEMMA ViewGoesOn ==
  ASSUME EngineInv, ReadsOK, ViewInv, NEW c \in Client, GoesOn(c)
  PROVE  /\ SnapshotsOK(get'[c], ConvOf(get'[c].url, decision), Ev, tables, checkpoint)
         /\ AheadOK(get'[c], answer[c], decision)
<1> DEFINE g   == get[c]
           a   == answer[c]
           new == get'[c]
           id  == ConvOf(g.url, decision)
<1>1. CASE g.pc \in {"ids", "each", "messages"}
  <2>1. PICK pc, url, since, rows : pc # "rows" /\ new = Asking(pc, url, since, rows)
    BY <1>1 DEF GoesOn
  <2>2. new.pc # "rows"
    BY <2>1, AskingFields
  <2> QED
    BY <2>2, NothingReadOK
<1>2. CASE g.pc = "after"
  <2>1. new = Asking("rows", g.url, g.since, <<>>)
    BY <1>2 DEF GoesOn
  <2>2. new.rows = <<>>
    BY <2>1, AskingFields
  <2> QED
    BY <2>2, NothingReadOK
<1>3. CASE g.pc = "rows"
  <2>1. PICK table \in {"conversation", "threads", "messages"} :
          new = Asking("rows", g.url, g.since, Put(g.rows, table, Queried(c, table)))
    BY <1>3 DEF GoesOn
  <2>2. new.pc = "rows" /\ new.url = g.url /\ new.rows = Put(g.rows, table, Queried(c, table))
    BY <2>1, AskingFields
  <2> DEFINE value == Queried(c, table)
  <2>3. id = ConversationOf(g.url)
    BY DEF ConvOf, ConversationOf
  <2>4. /\ table = "conversation" => value = (id \in tables.conversations)
        /\ table = "threads" => value = ThreadsOf(tables, id)
        /\ table = "messages" => value = {m \in tables.messages : m.conversation = id}
    BY <2>3 DEF Queried
  <2>5. /\ DOMAIN new.rows = DOMAIN g.rows \cup {table}
        /\ new.rows[table] = value
        /\ \A k \in DOMAIN g.rows : k # table => new.rows[k] = g.rows[k]
    <3> DEFINE rows == g.rows
               all  == new.rows
    <3>1. all = Put(rows, table, value)
      BY <2>2
    <3> HIDE DEF rows, all, value
    <3>2. /\ DOMAIN all = DOMAIN rows \cup {table}
          /\ all[table] = value
          /\ \A k \in DOMAIN rows : k # table => all[k] = rows[k]
      BY <3>1 DEF Put
    <3> QED
      BY <3>2 DEF rows, all
  <2>6. /\ SnapshotsOK(g, id, Ev, tables, checkpoint)
        /\ ViewOK(a, ConvOf(a.url, decision), Ev, tables, checkpoint)
        /\ AheadOK(g, a, decision)
    BY DEF ViewInv
  <2>7. checkpoint \in 0..checkpoint
    BY LoggedUpToCheckpoint
  <2>8. ThreadsStay(DOMAIN ThreadsOf(tables, id), tables, id)
    BY ThreadsRead DEF ThreadsStay
  <2>9. {m \in tables.messages : m.conversation = id} = PostedUpTo(Ev, id, checkpoint)
    BY MessagesQueried
  <2> HIDE DEF value, id, g, new, a
  <2>10. "threads" \in DOMAIN new.rows => ThreadsStay(DOMAIN new.rows["threads"], tables, id)
    BY <1>3, <2>4, <2>5, <2>6, <2>8 DEF SnapshotsOK
  <2>11. "messages" \in DOMAIN new.rows => \E m \in 0..checkpoint : new.rows["messages"] = PostedUpTo(Ev, id, m)
    BY <1>3, <2>4, <2>5, <2>6, <2>7, <2>9 DEF SnapshotsOK
  <2>12. SnapshotsOK(new, id, Ev, tables, checkpoint)
    BY <2>10, <2>11 DEF SnapshotsOK
  <2>13. ASSUME OfConversation(a), a.status = "200", id = ConvOf(a.url, decision)
         PROVE  /\ "conversation" \in DOMAIN new.rows => new.rows["conversation"] \/ DOMAIN a.view = {}
                /\ "threads" \in DOMAIN new.rows => DOMAIN a.view \subseteq DOMAIN new.rows["threads"]
                /\ "messages" \in DOMAIN new.rows => LaterMessages(a.view, new.rows["messages"])
    <3>1. /\ id \in tables.conversations \/ DOMAIN a.view = {}
          /\ DOMAIN a.view \subseteq DOMAIN ThreadsOf(tables, id)
          /\ LaterMessages(a.view, PostedUpTo(Ev, id, checkpoint))
      BY <2>6, <2>13, ReadIsLater
    <3>2. /\ "conversation" \in DOMAIN g.rows => g.rows["conversation"] \/ DOMAIN a.view = {}
          /\ "threads" \in DOMAIN g.rows => DOMAIN a.view \subseteq DOMAIN g.rows["threads"]
          /\ "messages" \in DOMAIN g.rows => LaterMessages(a.view, g.rows["messages"])
      BY <1>3, <2>6, <2>13 DEF AheadOK, id
    <3>3. "conversation" \in DOMAIN new.rows => new.rows["conversation"] \/ DOMAIN a.view = {}
      BY <2>4, <2>5, <3>1, <3>2
    <3>4. "threads" \in DOMAIN new.rows => DOMAIN a.view \subseteq DOMAIN new.rows["threads"]
      BY <2>4, <2>5, <3>1, <3>2
    <3>5. "messages" \in DOMAIN new.rows => LaterMessages(a.view, new.rows["messages"])
      BY <2>4, <2>5, <2>9, <3>1, <3>2
    <3> QED
      BY <3>3, <3>4, <3>5
  <2>14. ConvOf(new.url, decision) = id
    BY <2>2 DEF id
  <2>15. AheadOK(new, a, decision)
    BY <2>13, <2>14 DEF AheadOK
  <2> QED
    BY <2>12, <2>14, <2>15 DEF new, a
<1> QED
  BY <1>1, <1>2, <1>3 DEF GoesOn

\* An answer about a conversation is put together from the rows read.
LEMMA ConversationAnswers ==
  ASSUME ReadsOK, NEW c \in Client, Answers(c), OfConversation(answer'[c])
  PROVE  LET g == get[c] IN
         /\ g.pc = "rows" /\ DOMAIN g.rows = {"conversation", "threads", "messages"}
         /\ answer'[c].url = g.url
         /\ \/ /\ answer'[c].status = "404" /\ answer'[c].view = <<>>
               /\ g.rows["threads"] = <<>> \/ ~ g.rows["conversation"]
            \/ answer'[c].status = "200" /\ answer'[c].view = View(g.rows["threads"], g.rows["messages"])
<1> DEFINE g == get[c]
           new == answer'[c]
<1>1. RequestOK(g, req)
  BY DEF ReadsOK
<1>2. new.status \in {"200", "404"} /\ new.url.kind \in {"conversation", "location"}
  BY DEF OfConversation
<1>3. ~ GivesNothing(c)
  BY <1>2, GivesFields DEF GivesNothing
<1>4. ASSUME GivesParticipant(c) \/ GivesEvents(c)
      PROVE  FALSE
  <2>1. PICK status, view : g.pc \in {"each", "events"} /\ Gives(c, status, view)
    BY <1>4 DEF GivesParticipant, GivesEvents
  <2>2. new.url = g.url
    BY <2>1, GivesFields
  <2> QED
    BY <1>1, <1>2, <2>1, <2>2 DEF RequestOK, Queries
<1>5. GivesConversation(c)
  BY <1>3, <1>4 DEF Answers
<1>6. g.pc = "rows" /\ DOMAIN g.rows = {"conversation", "threads", "messages"}
  BY <1>5 DEF GivesConversation
<1>7. CASE (g.rows.threads = <<>> \/ ~ g.rows.conversation) /\ Gives(c, "404", <<>>)
  BY <1>6, <1>7, GivesFields
<1>8. CASE Gives(c, "200", View(g.rows.threads, g.rows.messages))
  BY <1>6, <1>8, GivesFields
<1> QED
  BY <1>5, <1>7, <1>8 DEF GivesConversation

LEMMA ViewAnswers ==
  ASSUME ReadsOK, ViewInv, NEW c \in Client, Answers(c)
  PROVE  ViewOK(answer'[c], ConvOf(answer'[c].url, decision), Ev, tables, checkpoint)
<1> DEFINE g == get[c]
           new == answer'[c]
           id == ConvOf(g.url, decision)
           threads == g.rows["threads"]
           messages == g.rows["messages"]
<1>1. SUFFICES ASSUME OfConversation(new), new.status = "200"
               PROVE  ViewOK(new, ConvOf(new.url, decision), Ev, tables, checkpoint)
  BY DEF ViewOK
<1>2. /\ g.pc = "rows" /\ DOMAIN g.rows = {"conversation", "threads", "messages"}
      /\ new.url = g.url /\ new.view = View(threads, messages)
  BY <1>1, ConversationAnswers
<1>3. SnapshotsOK(g, id, Ev, tables, checkpoint)
  BY DEF ViewInv
<1>4. /\ ThreadsStay(DOMAIN threads, tables, id)
      /\ \E m \in 0..checkpoint : messages = PostedUpTo(Ev, id, m)
  BY <1>2, <1>3 DEF SnapshotsOK
<1>5. /\ DOMAIN new.view = DOMAIN threads
      /\ \A t \in DOMAIN threads : new.view[t].messages = {r \in messages : r.thread = t}
  BY <1>2 DEF View
<1>6. ConvOf(new.url, decision) = id
  BY <1>2
<1> HIDE DEF new, id, threads, messages
<1>7. \E m \in 0..checkpoint : \A t \in DOMAIN new.view :
        new.view[t].messages = {r \in PostedUpTo(Ev, id, m) : r.thread = t}
  BY <1>4, <1>5
<1>8. ViewOK(new, id, Ev, tables, checkpoint)
  BY <1>4, <1>5, <1>7 DEF ViewOK
<1> QED
  BY <1>6, <1>8 DEF new

LEMMA ViewNext ==
  ASSUME EngineInv, ReadsOK, ViewInv, [ReadsNext]_<<allVars, readVars>>
  PROVE  ViewInv'
<1>1. Grown
  BY ReadsStep
<1>2. CASE UNCHANGED <<get, answer>>
  <2>1. /\ \A url : Located(url, req) => ConvOf(url, decision') = ConvOf(url, decision)
        /\ \A id : \A m \in 0..checkpoint : PostedUpTo(Ev', id, m) = PostedUpTo(Ev, id, m)
        /\ \A ts, id : ThreadsStay(ts, tables, id) => ThreadsStay(ts, tables', id)
        /\ \A m \in 0..checkpoint : m \in 0..checkpoint'
    BY <1>1, ViewStays
  <2>2. \A g, id : SnapshotsOK(g, id, Ev, tables, checkpoint) => SnapshotsOK(g, id, Ev', tables', checkpoint')
    <3>1. SUFFICES ASSUME NEW g, NEW id, SnapshotsOK(g, id, Ev, tables, checkpoint), g.pc = "rows"
                   PROVE  /\ "threads" \in DOMAIN g.rows => ThreadsStay(DOMAIN g.rows["threads"], tables', id)
                          /\ "messages" \in DOMAIN g.rows =>
                               \E m \in 0..checkpoint' : g.rows["messages"] = PostedUpTo(Ev', id, m)
      BY DEF SnapshotsOK
    <3> QED
      BY <2>1, <3>1 DEF SnapshotsOK
  <2>3. \A a, id : ViewOK(a, id, Ev, tables, checkpoint) => ViewOK(a, id, Ev', tables', checkpoint')
    <3>1. SUFFICES ASSUME NEW a, NEW id, ViewOK(a, id, Ev, tables, checkpoint),
                          OfConversation(a), a.status = "200"
                   PROVE  /\ ThreadsStay(DOMAIN a.view, tables', id)
                          /\ \E m \in 0..checkpoint' : \A t \in DOMAIN a.view :
                               a.view[t].messages = {r \in PostedUpTo(Ev', id, m) : r.thread = t}
      BY DEF ViewOK
    <3>2. PICK m \in 0..checkpoint : \A t \in DOMAIN a.view :
            a.view[t].messages = {r \in PostedUpTo(Ev, id, m) : r.thread = t}
      BY <3>1 DEF ViewOK
    <3>3. m \in 0..checkpoint' /\ PostedUpTo(Ev', id, m) = PostedUpTo(Ev, id, m)
      BY <2>1
    <3>4. ThreadsStay(DOMAIN a.view, tables', id)
      BY <2>1, <3>1 DEF ViewOK
    <3> QED
      BY <3>2, <3>3, <3>4
  <2>4. ASSUME NEW c \in Client
        PROVE  /\ SnapshotsOK(get[c], ConvOf(get[c].url, decision'), Ev', tables', checkpoint')
               /\ ViewOK(answer[c], ConvOf(answer[c].url, decision'), Ev', tables', checkpoint')
               /\ AheadOK(get[c], answer[c], decision')
    <3> DEFINE g == get[c]
               a == answer[c]
    <3>1. /\ SnapshotsOK(g, ConvOf(g.url, decision), Ev, tables, checkpoint)
          /\ ViewOK(a, ConvOf(a.url, decision), Ev, tables, checkpoint)
          /\ AheadOK(g, a, decision)
      BY DEF ViewInv
    <3>2. g.pc = "rows" => Located(g.url, req)
      BY DEF ReadsOK, RequestOK
    <3>3. OfConversation(a) => Located(a.url, req)
      BY DEF ReadsOK, AnsweredOK, OfConversation
    <3>4. SnapshotsOK(g, ConvOf(g.url, decision'), Ev', tables', checkpoint')
      <4>1. CASE g.pc = "rows"
        BY <2>1, <2>2, <3>1, <3>2, <4>1
      <4> QED
        BY <4>1 DEF SnapshotsOK
    <3>5. ViewOK(a, ConvOf(a.url, decision'), Ev', tables', checkpoint')
      <4>1. CASE OfConversation(a)
        BY <2>1, <2>3, <3>1, <3>3, <4>1
      <4> QED
        BY <4>1 DEF ViewOK
    <3>6. AheadOK(g, a, decision')
      <4>1. CASE g.pc = "rows" /\ OfConversation(a)
        <5>1. ConvOf(g.url, decision') = ConvOf(g.url, decision) /\ ConvOf(a.url, decision') = ConvOf(a.url, decision)
          BY <2>1, <3>2, <3>3, <4>1
        <5> QED
          BY <3>1, <5>1 DEF AheadOK
      <4> QED
        BY <4>1 DEF AheadOK
    <3> QED
      BY <3>4, <3>5, <3>6
  <2> QED
    BY <1>2, <2>4 DEF ViewInv
<1>3. ASSUME NEW c \in Client, ClientStep(c), UNCHANGED allVars
      PROVE  ViewInv'
  <2> DEFINE Snap(g) == SnapshotsOK(g, ConvOf(g.url, decision), Ev, tables, checkpoint)
             Seen(a) == ViewOK(a, ConvOf(a.url, decision), Ev, tables, checkpoint)
  <2>1. /\ \A d \in Client : d # c => get'[d] = get[d] /\ answer'[d] = answer[d]
        /\ \/ answer'[c] = answer[c] /\ ((\E url \in Url : \E pc : Asks(c, url, pc)) \/ GoesOn(c))
           \/ get'[c] = Ready /\ Answers(c)
    BY <1>3, ClientEffect
  <2>2. ASSUME NEW url \in Url, NEW pc, Asks(c, url, pc)
        PROVE  Snap(get'[c]) /\ AheadOK(get'[c], answer[c], decision)
    <3>1. get'[c].rows = <<>>
      BY <2>2, AskingFields DEF Asks
    <3> QED
      BY <3>1, NothingReadOK
  <2>3. Ready.pc # "rows"
    BY DEF Ready
  <2>4. Snap(Ready) /\ AheadOK(Ready, answer'[c], decision)
    BY <2>3, NothingReadOK
  <2>5. Seen(answer[c])
    BY DEF ViewInv
  <2>6. GoesOn(c) => Snap(get'[c]) /\ AheadOK(get'[c], answer[c], decision)
    BY ViewGoesOn
  <2>7. Answers(c) => Seen(answer'[c])
    BY ViewAnswers
  <2>8. \A d \in Client : Snap(get[d]) /\ Seen(answer[d]) /\ AheadOK(get[d], answer[d], decision)
    BY DEF ViewInv
  <2> HIDE DEF Snap, Seen
  <2>9. Snap(get'[c]) /\ Seen(answer'[c]) /\ AheadOK(get'[c], answer'[c], decision)
    BY <2>1, <2>2, <2>4, <2>5, <2>6, <2>7
  <2>10. \A d \in Client : Snap(get'[d]) /\ Seen(answer'[d]) /\ AheadOK(get'[d], answer'[d], decision)
    BY <2>1, <2>8, <2>9
  <2>11. log' = log /\ checkpoint' = checkpoint /\ decision' = decision /\ tables' = tables
    BY <1>3 DEF allVars, vars, engineVars
  <2>12. Ev' = Ev
    BY <2>11 DEF Ev, EventAt
  <2> QED
    BY <2>10, <2>11, <2>12 DEF ViewInv, Snap, Seen
<1> QED
  BY <1>2, <1>3, ReadsStep

\* What ViewsExtend says of a step.
Extended(old, new) ==
  OfConversation(old) /\ old.status = "200" /\ OfConversation(new)
    /\ ConversationOf(new.url) = ConversationOf(old.url) =>
    /\ DOMAIN old.view \subseteq DOMAIN new.view
    /\ \A t \in DOMAIN old.view :
         /\ old.view[t].messages \subseteq new.view[t].messages
         /\ \A m \in new.view[t].messages \ old.view[t].messages :
              \A n \in old.view[t].messages : n.sequence < m.sequence

LEMMA AnswerExtends ==
  ASSUME ReadsOK, ViewInv, NEW c \in Client, Answers(c)
  PROVE  Extended(answer[c], answer'[c])
<1> DEFINE g == get[c]
           old == answer[c]
           new == answer'[c]
           threads == g.rows["threads"]
           messages == g.rows["messages"]
<1>1. SUFFICES ASSUME OfConversation(old), old.status = "200", OfConversation(new),
                      ConversationOf(new.url) = ConversationOf(old.url)
               PROVE  Extended(old, new)
  BY DEF Extended
<1>2. /\ g.pc = "rows" /\ DOMAIN g.rows = {"conversation", "threads", "messages"}
      /\ new.url = g.url
      /\ \/ /\ new.status = "404" /\ new.view = <<>>
            /\ threads = <<>> \/ ~ g.rows["conversation"]
         \/ new.status = "200" /\ new.view = View(threads, messages)
  BY <1>1, ConversationAnswers
<1>3. ConvOf(g.url, decision) = ConvOf(old.url, decision)
  BY <1>1, <1>2 DEF ConvOf, ConversationOf
<1>4. AheadOK(g, old, decision)
  BY DEF ViewInv
<1>5. /\ g.rows["conversation"] \/ DOMAIN old.view = {}
      /\ DOMAIN old.view \subseteq DOMAIN threads
      /\ LaterMessages(old.view, messages)
  BY <1>1, <1>2, <1>3, <1>4 DEF AheadOK
<1>6. CASE threads = <<>> \/ ~ g.rows["conversation"]
  <2>1. DOMAIN old.view = {}
    BY <1>5, <1>6
  <2> QED
    BY <2>1 DEF Extended
<1>7. CASE new.view = View(threads, messages)
  <2>1. /\ DOMAIN new.view = DOMAIN threads
        /\ \A t \in DOMAIN threads : new.view[t].messages = {r \in messages : r.thread = t}
    BY <1>7 DEF View
  <2> HIDE DEF old, new, threads, messages
  <2>2. ASSUME NEW t \in DOMAIN old.view
        PROVE  /\ old.view[t].messages \subseteq new.view[t].messages
               /\ \A m \in new.view[t].messages \ old.view[t].messages :
                    \A n \in old.view[t].messages : n.sequence < m.sequence
    <3>1. new.view[t].messages = {r \in messages : r.thread = t}
      BY <1>5, <2>1
    <3> QED
      BY <1>5, <3>1 DEF LaterMessages
  <2> QED
    BY <1>5, <2>1, <2>2 DEF Extended
<1> QED
  BY <1>2, <1>6, <1>7

LEMMA StepExtends ==
  ASSUME EngineInv, ReadsOK, ViewInv, [ReadsNext]_<<allVars, readVars>>, NEW c \in Client
  PROVE  Extended(answer[c], answer'[c])
<1>1. CASE answer'[c] = answer[c]
  BY <1>1 DEF Extended
<1>2. CASE answer'[c] # answer[c]
  <2>1. PICK d \in Client : ClientStep(d)
    BY <1>2, ReadsStep
  <2>2. d = c /\ Answers(c)
    BY <1>2, <2>1, ClientEffect
  <2> QED
    BY <2>2, AnswerExtends
<1> QED
  BY <1>1, <1>2

\* What a client has seen of a conversation stays and what is new comes after
\* it, for any number of relays and although the three queries of each answer
\* are made at three moments.
THEOREM AnswersExtend == ReadsSpec => ViewsExtend
<1>1. ReadsInit => ViewInv
  BY DEF ReadsInit, ViewInv, SnapshotsOK, ViewOK, AheadOK, OfConversation, Ready, NoAnswer
<1>2. EngineInv /\ ReadsOK /\ ViewInv /\ [ReadsNext]_<<allVars, readVars>> => ViewInv'
  BY ViewNext
<1> DEFINE Step == \A c \in Client :
       LET old == answer[c]
           new == answer'[c]
       IN  /\ OfConversation(old) /\ old.status = "200"
           /\ OfConversation(new)
           /\ ConversationOf(new.url) = ConversationOf(old.url)
           => /\ DOMAIN old.view \subseteq DOMAIN new.view
              /\ \A t \in DOMAIN old.view :
                   /\ old.view[t].messages \subseteq new.view[t].messages
                   /\ \A m \in new.view[t].messages \ old.view[t].messages :
                        \A n \in old.view[t].messages : n.sequence < m.sequence
<1>3. EngineInv /\ ReadsOK /\ ViewInv /\ [ReadsNext]_<<allVars, readVars>> => Step
  BY StepExtends DEF Extended
<1> HIDE DEF Step
<1>4. ReadsSpec => [][Step]_<<allVars, readVars>>
  BY <1>1, <1>2, <1>3, ReadsInvariance, PTL DEF ReadsSpec
<1> QED
  BY <1>4 DEF Step, ViewsExtend
==============================================================================
