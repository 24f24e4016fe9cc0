----------------------------- MODULE ApiExchange -----------------------------
(***************************************************************************)
(* Calls of the API over HTTP, from the driver of the acceptance           *)
(* specifications to the log and back, on connections and a server that    *)
(* may fail at any point, followed by the wait for the projection.         *)
(*                                                                         *)
(* What is behind the handlers is reduced to what WritePath shows of it:   *)
(* an append is one step that commits or does not, its numbers are         *)
(* consecutive, and the relay moves the checkpoint up.  A handler reads at *)
(* one instant (ConversationReads takes the reads apart).                  *)
(***************************************************************************)
EXTENDS HttpMapping

CONSTANTS
  Caller,  \* who calls; a call that mints an id mints its caller's name
  Command, \* per caller: the commands it may send
  Past,    \* the events that are in the log already
  MaxFaults \* bound: how many connections, queries and transactions fail

ASSUME FaultsAssumption == MaxFaults \in Nat

\* Nil is no number, reason or caller, and a body that is whole does not read
\* like one that broke off.
ASSUME NilAssumption == Nil \notin Nat /\ Nil # "reason" /\ Nil \notin Caller /\ Nil # Garbled

\* The driver has a method for every command.
Operations ==
  {"byParticipant", "start", "events", "addThread", "reply", "removeParticipant",
   "addParticipant", "get"}

ASSUME CommandAssumption ==
  \A k \in Caller : \A cmd \in Command[k] :
    cmd.kind \in Operations /\ RequestFor(cmd).body # Garbled

\* One of the five events, with the fields of its type.
IsEvent(e) ==
  \/ e.type = "ConversationCreated" /\ e = ConversationCreated(e.conversation)
  \/ e.type = "ThreadStarted" /\ e = ThreadStarted(e.conversation, e.thread, e.author, e.recipients)
  \/ e.type = "MessagePosted" /\ e = MessagePosted(e.conversation, e.thread, e.author)
  \/ e.type = "ParticipantAdded" /\ e = ParticipantAdded(e.conversation, e.thread, e.participant)
  \/ e.type = "ParticipantRemoved" /\ e = ParticipantRemoved(e.conversation, e.thread, e.participant)

\* The log was written by this program: its conversations have been created.
ASSUME PastAssumption ==
  /\ Past \in Seq(Range(Past))
  /\ \A i \in DOMAIN Past :
       IsEvent(Past[i]) /\ \E j \in DOMAIN Past : Past[j] = ConversationCreated(Past[i].conversation)

VARIABLES
  client,      \* per caller: how far its call, and its wait, are
  exchange,    \* per caller: the request and response under way, the handler
  log,         \* the events, with the caller whose request appended them
  checkpoint,  \* how far the projection is
  tables,      \* the projection tables
  faults       \* how much has failed

vars == <<client, exchange, log, checkpoint, tables, faults>>

Idle    == [pc |-> "idle", cmd |-> Nil, since |-> 0, verdict |-> Verdict("none"),
            waited |-> Verdict("none"), late |-> FALSE]
Nothing == [request |-> Nil, handler |-> Nil, response |-> Nil]

-----------------------------------------------------------------------------
(***************************************************************************)
(* What the use cases read and decide.                                     *)
(***************************************************************************)
EntriesUpTo(n) == [i \in 1..n |-> [sequence |-> i, event |-> log[i].event]]

\* The projection tables when the checkpoint is n.
TablesAt(n) == ApplyEntries(EmptyTables, EntriesUpTo(n)).tables

Init ==
  /\ client = [k \in Caller |-> Idle]
  /\ exchange = [k \in Caller |-> Nothing]
  /\ log = [i \in DOMAIN Past |-> [by |-> Nil, event |-> Past[i]]]
  /\ checkpoint = 0
  /\ tables = EmptyTables
  /\ faults = 0

\* The events of conversation c among the first n, with their numbers.
RecordsAt(c, n) == Pick(EntriesUpTo(n), {i \in 1..n : log[i].event.conversation = c})

\* What ListByConversation returns to the use case of a command, if that asks.
RecordsOf(cmd) ==
  IF cmd.kind \in {"events", "addParticipant", "removeParticipant"}
  THEN RecordsAt(cmd.conversation, Len(log))
  ELSE <<>>

EventsOf(records) == [i \in DOMAIN records |-> records[i].event]

\* The view of those threads of conversation c whose keys are given, in the
\* order they were started, by tables that hold its events in records.
ViewOf(tb, records, c, keys) ==
  LET started == SelectSeq(records, LAMBDA r : r.event.type = "ThreadStarted" /\ ThreadKey(r.event) \in keys)
      posted(t) == SelectSeq(records, LAMBDA r : r.event.type = "MessagePosted" /\ r.event.thread = t)
      thread(e) == LET messages == posted(e.thread)
                   IN  [id |-> e.thread, participants |-> tb.threads[ThreadKey(e)].participants,
                        messages |-> [j \in DOMAIN messages |-> messages[j].event.author]]
  IN  [id |-> c, threads |-> [i \in DOMAIN started |-> thread(started[i].event)]]

FullView(tb, n, c) == ViewOf(tb, RecordsAt(c, n), c, DOMAIN tb.threads)

ViewsOfParticipant(tb, n, p) ==
  LET keys == {key \in DOMAIN tb.threads : Contains(tb.threads[key].participants, p)}
  IN  {v \in {ViewOf(tb, RecordsAt(c, n), c, keys) : c \in tb.conversations} : v.threads # <<>>}

\* Domain decisions carry a batch to append; refusals carry their message.
Decided(d) == IF d.status = "append" THEN Outcome("append", d.batch)
              ELSE IF d.status = "204" THEN Outcome("204", Nil)
              ELSE Outcome(d.status, "reason")

GetConversation(cmd) ==
  CASE cmd.after # Nil /\ checkpoint < cmd.after -> Outcome("202", Nil)
    [] ~ Exists(tables, cmd.conversation) -> Outcome("404", "reason")
    [] OTHER -> Outcome("200", ToConversation(FullView(tables, checkpoint, cmd.conversation)))

ListConversationEvents(records) ==
  IF records = <<>> THEN Outcome("404", "reason")
  ELSE Outcome("200", [i \in DOMAIN records |-> ToEvent(records[i])])

\* The handlers of ConversationHandler, for a request of caller k, when the
\* log has these records of the conversation.
Handler(k, cmd, records) ==
  CASE cmd.kind \in {"unrouted", "malformed"} -> Outcome("none", Nil)
    [] cmd.kind = "start"     -> Decided(StartConversation(cmd, k))
    [] cmd.kind = "addThread" ->
         Decided(AddThread(cmd, k, Exists(tables, cmd.conversation)))
    [] cmd.kind = "reply"     ->
         Decided(ReplyToThread(cmd, ThreadsOf(tables, cmd.conversation)))
    [] cmd.kind \in {"addParticipant", "removeParticipant"} ->
         Decided(ManageThreadParticipant(cmd, EventsOf(records)))
    [] cmd.kind = "get"       -> GetConversation(cmd)
    [] cmd.kind = "events"    -> ListConversationEvents(records)
    [] cmd.kind = "byParticipant" ->
         Outcome("200", {ToConversation(v) : v \in ViewsOfParticipant(tables, checkpoint, cmd.participant)})

-----------------------------------------------------------------------------
(***************************************************************************)
(* The server.  It cannot tell whether anybody still waits for the answer. *)
(***************************************************************************)
Fault == faults < MaxFaults /\ faults' = faults + 1

Listening(k) == client[k].pc \in {"call", "poll"}

\* The response goes out, unless the connection is gone.
Respond(k, response) ==
  exchange' = [exchange EXCEPT ![k] = [Nothing EXCEPT !.response = IF Listening(k) THEN response ELSE Nil]]

Serve(k) ==
  /\ exchange[k].request # Nil
  /\ UNCHANGED <<client, log, checkpoint, tables, faults>>
  /\ \E cmd \in {ServeHTTP(exchange[k].request)} :
     \E records \in {RecordsOf(cmd)} : \E outcome \in {Handler(k, cmd, records)} :
       IF outcome.status = "append"
       THEN exchange' = [exchange EXCEPT ![k] = [Nothing EXCEPT !.handler = [cmd |-> cmd, batch |-> outcome.content]]]
       ELSE Respond(k, ResponseTo(cmd, outcome))

\* A query of the handler fails; StartConversation and what does not reach a
\* use case make none.
ReadFails(k) ==
  /\ Fault
  /\ exchange[k].request # Nil
  /\ \E cmd \in {ServeHTTP(exchange[k].request)} :
       /\ cmd.kind \notin {"unrouted", "malformed", "start"}
       /\ Handler(k, cmd, RecordsOf(cmd)).status # "400"
  /\ Respond(k, TextResponse("500"))
  /\ UNCHANGED <<client, log, checkpoint, tables>>

\* The batch of caller k is in the log.
Commit(k) ==
  LET batch == exchange[k].handler.batch
  IN  log' = log \o [i \in DOMAIN batch |-> [by |-> k, event |-> batch[i]]]

AppendCommits(k) ==
  /\ exchange[k].handler # Nil
  /\ Commit(k)
  /\ LET result == [conversation |-> exchange[k].handler.batch[1].conversation, sequence |-> Len(log')]
     IN  Respond(k, ResponseTo(exchange[k].handler.cmd, Outcome("202", Location(result))))
  /\ UNCHANGED <<client, checkpoint, tables, faults>>

\* The transaction commits, and Append returns an error all the same.
CommitUnacknowledged(k) ==
  /\ Fault
  /\ exchange[k].handler # Nil
  /\ Commit(k)
  /\ Respond(k, TextResponse("500"))
  /\ UNCHANGED <<client, checkpoint, tables>>

\* An error, the end of the process or, with the client gone, a cancelled
\* context: the transaction is rolled back.
AppendFails(k) ==
  /\ exchange[k].handler # Nil
  /\ IF Listening(k) THEN Fault ELSE UNCHANGED faults
  /\ Respond(k, TextResponse("500"))
  /\ UNCHANGED <<client, log, checkpoint, tables>>

\* A drain of the relay, which may find nothing to apply.
Drain ==
  /\ checkpoint' \in checkpoint..Len(log)
  /\ tables' = TablesAt(checkpoint')
  /\ UNCHANGED <<client, exchange, log, faults>>

-----------------------------------------------------------------------------
(***************************************************************************)
(* The driver and its generated client.                                    *)
(***************************************************************************)
Request(k, cmd) == exchange' = [exchange EXCEPT ![k] = [Nothing EXCEPT !.request = RequestFor(cmd)]]

\* How long the log, or how far the projection is that a command reads.
Now(cmd) == CASE cmd.kind \in {"get", "byParticipant"} -> checkpoint
              [] cmd.kind \in {"events", "addParticipant", "removeParticipant"} -> Len(log)
              [] OTHER -> 0

\* since keeps Now (history).
Call(k, cmd) ==
  /\ client[k].pc = "idle"
  /\ client' = [client EXCEPT ![k] = [Idle EXCEPT !.pc = "call", !.cmd = cmd,
                                                  !.since = Now(cmd)]]
  /\ Request(k, cmd)
  /\ UNCHANGED <<log, checkpoint, tables, faults>>

\* An accepted write is waited for; anything else ends the test.
Return(k, verdict) ==
  client' = [client EXCEPT ![k].pc = IF verdict.result = "accepted" THEN "between" ELSE "done",
                           ![k].verdict = verdict]

PollCommand(k) ==
  [kind |-> "get", conversation |-> client[k].verdict.conversation, after |-> client[k].verdict.sequence]

\* One turn of the loop of waitForProjection ends.
Polled(k, verdict) ==
  client' = [client EXCEPT ![k].pc = IF verdict.result = "not caught up" THEN "between" ELSE "done",
                           ![k].waited = verdict]

\* The response arrives.
Receive(k) ==
  /\ Listening(k)
  /\ exchange[k].response # Nil
  /\ UNCHANGED <<log, checkpoint, tables, faults>>
  /\ exchange' = [exchange EXCEPT ![k] = Nothing]
  /\ \E cmd \in {IF client[k].pc = "call" THEN client[k].cmd ELSE PollCommand(k)} :
     \E verdict \in {VerdictOn(cmd, exchange[k].response)} :
       IF client[k].pc = "call" THEN Return(k, verdict) ELSE Polled(k, verdict)

\* Mutant of Disconnect: the client sends its request once more.
SendAgain(k) ==
  /\ Fault
  /\ Listening(k)
  /\ exchange[k].request = Nil
  /\ Request(k, IF client[k].pc = "call" THEN client[k].cmd ELSE PollCommand(k))
  /\ UNCHANGED <<client, log, checkpoint, tables>>

\* The connection breaks, or the context of a poll ends: the call returns an
\* error.  A request that is under way may arrive nevertheless, or not, or
\* break off half way; a handler goes on; a response is lost.
Disconnect(k) ==
  /\ Fault
  /\ Listening(k)
  /\ IF client[k].pc = "call" THEN Return(k, Verdict("error")) ELSE Polled(k, Verdict("error"))
  /\ \/ exchange' = [exchange EXCEPT ![k].request = Nil, ![k].response = Nil]
     \/ exchange' = [exchange EXCEPT ![k].response = Nil]
     \/ /\ exchange[k].request # Nil
        /\ exchange[k].request.body # Nil
        /\ exchange' = [exchange EXCEPT ![k].request.body = Garbled]
  /\ UNCHANGED <<log, checkpoint, tables>>

\* waitForProjection asks again, on the next tick.  Past the deadline the
\* client refuses to send.
Poll(k) ==
  /\ client[k].pc = "between"
  /\ IF client[k].late
     THEN Polled(k, Verdict("error")) /\ UNCHANGED exchange
     ELSE client' = [client EXCEPT ![k].pc = "poll"] /\ Request(k, PollCommand(k))
  /\ UNCHANGED <<log, checkpoint, tables, faults>>

\* Mutant of DeadlinePasses: there is no deadline.
DeadlineNeverPasses(k) ==
  /\ client[k].pc = "never"
  /\ UNCHANGED vars

\* Ten seconds after the wait began.
DeadlinePasses(k) ==
  /\ client[k].pc \in {"between", "poll"}
  /\ ~ client[k].late
  /\ client' = [client EXCEPT ![k].late = TRUE]
  /\ UNCHANGED <<exchange, log, checkpoint, tables, faults>>

\* The other case of the select: the context is done.
GiveUp(k) ==
  /\ client[k].pc = "between"
  /\ client[k].late
  /\ client[k].waited.result = "not caught up"
  /\ Polled(k, Verdict("timeout"))
  /\ UNCHANGED <<exchange, log, checkpoint, tables, faults>>

-----------------------------------------------------------------------------
ServerStep(k) ==
  Serve(k) \/ ReadFails(k) \/ AppendCommits(k) \/ CommitUnacknowledged(k) \/ AppendFails(k)

Next ==
  \/ \E k \in Caller : \/ \E cmd \in Command[k] : Call(k, cmd)
                       \/ ServerStep(k)
                       \/ Receive(k) \/ Disconnect(k)
                       \/ Poll(k) \/ DeadlinePasses(k) \/ GiveUp(k)
  \/ Drain

\* A handler comes to an end, an answer that is there is read, the ticker
\* ticks and time passes.  The relay owes nothing: it may be halted.
Spec ==
  /\ Init
  /\ [][Next]_vars
  /\ \A k \in Caller : /\ WF_vars(Serve(k))
                       /\ WF_vars(AppendCommits(k))
                       /\ WF_vars(Receive(k))
                       /\ WF_vars(Poll(k))
                       /\ WF_vars(DeadlinePasses(k))

-----------------------------------------------------------------------------
(***************************************************************************)
(* Properties.                                                             *)
(***************************************************************************)

\* The numbers of the events that the request of caller k put into the log.
NumbersOf(k) == {n \in DOMAIN log : log[n].by = k}

\* The participant a command is about is on its thread, by the first n events.
MemberAt(cmd, n) ==
  Contains(MembersOf(RehydrateConversation(EventsOf(RecordsAt(cmd.conversation, n))), cmd.thread),
           cmd.participant)

\* What the driver reports of a write is true of the log: an accepted one is
\* there, up to the number given; for a refusal nothing is there, nor will be;
\* and if nothing had to change, that was so at some moment of the call.  Only
\* an error leaves it open.
VerdictsAreTrue ==
  \A k \in Caller :
    LET v == client[k].verdict
    IN  CASE v.result = "accepted" ->
               /\ v.sequence \in NumbersOf(k)
               /\ \A n \in NumbersOf(k) : n <= v.sequence /\ log[n].event.conversation = v.conversation
          [] v.result \in {"refused", "forbidden", "not found", "unchanged"} ->
               /\ NumbersOf(k) = {} /\ exchange[k].handler = Nil
               /\ v.result = "unchanged" =>
                    \E n \in client[k].since..Len(log) :
                      MemberAt(client[k].cmd, n) <=> client[k].cmd.kind = "addParticipant"
          [] OTHER -> TRUE

\* The events a command is there for.
Intended(k, cmd) ==
  CASE cmd.kind = "start" -> StartConversation(cmd, k).batch
    [] cmd.kind = "addThread" -> AddThread(cmd, k, TRUE).batch
    [] cmd.kind = "reply" -> <<MessagePosted(cmd.conversation, cmd.thread, cmd.author)>>
    [] cmd.kind = "addParticipant" -> <<ParticipantAdded(cmd.conversation, cmd.thread, cmd.participant)>>
    [] cmd.kind = "removeParticipant" -> <<ParticipantRemoved(cmd.conversation, cmd.thread, cmd.participant)>>
    [] OTHER -> <<>>

\* Whatever happens to connection, answer and commit, a call puts the events
\* it was made for into the log, all of them, in one block and once, or nothing:
\* there is no second attempt anywhere between driver and log.
WrittenAtMostOnce ==
  \A k \in Caller :
    LET batch == Intended(k, client[k].cmd)
    IN  NumbersOf(k) # {} =>
          \E n \in 0..Len(log) : /\ NumbersOf(k) = (n + 1)..(n + Len(batch))
                                 /\ \A i \in DOMAIN batch : log[n + i].event = batch[i]

\* An event without its conversation, which a listing does not repeat.
Listed(record) ==
  [sequence |-> record.sequence, event |-> [record.event EXCEPT !.conversation = ""]]

\* What the driver hands its caller, after two conversions each way, is a
\* state of the log or of the projection during the call; and a wait for the
\* projection ends with a view that has the awaited write in it.
ReadsAreTrue ==
  [][\A k \in Caller :
       LET cmd == client[k].cmd
           v   == client'[k].verdict
           w   == client'[k].waited
       IN  /\ v # client[k].verdict =>
                /\ v.result = "view" =>
                     \E n \in client[k].since..checkpoint :
                       v.view = FullView(TablesAt(n), n, cmd.conversation)
                /\ v.result = "views" =>
                     \E n \in client[k].since..checkpoint :
                       v.views = ViewsOfParticipant(TablesAt(n), n, cmd.participant)
                /\ v.result = "events" =>
                     \E n \in client[k].since..Len(log) :
                       LET records == RecordsAt(cmd.conversation, n)
                       IN  v.records = [i \in DOMAIN records |-> Listed(records[i])]
           /\ w # client[k].waited /\ w.result = "view" =>
                \E n \in v.sequence..checkpoint : w.view = FullView(TablesAt(n), n, v.conversation)]_vars

\* A refusal always reaches the caller with the reason the server gave: the
\* driver never has to fall back on a message of its own.
RefusalsHaveReasons ==
  \A k \in Caller :
    client[k].verdict.result = "refused" => client[k].verdict.reason # "request rejected"

\* Every call, and every wait for the projection, comes to an end, although
\* connections break and the relay may have halted for good.
EveryCallEnds == \A k \in Caller : client[k].pc # "idle" ~> client[k].pc = "done"
==============================================================================
