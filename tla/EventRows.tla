------------------------------ MODULE EventRows ------------------------------
(***************************************************************************)
(* How events are stored: a row of conversation_events (and the row of     *)
(* conversation_outbox with the same number) has the event's type, its     *)
(* conversation and, in payload, the fields of that type (marshalEvent in  *)
(* internal/adapters/postgres/store.go); the relay and the reads of the    *)
(* log rebuild the event from it (toDomainEvent in outbox.go).             *)
(***************************************************************************)
EXTENDS Domain

PayloadOf(e) ==
  CASE e.type = "ConversationCreated" -> <<>>
    [] e.type = "ThreadStarted" ->
         [threadId |-> e.thread, author |-> e.author, recipients |-> e.recipients]
    [] e.type = "MessagePosted" ->
         [threadId |-> e.thread, author |-> e.author]
    [] e.type \in {"ParticipantAdded", "ParticipantRemoved"} ->
         [threadId |-> e.thread, participantId |-> e.participant]

MarshalEvent(e) ==
  [event_type |-> e.type, conversation_id |-> e.conversation, payload |-> PayloadOf(e)]

ToDomainEvent(row) ==
  LET c == row.conversation_id
      p == row.payload
  IN  CASE row.event_type = "ConversationCreated" -> ConversationCreated(c)
        [] row.event_type = "ThreadStarted" ->
             ThreadStarted(c, p.threadId, p.author, p.recipients)
        [] row.event_type = "MessagePosted" -> MessagePosted(c, p.threadId, p.author)
        [] row.event_type = "ParticipantAdded" ->
             ParticipantAdded(c, p.threadId, p.participantId)
        [] row.event_type = "ParticipantRemoved" ->
             ParticipantRemoved(c, p.threadId, p.participantId)
==============================================================================
