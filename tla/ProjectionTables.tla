-------------------------- MODULE ProjectionTables --------------------------
(***************************************************************************)
(* The projection as Postgres stores it, and what Store.Apply does to it   *)
(* (internal/adapters/postgres/projection.go, queries/                     *)
(* conversation_projection.sql, migrations/00001 and 00002):               *)
(*   conversations  the ids in conversation_projection                     *)
(*   threads        <<conversation, thread>> -> its row                    *)
(*   messages       the rows of conversation_projection_messages           *)
(* An entry is a sequence number and the event that carries it.            *)
(***************************************************************************)
EXTENDS Domain

EmptyTables == [conversations |-> {}, threads |-> <<>>, messages |-> {}]

ThreadKey(e) == <<e.conversation, e.thread>>

MessageRow(entry) ==
  [conversation |-> entry.event.conversation, thread |-> entry.event.thread,
   sequence |-> entry.sequence, author |-> entry.event.author]

\* Mutant of MessageConflict: one message per thread.
MessageConflictInThread(tables, entry) ==
  \E m \in tables.messages : /\ m.conversation = entry.event.conversation
                             /\ m.thread = entry.event.thread

\* ON CONFLICT (conversation_id, sequence) DO NOTHING
MessageConflict(tables, entry) ==
  \E m \in tables.messages : /\ m.conversation = entry.event.conversation
                             /\ m.sequence = entry.sequence

\* The foreign and primary keys let the statement for this entry through.
Accepts(tables, entry) ==
  LET e == entry.event IN
  CASE e.type = "ThreadStarted" -> /\ e.conversation \in tables.conversations
                                   /\ ThreadKey(e) \notin DOMAIN tables.threads
    [] e.type = "MessagePosted" -> \/ MessageConflict(tables, entry)
                                   \/ ThreadKey(e) \in DOMAIN tables.threads
    [] OTHER -> TRUE

\* An UPDATE of a thread's participants that matches no row changes nothing.
UpdateParticipants(tables, key, participants) ==
  IF key \in DOMAIN tables.threads
  THEN [tables EXCEPT !.threads[key].participants = participants]
  ELSE tables

ParticipantsRow(tables, key) ==
  IF key \in DOMAIN tables.threads THEN tables.threads[key].participants ELSE <<>>

\* Mutant of ArrayRemove: only the first copy goes.
ArrayRemoveFirst(participants, p) == RemoveFirst(participants, p)

\* array_remove takes out every copy.
ArrayRemove(participants, p) ==
  Pick(participants, {i \in DOMAIN participants : participants[i] # p})

\* The statement for one entry.  array_append may add a second copy.
ApplyEntry(tables, entry) ==
  LET e == entry.event IN
  CASE e.type = "ConversationCreated" ->
         [tables EXCEPT !.conversations = @ \cup {e.conversation}]
    [] e.type = "ThreadStarted" ->
         [tables EXCEPT !.threads = Put(@, ThreadKey(e), [sequence |-> entry.sequence,
                                                          participants |-> Participants(e)])]
    [] e.type = "MessagePosted" ->
         IF MessageConflict(tables, entry)
         THEN tables
         ELSE [tables EXCEPT !.messages = @ \cup {MessageRow(entry)}]
    [] e.type = "ParticipantAdded" ->
         UpdateParticipants(tables, ThreadKey(e),
                            Append(ParticipantsRow(tables, ThreadKey(e)), e.participant))
    [] e.type = "ParticipantRemoved" ->
         UpdateParticipants(tables, ThreadKey(e),
                            ArrayRemove(ParticipantsRow(tables, ThreadKey(e)), e.participant))

\* The loop of Store.Apply: the first failing statement ends the transaction.
ApplyNext(tx, entry) ==
  IF tx.ok /\ Accepts(tx.tables, entry)
  THEN [ok |-> TRUE, tables |-> ApplyEntry(tx.tables, entry)]
  ELSE [ok |-> FALSE, tables |-> tx.tables]

\* Store.Apply: every entry in turn in one transaction, commit or rollback.
ApplyEntries(tables, entries) ==
  LET tx == FoldLeft(ApplyNext, [ok |-> TRUE, tables |-> tables], entries)
  IN  IF tx.ok THEN tx ELSE [ok |-> FALSE, tables |-> tables]

\* Mutant of ThreadsOf: a thread that everybody has left is not listed.
ThreadsWithMembers(tables, c) ==
  LET ids == {key[2] : key \in {k \in DOMAIN tables.threads :
                                  k[1] = c /\ tables.threads[k].participants # <<>>}}
  IN  [t \in ids |-> tables.threads[<<c, t>>].participants]

\* Get, as far as a reply looks at it: the participants of each thread of a
\* conversation, by thread id.  Without a thread there is no conversation.
ThreadsOf(tables, c) ==
  LET ids == {key[2] : key \in {k \in DOMAIN tables.threads : k[1] = c}}
  IN  [t \in ids |-> tables.threads[<<c, t>>].participants]

\* A conversation exists once it has a thread.
Exists(tables, c) == \E key \in DOMAIN tables.threads : key[1] = c
=============================================================================
