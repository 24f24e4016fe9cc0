-------------------------- MODULE ConversationReads --------------------------
(***************************************************************************)
(* The GET requests of the API, next to the engine that keeps changing     *)
(* what they read: a conversation, with or without ?after=N; the           *)
(* conversations of a participant; the events of a conversation.           *)
(*                                                                         *)
(* None of them runs in a transaction: every query has a snapshot of its   *)
(* own, and Get issues its three queries concurrently.                     *)
(***************************************************************************)
EXTENDS ConversationEngine

CONSTANTS
  Client,  \* who sends GET requests, each one at a time
  Url      \* what they ask for

ASSUME LocationAssumption == \A url \in Url : url.kind = "location" => url.request \in Request

VARIABLES
  get,     \* per client: how far its request is, and the rows read so far
  answer   \* per client: the last answer it was given

readVars == <<get, answer>>

Ready    == [pc |-> "ready", url |-> Nil, since |-> 0, rows |-> <<>>]
NoAnswer == [status |-> "none", url |-> Nil, since |-> 0, view |-> <<>>]

ReadsInit ==
  /\ EngineInit
  /\ get = [c \in Client |-> Ready]
  /\ answer = [c \in Client |-> NoAnswer]

\* A location is the conversation of a write, with after = its number.
ConversationOf(url) ==
  IF url.kind = "location" THEN decision[url.request].batch[1].conversation ELSE url.id

-----------------------------------------------------------------------------
\* The request of client c goes on with another query.
Continue(c, pc, rows) ==
  /\ get' = [get EXCEPT ![c].pc = pc, ![c].rows = rows]
  /\ UNCHANGED answer

Respond(c, status, view) ==
  /\ answer' = [answer EXCEPT ![c] = [status |-> status, url |-> get[c].url,
                                      since |-> get[c].since, view |-> view]]
  /\ get' = [get EXCEPT ![c] = Ready]

Receive(c, url, pc) ==
  /\ get[c].pc = "ready"
  /\ get' = [get EXCEPT ![c] = [pc |-> pc, url |-> url, since |-> 0, rows |-> <<>>]]
  /\ UNCHANGED answer

\* One of the queries of Get is left, and the others do not make it 404.
MayFail(rows) ==
  /\ DOMAIN rows # {"conversation", "threads", "messages"}
  /\ "threads" \in DOMAIN rows =>
       /\ rows.threads # <<>>
       /\ "conversation" \in DOMAIN rows => rows.conversation

\* A query fails: the handler answers 500.
QueryFails(c) ==
  /\ get[c].pc # "ready"
  /\ get[c].pc = "rows" => MayFail(get[c].rows)
  /\ get[c].pc = "each" => get[c].rows.todo # {}
  /\ "read" \in Fault
  /\ Respond(c, "500", <<>>)

(***************************************************************************)
(* GET /conversations/{id} and GET /conversations/{id}?after=N             *)
(***************************************************************************)
FollowLocation(c, url) ==
  /\ url.kind = "location"
  /\ req[url.request].state = "accepted"
  /\ Receive(c, url, "after")

GetConversation(c, url) ==
  /\ url.kind = "conversation"
  /\ Receive(c, url, "rows")

\* Mutant of CaughtUp: compares with the number before.
CaughtUpBefore(after) == checkpoint + 1 >= after

CaughtUp(after) == checkpoint >= after

CheckAfter(c) ==
  /\ get[c].pc = "after"
  /\ IF CaughtUp(ReturnedSequence(req[get[c].url.request].seqs))
     THEN Continue(c, "rows", <<>>)
     ELSE Respond(c, "202", <<>>)

\* One of the three queries of Get.
ReadRows(c, table) ==
  LET id == ConversationOf(get[c].url) IN
  /\ get[c].pc = "rows"
  /\ table \notin DOMAIN get[c].rows
  /\ Continue(c, "rows", Put(get[c].rows, table,
       CASE table = "conversation" -> id \in tables.conversations
         [] table = "threads"      -> ThreadsOf(tables, id)
         [] table = "messages"     -> {m \in tables.messages : m.conversation = id}))

\* Threads, each with its participants and those of the messages that are in it.
View(threads, messages) ==
  [t \in DOMAIN threads |-> [participants |-> threads[t],
                             messages |-> {m \in messages : m.thread = t}]]

AnswerConversation(c) ==
  LET rows == get[c].rows IN
  /\ get[c].pc = "rows"
  /\ DOMAIN rows = {"conversation", "threads", "messages"}
  /\ IF rows.threads = <<>> \/ ~ rows.conversation
     THEN Respond(c, "404", <<>>)
     ELSE Respond(c, "200", View(rows.threads, rows.messages))

(***************************************************************************)
(* GET /conversations?participant_id=p.  The order of the result, by time  *)
(* of the latest message, is left out.                                     *)
(***************************************************************************)
ThreadsOfParticipant(id, p) ==
  LET threads == ThreadsOf(tables, id)
  IN  [t \in {u \in DOMAIN threads : Contains(threads[u], p)} |-> threads[t]]

\* Mutant of ConversationsOfParticipant: a member of every thread.
ConversationsOfFullMember(p) ==
  {id \in tables.conversations : ThreadsOfParticipant(id, p) = ThreadsOf(tables, id)}

\* Mutant of ConversationsOfParticipant: whoever is in them.
ConversationsOfAnyone(p) == tables.conversations

ConversationsOfParticipant(p) ==
  {id \in tables.conversations : ThreadsOfParticipant(id, p) # <<>>}

GetByParticipant(c, url) ==
  /\ url.kind = "participant"
  /\ Receive(c, url, "ids")

\* The first query; since records the checkpoint at that moment (history).
ReadIds(c) ==
  /\ get[c].pc = "ids"
  /\ get' = [get EXCEPT ![c].pc = "each",
                        ![c].since = checkpoint,
                        ![c].rows = [todo |-> ConversationsOfParticipant(get[c].url.id),
                                     views |-> <<>>]]
  /\ UNCHANGED answer

\* The loop's next conversation; its row, read first, is never deleted.
ReadThreads(c, id) ==
  LET rows == get[c].rows IN
  /\ get[c].pc = "each"
  /\ id \in rows.todo
  /\ Continue(c, "messages", [todo |-> rows.todo \ {id}, views |-> rows.views, id |-> id,
                              threads |-> ThreadsOfParticipant(id, get[c].url.id)])

ReadMessages(c) ==
  LET rows == get[c].rows
      messages == {m \in tables.messages :
                     /\ m.conversation = rows.id
                     /\ m.thread \in DOMAIN ThreadsOfParticipant(rows.id, get[c].url.id)}
  IN
  /\ get[c].pc = "messages"
  /\ Continue(c, "each", [todo |-> rows.todo,
                          views |-> Put(rows.views, rows.id, View(rows.threads, messages))])

AnswerParticipant(c) ==
  /\ get[c].pc = "each"
  /\ get[c].rows.todo = {}
  /\ Respond(c, "200", get[c].rows.views)

(***************************************************************************)
(* GET /conversations/{id}/events: one query of the log.  An event in the  *)
(* answer is its number.                                                   *)
(***************************************************************************)
ListConversationEvents(c, url) ==
  /\ url.kind = "events"
  /\ Receive(c, url, "events")

AnswerEvents(c) ==
  LET listed == SequencesUpTo(get[c].url.id, nextSeq - 1) IN
  /\ get[c].pc = "events"
  /\ Respond(c, IF listed = <<>> THEN "404" ELSE "200", listed)

-----------------------------------------------------------------------------
ClientStep(c) ==
  \/ \E url \in Url : \/ FollowLocation(c, url)
                      \/ GetConversation(c, url)
                      \/ GetByParticipant(c, url)
                      \/ ListConversationEvents(c, url)
  \/ QueryFails(c)
  \/ CheckAfter(c)
  \/ \E table \in {"conversation", "threads", "messages"} : ReadRows(c, table)
  \/ AnswerConversation(c)
  \/ ReadIds(c)
  \/ \E id \in tables.conversations : ReadThreads(c, id)
  \/ ReadMessages(c)
  \/ AnswerParticipant(c)
  \/ AnswerEvents(c)

ReadsNext ==
  \/ EngineNext /\ UNCHANGED readVars
  \/ \E c \in Client : ClientStep(c) /\ UNCHANGED allVars

ReadsSpec == ReadsInit /\ [][ReadsNext]_<<allVars, readVars>>

-----------------------------------------------------------------------------
(***************************************************************************)
(* Properties.                                                             *)
(***************************************************************************)

\* The view shows the effect of event e, numbered s, or a later write that is
\* in the projection has undone it.
Shows(view, s, e) ==
  CASE e.type = "ConversationCreated" -> TRUE
    [] e.type = "ThreadStarted" -> e.thread \in DOMAIN view
    [] e.type = "MessagePosted" ->
         e.thread \in DOMAIN view /\ \E m \in view[e.thread].messages : m.sequence = s
    [] e.type = "ParticipantAdded" ->
         /\ e.thread \in DOMAIN view
         /\ \/ Contains(view[e.thread].participants, e.participant)
            \/ ChangedLater(s, e, "ParticipantRemoved")
    [] e.type = "ParticipantRemoved" ->
         /\ e.thread \in DOMAIN view
         /\ \/ ~ Contains(view[e.thread].participants, e.participant)
            \/ ChangedLater(s, e, "ParticipantAdded")

\* A client that follows the Location of its write is answered 202 or sees
\* all of the write: never 404 and never a part, although checkpoint,
\* conversation, threads and messages are read at four different moments.
FollowedIsShown ==
  \A c \in Client :
    LET a == answer[c]
        r == a.url.request
    IN  a.status \in {"200", "404"} /\ a.url.kind = "location" =>
          /\ a.status = "200"
          /\ \A i \in DOMAIN req[r].seqs : Shows(a.view, req[r].seqs[i], decision[r].batch[i])

OfConversation(a) == a.status \in {"200", "404"} /\ a.url.kind \in {"conversation", "location"}

\* What a client has seen of a conversation stays, and what is new comes
\* after it: threads do not vanish, even if everybody has left them, and no
\* message appears before one that was shown earlier.
ViewsExtend ==
  [][\A c \in Client :
       LET old == answer[c]
           new == answer'[c]
       IN  /\ OfConversation(old) /\ old.status = "200"
           /\ OfConversation(new)
           /\ ConversationOf(new.url) = ConversationOf(old.url)
           => /\ DOMAIN old.view \subseteq DOMAIN new.view
              /\ \A t \in DOMAIN old.view :
                   /\ old.view[t].messages \subseteq new.view[t].messages
                   /\ \A m \in new.view[t].messages \ old.view[t].messages :
                        \A n \in old.view[t].messages : n.sequence < m.sequence
    ]_<<allVars, readVars>>

\* A participant who was a member at the first query, and was never removed,
\* is shown the thread with all the messages it had then, although ids,
\* threads and messages are read at different moments.
MembersSeeTheirThreads ==
  \A c \in Client :
    LET a == answer[c]
        p == a.url.id
        removed(key) == \E s \in DOMAIN log : /\ EventAt(s).type = "ParticipantRemoved"
                                              /\ ThreadKey(EventAt(s)) = key
                                              /\ EventAt(s).participant = p
    IN  a.status = "200" /\ a.url.kind = "participant" =>
          \A key \in DOMAIN tables.threads :
            p \in MembersByLog(key[1], key[2], a.since) /\ ~ removed(key) =>
              /\ key[1] \in DOMAIN a.view
              /\ key[2] \in DOMAIN a.view[key[1]]
              /\ {m \in tables.messages : /\ <<m.conversation, m.thread>> = key
                                          /\ m.sequence <= a.since}
                   \subseteq a.view[key[1]][key[2]].messages

\* A listing of events makes sense from the top, although numbers become
\* visible out of order: it begins with the conversation, and whatever happens
\* in a thread comes after the start of that thread.
ListingsAreCausal ==
  \A c \in Client :
    LET listed == answer[c].view
    IN  answer[c].status = "200" /\ answer[c].url.kind = "events" =>
          /\ EventAt(listed[1]).type = "ConversationCreated"
          /\ \A i \in 2..Len(listed) :
               EventAt(listed[i]).type # "ThreadStarted" =>
                 \E j \in 1..(i - 1) : /\ EventAt(listed[j]).type = "ThreadStarted"
                                       /\ ThreadKey(EventAt(listed[j])) = ThreadKey(EventAt(listed[i]))

\* A conversation in which the participant is on no thread is omitted, unless
\* the participant was removed while the answer was being put together: the ids
\* are read first and the threads of each in later queries.
EmptyOnlyWhenRemoved ==
  \A c \in Client :
    LET a == answer[c]
    IN  a.status = "200" /\ a.url.kind = "participant" =>
          \A id \in {i \in DOMAIN a.view : a.view[i] = <<>>} :
            \E s \in (a.since + 1)..checkpoint : /\ EventAt(s).type = "ParticipantRemoved"
                                                /\ EventAt(s).conversation = id
                                                /\ EventAt(s).participant = a.url.id
==============================================================================
