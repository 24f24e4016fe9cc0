------------------------------- MODULE Domain -------------------------------
(***************************************************************************)
(* The rules of package internal/domain: which commands are well formed,   *)
(* which events they raise, and the Conversation aggregate that is rebuilt *)
(* from a conversation's events.                                           *)
(*                                                                         *)
(* Titles, texts, URLs and times matter only in being present, message ids *)
(* not at all.  An outcome is what a use case decides: events to append, a *)
(* no-op (204) or a refusal with the status that error_mapping.go gives    *)
(* its error.                                                              *)
(***************************************************************************)
EXTENDS Naturals, Lists, SequencesExt

CONSTANT Nil   \* a field that the client left out

-----------------------------------------------------------------------------
(***************************************************************************)
(* Events.                                                                 *)
(***************************************************************************)
ConversationCreated(c) ==
  [type |-> "ConversationCreated", conversation |-> c]

ThreadStarted(c, t, author, recipients) ==
  [type |-> "ThreadStarted", conversation |-> c, thread |-> t,
   author |-> author, recipients |-> recipients]

MessagePosted(c, t, author) ==
  [type |-> "MessagePosted", conversation |-> c, thread |-> t, author |-> author]

ParticipantAdded(c, t, p) ==
  [type |-> "ParticipantAdded", conversation |-> c, thread |-> t, participant |-> p]

ParticipantRemoved(c, t, p) ==
  [type |-> "ParticipantRemoved", conversation |-> c, thread |-> t, participant |-> p]

\* ThreadStarted.Participants: the author, then the recipients.
Participants(e) == <<e.author>> \o e.recipients

-----------------------------------------------------------------------------
(***************************************************************************)
(* Starting conversations and threads.                                     *)
(***************************************************************************)
ToAppend(batch) == [status |-> "append", batch |-> batch]
Answer(code)    == [status |-> code, batch |-> <<>>]

\* NewRecipients refuses a recipient named twice.
NewRecipientsOK(raw) == IsInjective(raw)

\* The checks of newThread.
ValidThread(cmd) ==
  /\ cmd.title # Nil
  /\ cmd.author # Nil
  /\ cmd.message # Nil
  /\ cmd.recipients # Nil
  /\ NewRecipientsOK(cmd.recipients)
  /\ ~ Contains(cmd.recipients, cmd.author)

NewThread(cmd, c, t) ==
  <<ThreadStarted(c, t, cmd.author, cmd.recipients), MessagePosted(c, t, cmd.author)>>

\* Mutant of StartConversation: the thread comes before its conversation.
StartThreadFirst(cmd, id) ==
  IF cmd.resource # Nil /\ ValidThread(cmd)
  THEN ToAppend(NewThread(cmd, id, id) \o <<ConversationCreated(id)>>)
  ELSE Answer("400")

\* The id minted for a request serves as conversation id and as thread id.
StartConversation(cmd, id) ==
  IF cmd.resource # Nil /\ ValidThread(cmd)
  THEN ToAppend(<<ConversationCreated(id)>> \o NewThread(cmd, id, id))
  ELSE Answer("400")

\* The use case validates before it asks whether the conversation exists.
AddThread(cmd, id, exists) ==
  IF ~ ValidThread(cmd) THEN Answer("400")
  ELSE IF ~ exists THEN Answer("404")
  ELSE ToAppend(NewThread(cmd, cmd.conversation, id))

-----------------------------------------------------------------------------
(***************************************************************************)
(* Replies.  threads maps the ids of the conversation's threads, as the    *)
(* projection shows them, to their participants; it is empty if the        *)
(* conversation is not found.                                              *)
(***************************************************************************)
\* Mutant of AuthorizeReply: anybody may reply.
AuthorizeAnyReply(threads, cmd) ==
  IF cmd.thread \notin DOMAIN threads THEN "404" ELSE "ok"

AuthorizeReply(threads, cmd) ==
  IF cmd.thread \notin DOMAIN threads THEN "404"
  ELSE IF ~ Contains(threads[cmd.thread], cmd.author) THEN "403"
  ELSE "ok"

ValidReply(cmd) == cmd.author # Nil /\ cmd.message # Nil

ReplyToThread(cmd, threads) ==
  IF ~ ValidReply(cmd) THEN Answer("400")
  ELSE IF AuthorizeReply(threads, cmd) # "ok" THEN Answer(AuthorizeReply(threads, cmd))
  ELSE ToAppend(<<MessagePosted(cmd.conversation, cmd.thread, cmd.author)>>)

-----------------------------------------------------------------------------
(***************************************************************************)
(* The Conversation aggregate: its id, and its threads as a function from  *)
(* thread ids to lists of participants.                                    *)
(***************************************************************************)
Put(f, key, value) ==
  [k \in DOMAIN f \cup {key} |-> IF k = key THEN value ELSE f[k]]

MembersOf(conv, t) == IF t \in DOMAIN conv.threads THEN conv.threads[t] ELSE <<>>

\* Mutant of ApplyToAggregate: the case for removals is missing.
ApplyWithoutRemovals(conv, e) ==
  CASE e.type = "ConversationCreated" -> [conv EXCEPT !.id = e.conversation]
    [] e.type = "ThreadStarted" ->
         [conv EXCEPT !.threads = Put(@, e.thread, Participants(e))]
    [] e.type = "ParticipantAdded" ->
         [conv EXCEPT !.threads = Put(@, e.thread, Append(MembersOf(conv, e.thread), e.participant))]
    [] OTHER -> conv

\* Conversation.apply: a removal takes out the first occurrence only.
ApplyToAggregate(conv, e) ==
  CASE e.type = "ConversationCreated" -> [conv EXCEPT !.id = e.conversation]
    [] e.type = "ThreadStarted" ->
         [conv EXCEPT !.threads = Put(@, e.thread, Participants(e))]
    [] e.type = "ParticipantAdded" ->
         [conv EXCEPT !.threads = Put(@, e.thread, Append(MembersOf(conv, e.thread), e.participant))]
    [] e.type = "ParticipantRemoved" /\ e.thread \in DOMAIN conv.threads ->
         [conv EXCEPT !.threads[e.thread] = RemoveFirst(@, e.participant)]
    [] OTHER -> conv

RehydrateConversation(records) ==
  FoldLeft(ApplyToAggregate, [id |-> "", threads |-> <<>>], records)

\* Mutant of AddParticipant: the no-op goes on to Append, without an event.
AddParticipantOrNothing(conv, cmd) ==
  IF cmd.thread \notin DOMAIN conv.threads THEN Answer("404")
  ELSE IF Contains(conv.threads[cmd.thread], cmd.participant) THEN ToAppend(<<>>)
  ELSE ToAppend(<<ParticipantAdded(conv.id, cmd.thread, cmd.participant)>>)

AddParticipant(conv, cmd) ==
  IF cmd.thread \notin DOMAIN conv.threads THEN Answer("404")
  ELSE IF Contains(conv.threads[cmd.thread], cmd.participant) THEN Answer("204")
  ELSE ToAppend(<<ParticipantAdded(conv.id, cmd.thread, cmd.participant)>>)

RemoveParticipant(conv, cmd) ==
  IF cmd.thread \notin DOMAIN conv.threads THEN Answer("404")
  ELSE IF ~ Contains(conv.threads[cmd.thread], cmd.participant) THEN Answer("204")
  ELSE ToAppend(<<ParticipantRemoved(conv.id, cmd.thread, cmd.participant)>>)

ValidParticipantChange(cmd) == cmd.participant # ""

\* manageThreadParticipantUseCase.manage, given the conversation's events.
ManageThreadParticipant(cmd, records) ==
  IF ~ ValidParticipantChange(cmd) THEN Answer("400")
  ELSE IF records = <<>> THEN Answer("404")
  ELSE IF cmd.kind = "addParticipant"
  THEN AddParticipant(RehydrateConversation(records), cmd)
  ELSE RemoveParticipant(RehydrateConversation(records), cmd)
=============================================================================
