------------------------- MODULE MCConversationReads -------------------------
(***************************************************************************)
(* Instances of ConversationReads for TLC: which commands are sent, and    *)
(* what is asked for meanwhile.  As in MCConversationEngine, request 1     *)
(* starts the conversation with the id 1, with alice alone in its thread.  *)
(***************************************************************************)
EXTENDS ConversationReads

Start(author, recipients) ==
  [kind |-> "start", resource |-> "url", title |-> "title", message |-> "text",
   author |-> author, recipients |-> recipients]

NewThreadBy(author, recipients) ==
  [kind |-> "addThread", conversation |-> 1, title |-> "title", message |-> "text",
   author |-> author, recipients |-> recipients]

Reply(author) ==
  [kind |-> "reply", conversation |-> 1, thread |-> 1, message |-> "text",
   author |-> author]

Change(kind, p) ==
  [kind |-> kind, conversation |-> 1, thread |-> 1, participant |-> p]

Location(r)     == [kind |-> "location", request |-> r]
Conversation(c) == [kind |-> "conversation", id |-> c]
EventsOf(c)     == [kind |-> "events", id |-> c]
ByPerson(p)     == [kind |-> "participant", id |-> p]

\* A second thread without alice, her removal, a reply, another conversation.
WriterCommands ==
  <<{Start("alice", <<>>)},
    {NewThreadBy("bob", <<>>), Start("bob", <<"alice">>), Change("removeParticipant", "alice")},
    {Reply("alice")}>>

WriterUrls == {Location(1), Location(2), Conversation(1), ByPerson("alice"), EventsOf(1)}

Three == 1..3
==============================================================================
