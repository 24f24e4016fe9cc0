------------------------ MODULE MCConversationEngine ------------------------
(***************************************************************************)
(* Instances of ConversationEngine for TLC: which commands the requests of *)
(* a run may carry.  Request 1 always starts the conversation that the     *)
(* others are about, so its conversation and thread have the id 1.         *)
(***************************************************************************)
EXTENDS ConversationEngine

Start(author, recipients) ==
  [kind |-> "start", resource |-> "url", title |-> "title", message |-> "text",
   author |-> author, recipients |-> recipients]

NewThreadIn(c, author, recipients) ==
  [kind |-> "addThread", conversation |-> c, title |-> "title", message |-> "text",
   author |-> author, recipients |-> recipients]

Reply(t, author) ==
  [kind |-> "reply", conversation |-> 1, thread |-> t, message |-> "text",
   author |-> author]

Change(kind, p) ==
  [kind |-> kind, conversation |-> 1, thread |-> 1, participant |-> p]

Conversation1 == Start("alice", <<"bob">>)

\* Malformed: a missing field, a duplicate recipient, an empty participant.
Malformed == {[Conversation1 EXCEPT !.title = Nil], Start("alice", <<"bob", "bob">>),
              Reply(1, Nil), Change("addParticipant", "")}

\* Writers of two threads, replies to them and changes of their members.
ThreadCommands ==
  <<{Conversation1},
    {NewThreadIn(1, "bob", <<"carol">>), Change("addParticipant", "carol")} \cup Malformed,
    {Reply(1, "bob"), Reply(1, "carol"), Change("removeParticipant", "carol")},
    {Start("dave", <<>>), Reply(2, "bob"), NewThreadIn(1, "carol", <<>>),
     Change("addParticipant", "carol"), Change("removeParticipant", "bob")}>>

\* Carol is added twice and removed once.
DoubleAddCommands ==
  <<{Conversation1}, {Change("addParticipant", "carol")},
    {Change("addParticipant", "carol")}, {Change("removeParticipant", "carol")}>>

\* A conversation, a reply and a member who comes and goes, under overlapping
\* drains.
OverlapCommands ==
  <<{Conversation1},
    {Reply(1, "bob"), NewThreadIn(1, "bob", <<>>), Change("addParticipant", "carol")},
    {Change("removeParticipant", "carol"), Reply(1, "alice")}>>

Three == 1..3
Four  == 1..4

Faults == {"reject", "read", "begin", "lostAck", "rollback", "afterApply"}
=============================================================================
