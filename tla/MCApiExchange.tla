---------------------------- MODULE MCApiExchange ----------------------------
(***************************************************************************)
(* An instance of ApiExchange for TLC: two callers, in a conversation and  *)
(* a thread with the id "c" that alice has started with bob.               *)
(***************************************************************************)
EXTENDS ApiExchange

Start(author, recipients) ==
  [kind |-> "start", resource |-> "url", title |-> "title", message |-> "text",
   author |-> author, recipients |-> recipients]

NewThreadIn(c, author, recipients) ==
  [kind |-> "addThread", conversation |-> c, title |-> "title", message |-> "text",
   author |-> author, recipients |-> recipients]

Reply(author) ==
  [kind |-> "reply", conversation |-> "c", thread |-> "c", message |-> "text",
   author |-> author]

Change(kind, p) ==
  [kind |-> kind, conversation |-> "c", thread |-> "c", participant |-> p]

Get           == [kind |-> "get", conversation |-> "c", after |-> Nil]
Events(c)     == [kind |-> "events", conversation |-> c]
ByPerson(p)   == [kind |-> "byParticipant", participant |-> p]

Started == StartConversation(Start("alice", <<"bob">>), "c").batch

\* Among them: missing and duplicate fields, a stranger's reply, an empty
\* participant, a conversation that is not there.
Commands ==
  [k1 |-> {Start("carol", <<"bob">>), Start("carol", Nil),
           Reply("bob"), Change("addParticipant", "carol"), Get, Events("c")},
   k2 |-> {NewThreadIn("k1", "bob", <<"bob">>), NewThreadIn("k1", "bob", <<>>), Reply("carol"),
           Reply(Nil), Change("addParticipant", "carol"), Change("addParticipant", ""),
           Change("removeParticipant", "bob"), ByPerson("bob"), Events("k1")}]
==============================================================================
