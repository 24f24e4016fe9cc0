--------------------------- MODULE MCMemoryAdapter ---------------------------
(***************************************************************************)
(* Instance of MemoryAdapter for TLC.  Request 1 starts the conversation   *)
(* with the id 1 that most of the others are about.                        *)
(***************************************************************************)
EXTENDS MemoryAdapter

Start(author, recipients) ==
  [kind |-> "start", resource |-> "url", title |-> "title", message |-> "text",
   author |-> author, recipients |-> recipients]

NewThreadBy(author) ==
  [kind |-> "addThread", conversation |-> 1, title |-> "title", message |-> "text",
   author |-> author, recipients |-> <<"bob">>]

Reply(t) ==
  [kind |-> "reply", conversation |-> 1, thread |-> t, message |-> "text",
   author |-> "bob"]

Change(kind) ==
  [kind |-> kind, conversation |-> 1, thread |-> 1, participant |-> "carol"]

\* Two conversations or up to three more threads, replies to the first
\* two, carol added by two requests and removed by another.
MemoryCommands ==
  <<{Start("alice", <<"bob">>)},
    {Start("bob", <<>>), NewThreadBy("alice"), Change("addParticipant")},
    {NewThreadBy("dave"), Change("addParticipant"), Reply(1)},
    {NewThreadBy("dave"), Change("removeParticipant"), Reply(1), Reply(2)}>>

\* The clock jumps back after the second request and on after the third.
MemoryClock == <<{2}, {3}, {1}, {1, 4}>>

Four == 1..4
==============================================================================
