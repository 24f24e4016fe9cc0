------------------------- MODULE ConversationEngine -------------------------
(***************************************************************************)
(* The conversation engine as a whole: the use cases of internal/ports/in  *)
(* decide on what they read, append through the write path, and the relay  *)
(* applies what was appended to the projection tables, which later         *)
(* decisions read again.                                                   *)
(*                                                                         *)
(* A use case reads in one step (the projection for a reply or a new       *)
(* thread, the event log for a membership change) and appends in later     *)
(* ones; anything may happen in between.  Projection.Get reads its tables  *)
(* at one instant here.  A reply cannot tell: it looks at the thread rows  *)
(* only, and if it misses the conversation row or the thread rows, which   *)
(* are never deleted, neither was there when that first read was made.     *)
(***************************************************************************)
EXTENDS WritePath, EventRows, ProjectionTables

CONSTANT Command   \* per request: the commands it may carry

ASSUME EngineFaultAssumption == "reject" \in Fault
ASSUME EngineBatchAssumption == 1..3 \subseteq BatchSize
ASSUME RecipientsAssumption ==
  \A r \in Request : \A cmd \in Command[r] :
    cmd.kind \in {"start", "addThread"} =>
      cmd.recipients = Nil \/ cmd.recipients \in Seq(Range(cmd.recipients))

VARIABLES
  decision,  \* per request: what its use case decided
  log,       \* the rows of conversation_events and their outbox copies, by sequence
  tables     \* the projection tables

engineVars == <<decision, log, tables>>
allVars    == <<vars, engineVars>>

EngineInit ==
  /\ Init
  /\ decision = [r \in Request |-> Answer("new")]
  /\ log = <<>>
  /\ tables = EmptyTables

-----------------------------------------------------------------------------
(***************************************************************************)
(* The API.                                                                *)
(***************************************************************************)

\* The numbers up to n of the rows of conversation c, and their events.
SequencesUpTo(c, n) ==
  Pick(Interval(1, n), {s \in DOMAIN log : log[s].conversation_id = c})

EventsUpTo(c, n) ==
  LET seqs == SequencesUpTo(c, n)
  IN  [i \in DOMAIN seqs |-> ToDomainEvent(log[seqs[i]])]

ListByConversation(c) == EventsUpTo(c, nextSeq - 1)

Decide(r, outcome) ==
  /\ decision[r].status = "new"
  /\ decision' = [decision EXCEPT ![r] = outcome]
  /\ UNCHANGED <<log, tables>>
  /\ UNCHANGED vars

HandleStart(r, cmd) ==
  /\ cmd.kind = "start"
  /\ Decide(r, StartConversation(cmd, r))

HandleAddThread(r, cmd) ==
  /\ cmd.kind = "addThread"
  /\ Decide(r, AddThread(cmd, r, Exists(tables, cmd.conversation)))

HandleReply(r, cmd) ==
  /\ cmd.kind = "reply"
  /\ Decide(r, ReplyToThread(cmd, ThreadsOf(tables, cmd.conversation)))

\* manage, for both directions: decided on the log, not on the projection.
Manage(r, cmd) ==
  Decide(r, ManageThreadParticipant(cmd, ListByConversation(cmd.conversation)))

HandleAddParticipant(r, cmd) ==
  /\ cmd.kind = "addParticipant"
  /\ Manage(r, cmd)

HandleRemoveParticipant(r, cmd) ==
  /\ cmd.kind = "removeParticipant"
  /\ Manage(r, cmd)

\* The projection or the log cannot be read for a well-formed command: the
\* client is answered 500 and nothing is appended.
ReadFails(r, cmd) ==
  /\ "read" \in Fault
  /\ \/ cmd.kind = "addThread" /\ ValidThread(cmd)
     \/ cmd.kind = "reply" /\ ValidReply(cmd)
     \/ cmd.kind \in {"addParticipant", "removeParticipant"} /\ ValidParticipantChange(cmd)
  /\ Decide(r, Answer("500"))

\* Store.Append up to its commit.
AppendStep(r) ==
  /\ decision[r].status = "append"
  /\ \/ Begin(r, Len(decision[r].batch))
     \/ BeginFails(r)
     \/ InsertEvent(r)
     \/ Rollback(r)
  /\ UNCHANGED engineVars

\* The commit makes the rows of the batch part of the log.
AppendCommit(r) ==
  /\ Commit(r) \/ CommitUnacknowledged(r)
  /\ log' = [s \in DOMAIN log \cup RowsOf(req[r].seqs) |->
               IF s \in DOMAIN log
               THEN log[s]
               ELSE MarshalEvent(decision[r].batch[CHOOSE i \in DOMAIN req[r].seqs :
                                                     req[r].seqs[i] = s])]
  /\ UNCHANGED <<decision, tables>>

-----------------------------------------------------------------------------
(***************************************************************************)
(* The relay.                                                              *)
(***************************************************************************)

\* What Store.Apply makes of the run a relay holds.
ApplyRunTo(rl) ==
  LET seqs == Interval(relay[rl].next, relay[rl].last)
  IN  ApplyEntries(tables, [i \in DOMAIN seqs |->
                              [sequence |-> seqs[i],
                               event |-> ToDomainEvent(log[seqs[i]])]])

DrainStep(rl) ==
  /\ ReadPending(rl) \/ ReadCheckpoint(rl) \/ MarkDone(rl) \/ DrainFails(rl)
  /\ UNCHANGED engineVars

ProjectionApply(rl) ==
  /\ Apply(rl) \/ ApplyUnacknowledged(rl)
  /\ ApplyRunTo(rl).ok
  /\ tables' = ApplyRunTo(rl).tables
  /\ UNCHANGED <<decision, log>>

ProjectionReject(rl) ==
  /\ ApplyRejected(rl)
  /\ ~ ApplyRunTo(rl).ok
  /\ UNCHANGED engineVars

-----------------------------------------------------------------------------
HandlerStep(r, cmd) ==
  \/ HandleStart(r, cmd)
  \/ HandleAddThread(r, cmd)
  \/ HandleReply(r, cmd)
  \/ HandleAddParticipant(r, cmd)
  \/ HandleRemoveParticipant(r, cmd)
  \/ ReadFails(r, cmd)

EngineNext ==
  \/ \E r \in Request : \/ \E cmd \in Command[r] : HandlerStep(r, cmd)
                        \/ AppendStep(r)
                        \/ AppendCommit(r)
  \/ \E rl \in Relay : DrainStep(rl) \/ ProjectionApply(rl) \/ ProjectionReject(rl)

EngineSpec == EngineInit /\ [][EngineNext]_allVars

-----------------------------------------------------------------------------
(***************************************************************************)
(* Properties.                                                             *)
(***************************************************************************)

\* The engine is the write path with contents: every theorem about WritePath
\* holds of it.
ImplementsWritePath == Spec

\* With one relay no run is ever refused by the keys of the projection
\* tables: a thread is applied after its conversation and a message after
\* its thread, although decisions were made on stale reads and sequence
\* numbers of concurrent batches interleave.  A refused run would be retried
\* on every tick and hold up all that follow.
RunsAreApplicable ==
  \A rl \in Relay : relay[rl].pc = "apply" => ApplyRunTo(rl).ok

\* The event that row s of the log stores.
EventAt(s) == ToDomainEvent(log[s])

\* Members of thread t of conversation c by the events numbered up to n.
MembersByLog(c, t, n) == Range(MembersOf(RehydrateConversation(EventsUpTo(c, n)), t))

\* The members of a thread by the projection.
MembersByTables(key) == Range(ParticipantsRow(tables, key))

\* A membership event numbered above s, and applied, about the same thread and
\* participant as e.
ChangedLater(s, e, type) ==
  \E n \in (s + 1)..checkpoint : /\ EventAt(n).type = type
                                 /\ ThreadKey(EventAt(n)) = ThreadKey(e)
                                 /\ EventAt(n).participant = e.participant

\* The effect of event e, numbered s, can be read from the projection.
Visible(s, e) ==
  CASE e.type = "ConversationCreated" -> Exists(tables, e.conversation)
    [] e.type = "ThreadStarted" -> ThreadKey(e) \in DOMAIN tables.threads
    [] e.type = "MessagePosted" -> MessageRow([sequence |-> s, event |-> e]) \in tables.messages
    [] e.type = "ParticipantAdded" -> \/ e.participant \in MembersByTables(ThreadKey(e))
                                      \/ ChangedLater(s, e, "ParticipantRemoved")
    [] e.type = "ParticipantRemoved" -> \/ e.participant \notin MembersByTables(ThreadKey(e))
                                        \/ ChangedLater(s, e, "ParticipantAdded")

\* A client that was answered 202 and polls until the checkpoint reaches its
\* number finds the effect of every event of its write, or sees that a later
\* write has undone it.
ReadYourWrites ==
  \A r \in Request : Projected(r) =>
    \A i \in DOMAIN req[r].seqs : Visible(req[r].seqs[i], decision[r].batch[i])

\* The batch of request q starts the thread, or for a new thread the
\* conversation, that a command is about.
Starts(q, cmd) ==
  \E i \in DOMAIN decision[q].batch :
    LET e == decision[q].batch[i] IN
    /\ e.type = "ThreadStarted"
    /\ e.conversation = cmd.conversation
    /\ cmd.kind # "addThread" => e.thread = cmd.thread

\* A client that has followed the Location of the thread or conversation it
\* created until it stopped getting 202 is never told 404 for it afterwards.
NotFoundOnlyBeforeProjected ==
  [][\A r \in Request : \A cmd \in Command[r] :
       HandlerStep(r, cmd) /\ decision'[r].status = "404"
         => ~ \E q \in Request : Projected(q) /\ Starts(q, cmd)]_allVars

\* Nobody posts to a thread without having been a member of it at an earlier
\* point of the log, however stale the projection was that the reply was
\* authorised on.
AuthorsWereMembers ==
  \A s \in DOMAIN log : EventAt(s).type = "MessagePosted" =>
    \E n \in 1..(s - 1) :
      EventAt(s).author \in MembersByLog(EventAt(s).conversation, EventAt(s).thread, n)

\* Even with overlapping drains the projection holds the threads and the
\* messages of exactly the events up to the checkpoint.
RowsMatchLog ==
  LET upTo(type) == {s \in 1..checkpoint : EventAt(s).type = type} IN
  /\ DOMAIN tables.threads = {ThreadKey(EventAt(s)) : s \in upTo("ThreadStarted")}
  /\ tables.messages = {MessageRow([sequence |-> s, event |-> EventAt(s)])
                          : s \in upTo("MessagePosted")}

\* The aggregate that membership changes are decided on and the projection
\* that everybody reads agree on who is in a thread, at the checkpoint.
MembershipAgrees ==
  \A key \in DOMAIN tables.threads :
    MembersByTables(key) = MembersByLog(key[1], key[2], checkpoint)

\* An add of somebody who, by the log before it, already is a member.
RedundantAdd(s) ==
  /\ EventAt(s).type = "ParticipantAdded"
  /\ EventAt(s).participant \in MembersByLog(EventAt(s).conversation, EventAt(s).thread, s - 1)

\* The aggregate and the projection agree unless two concurrent adds of the
\* same participant both got into the log.
MembershipAgreesUnlessRedundant ==
  (\A s \in 1..checkpoint : ~ RedundantAdd(s)) => MembershipAgrees

\* Event s, a change of somebody's membership, has been handed to the
\* projection again after a later change of the same membership.
ReappliedLate(s) ==
  \E i, j \in DOMAIN applied : /\ i < j
                              /\ applied[j] = s
                              /\ applied[i] > s
                              /\ EventAt(s).type \in {"ParticipantAdded", "ParticipantRemoved"}
                              /\ EventAt(applied[i]).type \in {"ParticipantAdded", "ParticipantRemoved"}
                              /\ ThreadKey(EventAt(applied[i])) = ThreadKey(EventAt(s))
                              /\ EventAt(applied[i]).participant = EventAt(s).participant

\* Overlapping drains may apply a run of membership changes twice, and no key
\* refuses it: array_append puts a second copy of the participant in the row.
\* That does no harm unless the second time comes after a later change of the
\* same membership.
MembershipSurvivesOverlap ==
  (\A s \in 1..checkpoint : ~ RedundantAdd(s) /\ ~ ReappliedLate(s)) => MembershipAgrees
=============================================================================
