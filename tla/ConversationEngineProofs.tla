---------------------- MODULE ConversationEngineProofs ----------------------
(***************************************************************************)
(* Proofs about the engine, for any commands, requests, relays and         *)
(* failures.  It takes only steps of WritePath (first part), what is in    *)
(* the log is causally complete, and the projection tables are what the    *)
(* log and the history of applied runs make them.                          *)
(***************************************************************************)
EXTENDS ConversationEngine, WritePathProofs

Tx == INSTANCE FoldProofs WITH Op <- ApplyNext
Agg == INSTANCE FoldProofs WITH Op <- ApplyToAggregate

-----------------------------------------------------------------------------
(***************************************************************************)
(* The engine takes steps of WritePath only.                               *)
(***************************************************************************)

\* Every batch that a use case hands to Append has one to three events.
BatchesFit ==
  \A r \in Request : Fits(decision[r])

DecisionInv ==
  /\ DOMAIN decision = Request
  /\ BatchesFit

-----------------------------------------------------------------------------
\* A handler decides for one request, within the bounds of a batch.
LEMMA DecideFits ==
  ASSUME DecisionInv, NEW r \in Request, NEW outcome, Decide(r, outcome), Fits(outcome)
  PROVE  DecisionInv'
BY DEF DecisionInv, BatchesFit, Decide

LEMMA HandlerFits ==
  ASSUME DecisionInv, NEW r \in Request, NEW cmd \in Command[r], HandlerStep(r, cmd)
  PROVE  DecisionInv' /\ UNCHANGED vars
<1>1. CASE HandleStart(r, cmd)
  <2> DEFINE outcome == StartConversation(cmd, r)
  <2>1. Decide(r, outcome)
    BY <1>1 DEF HandleStart
  <2>2. Fits(outcome)
    BY StartFits
  <2> QED
    BY <2>1, <2>2, DecideFits DEF Decide
<1>2. CASE HandleAddThread(r, cmd)
  <2> DEFINE exists  == Exists(tables, cmd.conversation)
             outcome == AddThread(cmd, r, exists)
  <2>1. Decide(r, outcome)
    BY <1>2 DEF HandleAddThread
  <2>2. Fits(outcome)
    BY AddThreadFits DEF Exists
  <2> QED
    BY <2>1, <2>2, DecideFits DEF Decide
<1>3. CASE HandleReply(r, cmd)
  <2> DEFINE outcome == ReplyToThread(cmd, ThreadsOf(tables, cmd.conversation))
  <2>1. Decide(r, outcome)
    BY <1>3 DEF HandleReply
  <2>2. Fits(outcome)
    BY ReplyFits
  <2> QED
    BY <2>1, <2>2, DecideFits DEF Decide
<1>4. CASE HandleAddParticipant(r, cmd) \/ HandleRemoveParticipant(r, cmd)
  <2> DEFINE outcome == ManageThreadParticipant(cmd, ListByConversation(cmd.conversation))
  <2>1. Decide(r, outcome)
    BY <1>4 DEF HandleAddParticipant, HandleRemoveParticipant, Manage
  <2>2. Fits(outcome)
    BY ParticipantFits
  <2> QED
    BY <2>1, <2>2, DecideFits DEF Decide
<1>5. CASE ReadFails(r, cmd)
  <2>1. Decide(r, Answer("500"))
    BY <1>5 DEF ReadFails
  <2> QED
    BY <2>1, DecideFits, AnswerFits DEF Decide
<1> QED
  BY <1>1, <1>2, <1>3, <1>4, <1>5 DEF HandlerStep

\* Appending is a step of the write path: the batch has a size it allows.
LEMMA AppendIsRequestStep ==
  ASSUME DecisionInv, NEW r \in Request, AppendStep(r) \/ AppendCommit(r)
  PROVE  RequestStep(r) /\ UNCHANGED decision
<1>1. CASE AppendStep(r)
  <2>1. Len(decision[r].batch) \in BatchSize
    BY <1>1, EngineBatchAssumption DEF AppendStep, DecisionInv, BatchesFit, Fits, IsBatch
  <2> QED
    BY <1>1, <2>1 DEF AppendStep, RequestStep, engineVars
<1>2. CASE AppendCommit(r)
  BY <1>2 DEF AppendCommit, RequestStep
<1> QED
  BY <1>1, <1>2

LEMMA RelayIsRelayStep ==
  ASSUME NEW rl \in Relay, DrainStep(rl) \/ ProjectionApply(rl) \/ ProjectionReject(rl)
  PROVE  RelayStep(rl) /\ UNCHANGED decision
BY DEF DrainStep, ProjectionApply, ProjectionReject, RelayStep, engineVars

LEMMA EngineStep ==
  ASSUME DecisionInv, [EngineNext]_allVars
  PROVE  DecisionInv' /\ [Next]_vars
<1>1. CASE UNCHANGED allVars
  BY <1>1 DEF allVars, engineVars, DecisionInv, BatchesFit
<1>2. ASSUME NEW r \in Request, NEW cmd \in Command[r], HandlerStep(r, cmd)
      PROVE  DecisionInv' /\ [Next]_vars
  BY <1>2, HandlerFits
<1>3. ASSUME NEW r \in Request, AppendStep(r) \/ AppendCommit(r)
      PROVE  DecisionInv' /\ [Next]_vars
  BY <1>3, AppendIsRequestStep DEF Next, DecisionInv, BatchesFit
<1>4. ASSUME NEW rl \in Relay, DrainStep(rl) \/ ProjectionApply(rl) \/ ProjectionReject(rl)
      PROVE  DecisionInv' /\ [Next]_vars
  BY <1>4, RelayIsRelayStep DEF Next, DecisionInv, BatchesFit
<1> QED
  BY <1>1, <1>2, <1>3, <1>4 DEF EngineNext

LEMMA EngineInitOK == EngineInit => DecisionInv /\ Init
BY AnswerFits DEF EngineInit, DecisionInv, BatchesFit

-----------------------------------------------------------------------------
\* The engine implements the write path: commands, decisions on stale reads
\* and refused runs included, each of its steps is one of WritePath.
THEOREM EngineImplementsWritePath == EngineSpec => ImplementsWritePath
<1>1. EngineInit => DecisionInv /\ Init
  BY EngineInitOK
<1>2. DecisionInv /\ [EngineNext]_allVars => DecisionInv' /\ [Next]_vars
  BY EngineStep
<1> QED
  BY <1>1, <1>2, PTL DEF EngineSpec, ImplementsWritePath, Spec

\* So Append is all or nothing, no event is lost and an accepted write is
\* readable at its number, for every set of commands that clients may send.
THEOREM EngineIsSafe ==
  EngineSpec => [](BatchAllOrNothing /\ NothingLost /\ AcceptedIsReadable)
BY EngineImplementsWritePath, AppendIsAtomic, NoEventLost, AcceptedReadable, PTL
   DEF ImplementsWritePath

-----------------------------------------------------------------------------
(***************************************************************************)
(* What the events of a log may be relied on for.  A log is a function ev  *)
(* from numbers to events here, possibly with holes.                       *)
(***************************************************************************)

\* The shape of an event; nobody is named twice when a thread starts.
IsEvent(e) ==
  \/ e.type = "ConversationCreated" /\ e = ConversationCreated(e.conversation)
  \/ /\ e.type = "ThreadStarted"
     /\ e = ThreadStarted(e.conversation, e.thread, e.author, e.recipients)
     /\ IsList(Participants(e))
     /\ IsInjective(Participants(e))
  \/ e.type = "MessagePosted" /\ e = MessagePosted(e.conversation, e.thread, e.author)
  \/ e.type = "ParticipantAdded" /\ e = ParticipantAdded(e.conversation, e.thread, e.participant)
  \/ e.type = "ParticipantRemoved" /\ e = ParticipantRemoved(e.conversation, e.thread, e.participant)

\* The participants that event e puts on the thread with the given key, and
\* those that it takes off.
Joined(e, key) ==
  CASE e.type = "ThreadStarted" /\ ThreadKey(e) = key -> Range(Participants(e))
    [] e.type = "ParticipantAdded" /\ ThreadKey(e) = key -> {e.participant}
    [] OTHER -> {}

Left(e, key) ==
  IF e.type = "ParticipantRemoved" /\ ThreadKey(e) = key THEN {e.participant} ELSE {}

\* Who has joined a thread and not left it since, by the events numbered
\* q[1], q[2] and so on, in this order.
MembersAfter(ev, q, key) ==
  UNION {Joined(ev[q[i]], key) \ UNION {Left(ev[q[j]], key) : j \in (i + 1)..Len(q)}
           : i \in 1..Len(q)}

\* What event e is about is there already, by the earlier ones, and the
\* author of a message has joined its thread.
Founded(e, earlier) ==
  /\ e.type = "ThreadStarted" =>
       \E f \in earlier : f.type = "ConversationCreated" /\ f.conversation = e.conversation
  /\ e.type \in {"MessagePosted", "ParticipantAdded", "ParticipantRemoved"} =>
       \E f \in earlier : f.type = "ThreadStarted" /\ ThreadKey(f) = ThreadKey(e)
  /\ e.type = "MessagePosted" =>
       \E f \in earlier : e.author \in Joined(f, ThreadKey(e))

\* The events of a log before number s.
EarlierIn(ev, s) == {ev[n] : n \in DOMAIN ev \cap 1..(s - 1)}

\* Every event is founded on earlier ones, and no thread starts twice.
LogOK(ev) ==
  /\ DOMAIN ev \subseteq Nat \ {0}
  /\ \A s \in DOMAIN ev : IsEvent(ev[s]) /\ Founded(ev[s], EarlierIn(ev, s))
  /\ \A s, n \in DOMAIN ev : /\ ev[s].type = "ThreadStarted"
                             /\ ev[n].type = "ThreadStarted"
                             /\ ThreadKey(ev[s]) = ThreadKey(ev[n])
                             => s = n

-----------------------------------------------------------------------------
(***************************************************************************)
(* What the projection tables are, after the events numbered q[1], q[2]... *)
(* of log ev were applied, with the checkpoint at n.                       *)
(***************************************************************************)

\* The columns of the tables.
TablesOK(tb) ==
  /\ tb = [conversations |-> tb.conversations, threads |-> tb.threads,
           messages |-> tb.messages]
  /\ \A key \in DOMAIN tb.threads :
       /\ tb.threads[key] = [sequence |-> tb.threads[key].sequence,
                             participants |-> tb.threads[key].participants]
       /\ IsList(tb.threads[key].participants)

\* The rows are those of the first n events.
RowsOK(ev, tb, n) ==
  /\ DOMAIN tb.threads = {ThreadKey(ev[s]) : s \in {m \in 1..n : ev[m].type = "ThreadStarted"}}
  /\ tb.messages = {MessageRow([sequence |-> s, event |-> ev[s]])
                      : s \in {m \in 1..n : ev[m].type = "MessagePosted"}}
  /\ \A s \in 1..n : ev[s].type \in {"ConversationCreated", "ThreadStarted"}
                       => ev[s].conversation \in tb.conversations

\* Nothing beyond the checkpoint was applied, and nothing with a higher number
\* than a thread's start before it.
HistoryOK(ev, q, n) ==
  /\ q \in Seq(Nat)
  /\ RowsOf(q) \subseteq 1..n
  /\ \A i, j \in DOMAIN q : i < j /\ ev[q[j]].type = "ThreadStarted" => q[i] < q[j]

\* The participants of a thread, as they were applied.
MembersOK(ev, tb, q) ==
  \A key \in DOMAIN tb.threads : Range(tb.threads[key].participants) = MembersAfter(ev, q, key)

ProjectionOK(ev, tb, q, n) ==
  /\ TablesOK(tb)
  /\ RowsOK(ev, tb, n)
  /\ HistoryOK(ev, q, n)
  /\ MembersOK(ev, tb, q)

-----------------------------------------------------------------------------
(***************************************************************************)
(* Lemmas about events.                                                    *)
(***************************************************************************)

\* An event comes back from its row as it went in.
LEMMA RoundTrip ==
  ASSUME NEW e, IsEvent(e)
  PROVE  ToDomainEvent(MarshalEvent(e)) = e
<1>1. CASE e.type = "ConversationCreated"
  BY <1>1 DEF IsEvent, ToDomainEvent, MarshalEvent, PayloadOf, ConversationCreated
<1>2. CASE e.type = "ThreadStarted"
  BY <1>2 DEF IsEvent, ToDomainEvent, MarshalEvent, PayloadOf, ThreadStarted
<1>3. CASE e.type = "MessagePosted"
  BY <1>3 DEF IsEvent, ToDomainEvent, MarshalEvent, PayloadOf, MessagePosted
<1>4. CASE e.type = "ParticipantAdded"
  BY <1>4 DEF IsEvent, ToDomainEvent, MarshalEvent, PayloadOf, ParticipantAdded
<1>5. CASE e.type = "ParticipantRemoved"
  BY <1>5 DEF IsEvent, ToDomainEvent, MarshalEvent, PayloadOf, ParticipantRemoved
<1> QED
  BY <1>1, <1>2, <1>3, <1>4, <1>5 DEF IsEvent

\* More earlier events do not take a foundation away.
LEMMA FoundedMonotone ==
  ASSUME NEW e, NEW A, NEW B, A \subseteq B, Founded(e, A)
  PROVE  Founded(e, B)
BY DEF Founded

\* Members, one by one.
LEMMA MembersAfterIn ==
  ASSUME NEW ev, NEW q, NEW key, NEW p
  PROVE  p \in MembersAfter(ev, q, key) <=>
           \E i \in 1..Len(q) : /\ p \in Joined(ev[q[i]], key)
                                /\ \A j \in (i + 1)..Len(q) : p \notin Left(ev[q[j]], key)
BY DEF MembersAfter

\* One more event applied.
LEMMA MembersAfterAppend ==
  ASSUME NEW ev, NEW q \in Seq(Nat), NEW s \in Nat, NEW key, Left(ev[s], key) \cap Joined(ev[s], key) = {}
  PROVE  MembersAfter(ev, Append(q, s), key) =
           (MembersAfter(ev, q, key) \ Left(ev[s], key)) \cup Joined(ev[s], key)
<1> DEFINE n   == Len(q)
           new == Append(q, s)
<1>1. /\ n \in Nat
      /\ Len(new) = n + 1
      /\ new[n + 1] = s
      /\ \A i \in 1..n : new[i] = q[i]
  OBVIOUS
<1> HIDE DEF n, new
<1>2. ASSUME NEW p
      PROVE  p \in MembersAfter(ev, new, key) <=>
               \/ p \in MembersAfter(ev, q, key) /\ p \notin Left(ev[s], key)
               \/ p \in Joined(ev[s], key)
  <2>1. p \in MembersAfter(ev, new, key) <=>
           \E i \in 1..(n + 1) : /\ p \in Joined(ev[new[i]], key)
                                 /\ \A j \in (i + 1)..(n + 1) : p \notin Left(ev[new[j]], key)
    BY <1>1, MembersAfterIn
  <2>2. p \in MembersAfter(ev, q, key) <=>
           \E i \in 1..n : /\ p \in Joined(ev[q[i]], key)
                           /\ \A j \in (i + 1)..n : p \notin Left(ev[q[j]], key)
    BY MembersAfterIn DEF n
  <2>3. ASSUME p \in MembersAfter(ev, new, key)
        PROVE  \/ p \in MembersAfter(ev, q, key) /\ p \notin Left(ev[s], key)
               \/ p \in Joined(ev[s], key)
    <3>1. PICK i \in 1..(n + 1) : /\ p \in Joined(ev[new[i]], key)
                                  /\ \A j \in (i + 1)..(n + 1) : p \notin Left(ev[new[j]], key)
      BY <2>1, <2>3
    <3>2. CASE i = n + 1
      BY <3>1, <3>2, <1>1
    <3>3. CASE i # n + 1
      <4>1. i \in 1..n /\ n + 1 \in (i + 1)..(n + 1)
        BY <3>3, <1>1
      <4>2. p \in Joined(ev[q[i]], key) /\ p \notin Left(ev[s], key)
        BY <3>1, <4>1, <1>1
      <4>3. \A j \in (i + 1)..n : j \in (i + 1)..(n + 1) /\ new[j] = q[j]
        BY <4>1, <1>1
      <4>4. \A j \in (i + 1)..n : p \notin Left(ev[q[j]], key)
        BY <3>1, <4>3
      <4> QED
        BY <2>2, <4>1, <4>2, <4>4
    <3> QED
      BY <3>2, <3>3
  <2>4. ASSUME p \in Joined(ev[s], key)
        PROVE  p \in MembersAfter(ev, new, key)
    <3>1. n + 1 \in 1..(n + 1) /\ (n + 1 + 1)..(n + 1) = {}
      BY <1>1
    <3> QED
      BY <2>1, <2>4, <3>1, <1>1
  <2>5. ASSUME p \in MembersAfter(ev, q, key), p \notin Left(ev[s], key)
        PROVE  p \in MembersAfter(ev, new, key)
    <3>1. PICK i \in 1..n : /\ p \in Joined(ev[q[i]], key)
                            /\ \A j \in (i + 1)..n : p \notin Left(ev[q[j]], key)
      BY <2>2, <2>5
    <3>2. i \in 1..(n + 1) /\ new[i] = q[i]
      BY <1>1
    <3>3. ASSUME NEW j \in (i + 1)..(n + 1)
          PROVE  p \notin Left(ev[new[j]], key)
      <4>1. CASE j = n + 1
        BY <4>1, <1>1, <2>5
      <4>2. CASE j # n + 1
        <5>1. j \in (i + 1)..n /\ new[j] = q[j]
          BY <4>2, <1>1
        <5> QED
          BY <5>1, <3>1
      <4> QED
        BY <4>1, <4>2
    <3> QED
      BY <2>1, <3>1, <3>2, <3>3
  <2> QED
    BY <2>3, <2>4, <2>5
<1> QED
  BY <1>2 DEF new

-----------------------------------------------------------------------------
(***************************************************************************)
(* Store.Apply keeps the projection what log and history make it.          *)
(***************************************************************************)

\* What the statement for event e, numbered s, makes of tables tb if the keys
\* let it through.
Effect(tb, new, s, e) ==
  /\ TablesOK(new)
  /\ new.conversations = tb.conversations \cup
       (IF e.type = "ConversationCreated" THEN {e.conversation} ELSE {})
  /\ new.messages = tb.messages \cup
       (IF e.type = "MessagePosted" /\ ~ MessageConflict(tb, [sequence |-> s, event |-> e])
        THEN {MessageRow([sequence |-> s, event |-> e])} ELSE {})
  /\ DOMAIN new.threads = DOMAIN tb.threads \cup
       (IF e.type = "ThreadStarted" THEN {ThreadKey(e)} ELSE {})
  /\ \A key \in DOMAIN new.threads :
       Range(new.threads[key].participants) =
         (Range(ParticipantsRow(tb, key)) \ Left(e, key)) \cup Joined(e, key)

LEMMA ApplyEntryEffect ==
  ASSUME NEW tb, TablesOK(tb), NEW s, NEW e, IsEvent(e), NEW new,
         Accepts(tb, [sequence |-> s, event |-> e]),
         new = ApplyEntry(tb, [sequence |-> s, event |-> e])
  PROVE  Effect(tb, new, s, e)
<1> DEFINE entry == [sequence |-> s, event |-> e]
           k     == ThreadKey(e)
           with(p) == [conversations |-> tb.conversations,
                       threads |-> [tb.threads EXCEPT ![k] = [sequence |-> tb.threads[k].sequence,
                                                              participants |-> p]],
                       messages |-> tb.messages]
<1>0. entry.sequence = s /\ entry.event = e
  OBVIOUS
<1>1. CASE e.type = "ConversationCreated"
  <2>1. new = [conversations |-> tb.conversations \cup {e.conversation},
               threads |-> tb.threads, messages |-> tb.messages]
    BY <1>1, <1>0 DEF ApplyEntry, TablesOK
  <2>2. \A key \in DOMAIN tb.threads : Left(e, key) = {} /\ Joined(e, key) = {}
    BY <1>1 DEF Left, Joined
  <2> QED
    BY <2>1, <2>2, <1>1 DEF TablesOK, ParticipantsRow, Effect
<1>2. CASE e.type = "ThreadStarted"
  <2>1. new = [conversations |-> tb.conversations,
               threads |-> Put(tb.threads, k, [sequence |-> s, participants |-> Participants(e)]),
               messages |-> tb.messages]
    BY <1>2, <1>0 DEF ApplyEntry, TablesOK
  <2>2. k \notin DOMAIN tb.threads
    BY <1>2, <1>0 DEF Accepts
  <2>3. IsList(Participants(e))
    BY <1>2 DEF IsEvent
  <2> HIDE DEF k
  <2>4. /\ DOMAIN new.threads = DOMAIN tb.threads \cup {k}
        /\ new.threads[k] = [sequence |-> s, participants |-> Participants(e)]
        /\ \A key \in DOMAIN tb.threads : new.threads[key] = tb.threads[key]
    BY <2>1, <2>2 DEF Put
  <2>5. TablesOK(new)
    BY <2>1, <2>3, <2>4 DEF TablesOK
  <2>6. ASSUME NEW key \in DOMAIN new.threads
        PROVE  Range(new.threads[key].participants) =
                 (Range(ParticipantsRow(tb, key)) \ Left(e, key)) \cup Joined(e, key)
    <3>1. Left(e, key) = {}
      BY <1>2 DEF Left
    <3>2. CASE key = k
      <4>1. ParticipantsRow(tb, key) = <<>> /\ Joined(e, key) = Range(Participants(e))
        BY <3>2, <2>2, <1>2 DEF ParticipantsRow, Joined, k
      <4>2. Range(<<>>) = {}
        BY DEF Range
      <4> QED
        BY <3>1, <3>2, <4>1, <4>2, <2>4
    <3>3. CASE key # k
      <4>1. ParticipantsRow(tb, key) = new.threads[key].participants /\ Joined(e, key) = {}
        BY <3>3, <2>4, <1>2 DEF ParticipantsRow, Joined, k
      <4> QED
        BY <3>1, <4>1
    <3> QED
      BY <3>2, <3>3
  <2>7. new.conversations = tb.conversations /\ new.messages = tb.messages
    BY <2>1
  <2> QED
    BY <1>2, <2>4, <2>5, <2>6, <2>7 DEF k, Effect
<1>3. CASE e.type = "MessagePosted"
  <2>1. new = [conversations |-> tb.conversations, threads |-> tb.threads,
               messages |-> tb.messages \cup
                 (IF ~ MessageConflict(tb, entry) THEN {MessageRow(entry)} ELSE {})]
    BY <1>3, <1>0 DEF ApplyEntry, TablesOK
  <2>2. \A key \in DOMAIN tb.threads : Left(e, key) = {} /\ Joined(e, key) = {}
    BY <1>3 DEF Left, Joined
  <2> HIDE DEF entry
  <2>3. /\ new.conversations = tb.conversations
        /\ new.threads = tb.threads
        /\ new.messages = tb.messages \cup
             (IF ~ MessageConflict(tb, entry) THEN {MessageRow(entry)} ELSE {})
        /\ new = [conversations |-> new.conversations, threads |-> new.threads,
                  messages |-> new.messages]
    BY <2>1
  <2>4. TablesOK(new)
    BY <2>3 DEF TablesOK
  <2>5. \A key \in DOMAIN new.threads :
              Range(new.threads[key].participants) =
                (Range(ParticipantsRow(tb, key)) \ Left(e, key)) \cup Joined(e, key)
    BY <2>2, <2>3 DEF ParticipantsRow
  <2> QED
    BY <1>3, <2>3, <2>4, <2>5 DEF entry, Effect
<1>4. CASE /\ e.type \in {"ParticipantAdded", "ParticipantRemoved"}
           /\ k \notin DOMAIN tb.threads
  <2>1. new = tb
    BY <1>4, <1>0 DEF ApplyEntry, UpdateParticipants
  <2>2. \A key \in DOMAIN tb.threads : Left(e, key) = {} /\ Joined(e, key) = {}
    BY <1>4 DEF Left, Joined
  <2> QED
    BY <2>1, <2>2, <1>4 DEF ParticipantsRow, Effect
<1>5. ASSUME k \in DOMAIN tb.threads, NEW p, IsList(p), new = with(p),
             e.type \in {"ParticipantAdded", "ParticipantRemoved"},
             Range(p) = (Range(ParticipantsRow(tb, k)) \ Left(e, k)) \cup Joined(e, k)
      PROVE  Effect(tb, new, s, e)
  <2> HIDE DEF k
  <2>1. /\ new.conversations = tb.conversations
        /\ new.messages = tb.messages
        /\ DOMAIN new.threads = DOMAIN tb.threads
        /\ new.threads[k] = [sequence |-> tb.threads[k].sequence, participants |-> p]
        /\ \A key \in DOMAIN tb.threads : key # k => new.threads[key] = tb.threads[key]
        /\ new = [conversations |-> new.conversations, threads |-> new.threads,
                  messages |-> new.messages]
    BY <1>5
  <2>2. TablesOK(new)
    BY <1>5, <2>1 DEF TablesOK
  <2>3. ASSUME NEW key \in DOMAIN new.threads
        PROVE  Range(new.threads[key].participants) =
                 (Range(ParticipantsRow(tb, key)) \ Left(e, key)) \cup Joined(e, key)
    <3>1. CASE key = k
      BY <3>1, <2>1, <1>5
    <3>2. CASE key # k
      <4>1. Left(e, key) = {} /\ Joined(e, key) = {}
        BY <3>2, <1>5 DEF Left, Joined, k
      <4>2. ParticipantsRow(tb, key) = new.threads[key].participants
        BY <3>2, <2>1 DEF ParticipantsRow
      <4> QED
        BY <4>1, <4>2
    <3> QED
      BY <3>1, <3>2
  <2> QED
    BY <1>5, <2>1, <2>2, <2>3 DEF Effect
<1>6. ASSUME k \in DOMAIN tb.threads
      PROVE  /\ IsList(tb.threads[k].participants)
             /\ ParticipantsRow(tb, k) = tb.threads[k].participants
  BY <1>6 DEF TablesOK, ParticipantsRow
<1>7. CASE e.type = "ParticipantAdded" /\ k \in DOMAIN tb.threads
  <2> DEFINE row == tb.threads[k].participants
             p   == Append(row, e.participant)
  <2>1. IsList(p) /\ Range(p) = Range(row) \cup {e.participant}
    BY <1>6, <1>7, AppendFacts
  <2>2. Left(e, k) = {} /\ Joined(e, k) = {e.participant}
    BY <1>7 DEF Left, Joined
  <2>3. new = UpdateParticipants(tb, k, p)
    BY <1>7, <1>6, <1>0 DEF ApplyEntry
  <2> HIDE DEF p, k
  <2>4. new = with(p)
    BY <2>3, <1>7 DEF UpdateParticipants, TablesOK
  <2> QED
    BY <1>5, <1>6, <1>7, <2>1, <2>2, <2>4
<1>8. CASE e.type = "ParticipantRemoved" /\ k \in DOMAIN tb.threads
  <2> DEFINE row == tb.threads[k].participants
             p   == ArrayRemove(row, e.participant)
  <2>1. IsList(p) /\ Range(p) = Range(row) \ {e.participant}
    <3>1. IsList(row)
      BY <1>6, <1>8
    <3> HIDE DEF row
    <3> DEFINE kept == {i \in DOMAIN row : row[i] # e.participant}
    <3>2. IsList(Pick(row, kept)) /\ Range(Pick(row, kept)) = {row[i] : i \in DOMAIN row \cap kept}
      BY <3>1, PickFacts
    <3>3. {row[i] : i \in DOMAIN row \cap kept} = Range(row) \ {e.participant}
      BY DEF Range
    <3> QED
      BY <3>2, <3>3 DEF ArrayRemove
  <2>2. Left(e, k) = {e.participant} /\ Joined(e, k) = {}
    BY <1>8 DEF Left, Joined
  <2>3. new = UpdateParticipants(tb, k, p)
    BY <1>8, <1>6, <1>0 DEF ApplyEntry
  <2> HIDE DEF p, k
  <2>4. new = with(p)
    BY <2>3, <1>8 DEF UpdateParticipants, TablesOK
  <2> QED
    BY <1>5, <1>6, <1>8, <2>1, <2>2, <2>4
<1> QED
  BY <1>1, <1>2, <1>3, <1>4, <1>7, <1>8 DEF IsEvent

\* One entry of a run, numbered at most one above the checkpoint.
LEMMA EntryKeeps ==
  ASSUME NEW ev, LogOK(ev), NEW tb, NEW q, NEW n \in Nat, ProjectionOK(ev, tb, q, n),
         NEW s \in 1..(n + 1), 1..n \subseteq DOMAIN ev, s \in DOMAIN ev,
         Accepts(tb, [sequence |-> s, event |-> ev[s]])
  PROVE  ProjectionOK(ev, ApplyEntry(tb, [sequence |-> s, event |-> ev[s]]),
                      Append(q, s), IF n < s THEN s ELSE n)
<1> DEFINE e     == ev[s]
           entry == [sequence |-> s, event |-> e]
           m     == IF n < s THEN s ELSE n
           new   == ApplyEntry(tb, entry)
           upTo(k, type) == {i \in 1..k : ev[i].type = type}
<1>1. /\ s \in Nat
      /\ m \in Nat
      /\ 1..m = 1..n \cup {s}
      /\ s \notin 1..n => \A i \in 1..n : i < s
      /\ m >= n
  OBVIOUS
<1> HIDE DEF m
<1>2. IsEvent(e)
  BY DEF LogOK
<1>3. TablesOK(tb) /\ RowsOK(ev, tb, n) /\ HistoryOK(ev, q, n) /\ MembersOK(ev, tb, q)
  BY DEF ProjectionOK
<1>4. Effect(tb, new, s, e)
  BY <1>2, <1>3, ApplyEntryEffect
<1>5. \A key : ThreadKey(e) = key /\ e.type = "ThreadStarted" => key \notin DOMAIN tb.threads
  BY DEF Accepts
<1> HIDE DEF new
<1>6. e.type = "ThreadStarted" => s \notin 1..n
  BY <1>3, <1>5 DEF RowsOK
<1>7. \A type : upTo(m, type) = upTo(n, type) \cup (IF e.type = type THEN {s} ELSE {})
  BY <1>1
<1>8. RowsOK(ev, new, m)
  <2>1. DOMAIN new.threads = {ThreadKey(ev[i]) : i \in upTo(m, "ThreadStarted")}
    <3>1. DOMAIN new.threads = DOMAIN tb.threads \cup
             (IF e.type = "ThreadStarted" THEN {ThreadKey(e)} ELSE {})
      BY <1>4 DEF Effect
    <3>2. DOMAIN tb.threads = {ThreadKey(ev[i]) : i \in upTo(n, "ThreadStarted")}
      BY <1>3 DEF RowsOK
    <3>3. upTo(m, "ThreadStarted") = upTo(n, "ThreadStarted") \cup
             (IF e.type = "ThreadStarted" THEN {s} ELSE {})
      BY <1>7
    <3> HIDE DEF upTo
    <3> QED
      BY <3>1, <3>2, <3>3
  <2>2. new.messages = {MessageRow([sequence |-> i, event |-> ev[i]])
                          : i \in upTo(m, "MessagePosted")}
    <3> DEFINE row(i) == MessageRow([sequence |-> i, event |-> ev[i]])
    <3>1. new.messages = tb.messages \cup
             (IF e.type = "MessagePosted" /\ ~ MessageConflict(tb, entry) THEN {row(s)} ELSE {})
      BY <1>4 DEF Effect
    <3>2. tb.messages = {row(i) : i \in upTo(n, "MessagePosted")}
      BY <1>3 DEF RowsOK
    <3>3. upTo(m, "MessagePosted") = upTo(n, "MessagePosted") \cup
             (IF e.type = "MessagePosted" THEN {s} ELSE {})
      BY <1>7
    <3>4. \A i : row(i).sequence = i
      BY DEF MessageRow
    <3>5. ASSUME MessageConflict(tb, entry)
          PROVE  row(s) \in tb.messages
      <4>1. entry.sequence = s
        OBVIOUS
      <4> HIDE DEF row, upTo, entry
      <4>2. PICK r \in tb.messages : r.sequence = s
        BY <3>5, <4>1 DEF MessageConflict
      <4> QED
        BY <4>2, <3>2, <3>4
    <3> HIDE DEF upTo, row, entry
    <3>6. {row(i) : i \in upTo(m, "MessagePosted")} =
             tb.messages \cup (IF e.type = "MessagePosted" THEN {row(s)} ELSE {})
      BY <3>2, <3>3
    <3>7. new.messages = {row(i) : i \in upTo(m, "MessagePosted")}
      BY <3>1, <3>5, <3>6
    <3> QED
      BY <3>7 DEF row
  <2>3. ASSUME NEW i \in 1..m, ev[i].type \in {"ConversationCreated", "ThreadStarted"}
        PROVE  ev[i].conversation \in new.conversations
    <3>1. tb.conversations \subseteq new.conversations
      BY <1>4 DEF Effect
    <3>2. CASE i \in 1..n
      BY <2>3, <3>1, <3>2, <1>3 DEF RowsOK
    <3>3. CASE i = s /\ e.type = "ConversationCreated"
      BY <3>3, <1>4 DEF Effect
    <3>4. CASE i = s /\ e.type = "ThreadStarted"
      <4>1. e.conversation \in tb.conversations
        BY <3>4 DEF Accepts
      <4> QED
        BY <3>4, <4>1, <3>1
    <3> QED
      BY <2>3, <3>2, <3>3, <3>4, <1>1
  <2> QED
    BY <2>1, <2>2, <2>3 DEF RowsOK
<1>9. HistoryOK(ev, Append(q, s), m)
  <2> DEFINE new_q == Append(q, s)
  <2>1. q \in Seq(Nat) /\ RowsOf(q) \subseteq 1..n
    BY <1>3 DEF HistoryOK
  <2>2. /\ new_q \in Seq(Nat)
        /\ RowsOf(new_q) = RowsOf(q) \cup {s}
    BY <2>1, <1>1, RowsOfAppend
  <2>3. /\ DOMAIN new_q = 1..(Len(q) + 1)
        /\ DOMAIN q = 1..Len(q)
        /\ Len(q) \in Nat
        /\ new_q[Len(q) + 1] = s
        /\ \A i \in 1..Len(q) : new_q[i] = q[i]
    BY <2>1, <1>1
  <2>4. RowsOf(new_q) \subseteq 1..m
    BY <2>1, <2>2, <1>1
  <2> HIDE DEF new_q
  <2>5. ASSUME NEW i \in DOMAIN new_q, NEW j \in DOMAIN new_q, i < j,
               ev[new_q[j]].type = "ThreadStarted"
        PROVE  new_q[i] < new_q[j]
    <3>1. i \in DOMAIN q /\ new_q[i] = q[i] /\ q[i] \in 1..n
      <4>1. i \in 1..Len(q)
        BY <2>3, <2>5
      <4> QED
        BY <4>1, <2>3, <2>1 DEF RowsOf
    <3>2. CASE j \in 1..Len(q)
      <4>1. new_q[j] = q[j] /\ j \in DOMAIN q
        BY <3>2, <2>3
      <4> QED
        BY <4>1, <3>1, <2>5, <1>3 DEF HistoryOK
    <3>3. CASE j = Len(q) + 1
      <4>1. new_q[j] = s
        BY <3>3, <2>3
      <4> QED
        BY <4>1, <3>1, <2>5, <1>6, <1>1
    <3> QED
      BY <3>2, <3>3, <2>3
  <2> QED
    BY <2>2, <2>4, <2>5 DEF HistoryOK, new_q
<1>10. MembersOK(ev, new, Append(q, s))
  <2> SUFFICES ASSUME NEW key \in DOMAIN new.threads
               PROVE  Range(new.threads[key].participants) = MembersAfter(ev, Append(q, s), key)
    BY DEF MembersOK
  <2>1. Range(new.threads[key].participants) =
          (Range(ParticipantsRow(tb, key)) \ Left(e, key)) \cup Joined(e, key)
    BY <1>4 DEF Effect
  <2>2. Left(e, key) \cap Joined(e, key) = {}
    BY DEF Left, Joined
  <2>3. q \in Seq(Nat) /\ RowsOf(q) \subseteq 1..n
    BY <1>3 DEF HistoryOK
  <2>4. MembersAfter(ev, Append(q, s), key) =
          (MembersAfter(ev, q, key) \ Left(e, key)) \cup Joined(e, key)
    BY <2>2, <2>3, <1>1, MembersAfterAppend
  <2>5. Range(ParticipantsRow(tb, key)) = MembersAfter(ev, q, key)
    <3>1. CASE key \in DOMAIN tb.threads
      BY <3>1, <1>3 DEF MembersOK, ParticipantsRow
    <3>2. CASE key \notin DOMAIN tb.threads
      <4>1. Range(ParticipantsRow(tb, key)) = {}
        BY <3>2 DEF ParticipantsRow, Range
      <4>2. ASSUME NEW i \in 1..n
            PROVE  ~ (ev[i].type = "ThreadStarted" /\ ThreadKey(ev[i]) = key)
        BY <3>2, <1>3 DEF RowsOK
      <4>3. ASSUME NEW i \in 1..n
            PROVE  ~ (ev[i].type = "ParticipantAdded" /\ ThreadKey(ev[i]) = key)
        <5> SUFFICES ASSUME ev[i].type = "ParticipantAdded", ThreadKey(ev[i]) = key
                     PROVE  FALSE
          OBVIOUS
        <5>1. Founded(ev[i], EarlierIn(ev, i))
          BY DEF LogOK
        <5>2. PICK f \in EarlierIn(ev, i) : f.type = "ThreadStarted" /\ ThreadKey(f) = key
          BY <5>1 DEF Founded
        <5>3. PICK j \in 1..(i - 1) : f = ev[j]
          BY <5>2 DEF EarlierIn
        <5>4. j \in 1..n
          BY <5>3
        <5> QED
          BY <5>2, <5>3, <5>4, <4>2
      <4>4. \A i \in 1..Len(q) : Joined(ev[q[i]], key) = {}
        <5> SUFFICES ASSUME NEW i \in 1..Len(q)
                     PROVE  Joined(ev[q[i]], key) = {}
          OBVIOUS
        <5>1. q[i] \in 1..n
          BY <2>3 DEF RowsOf
        <5> QED
          BY <5>1, <4>2, <4>3 DEF Joined
      <4>5. MembersAfter(ev, q, key) = {}
        BY <4>4, MembersAfterIn
      <4> QED
        BY <4>1, <4>5
    <3> QED
      BY <3>1, <3>2
  <2> QED
    BY <2>1, <2>4, <2>5
<1> QED
  BY <1>4, <1>8, <1>9, <1>10 DEF ProjectionOK, Effect, new, m

\* An entry right after the checkpoint is let through: what its event is about
\* has been applied, and a thread that starts is new.
LEMMA NextIsAccepted ==
  ASSUME NEW ev, LogOK(ev), NEW tb, NEW q, NEW n \in Nat, ProjectionOK(ev, tb, q, n),
         1..(n + 1) \subseteq DOMAIN ev
  PROVE  Accepts(tb, [sequence |-> n + 1, event |-> ev[n + 1]])
<1> DEFINE s     == n + 1
           e     == ev[s]
           entry == [sequence |-> s, event |-> e]
<1>1. RowsOK(ev, tb, n)
  BY DEF ProjectionOK
<1>2. s \in DOMAIN ev /\ s \notin 1..n /\ 1..n \subseteq DOMAIN ev /\ s - 1 = n
  OBVIOUS
<1>3. entry.event = e
  OBVIOUS
<1> HIDE DEF s
<1>4. Founded(e, EarlierIn(ev, s))
  BY <1>2 DEF LogOK
<1>5. EarlierIn(ev, s) = {ev[i] : i \in 1..n}
  BY <1>2 DEF EarlierIn
<1>6. CASE e.type = "ThreadStarted"
  <2>1. e.conversation \in tb.conversations
    <3>1. PICK f \in EarlierIn(ev, s) : /\ f.type = "ConversationCreated"
                                        /\ f.conversation = e.conversation
      BY <1>4, <1>6 DEF Founded
    <3>2. PICK i \in 1..n : f = ev[i]
      BY <3>1, <1>5
    <3> QED
      BY <3>1, <3>2, <1>1 DEF RowsOK
  <2>2. ThreadKey(e) \notin DOMAIN tb.threads
    BY <1>1, <1>2, <1>6 DEF RowsOK, LogOK
  <2> QED
    BY <1>3, <1>6, <2>1, <2>2 DEF Accepts, s
<1>7. CASE e.type = "MessagePosted"
  <2>1. PICK f \in EarlierIn(ev, s) : f.type = "ThreadStarted" /\ ThreadKey(f) = ThreadKey(e)
    BY <1>4, <1>7 DEF Founded
  <2>2. PICK i \in 1..n : f = ev[i]
    BY <2>1, <1>5
  <2>3. ThreadKey(e) \in DOMAIN tb.threads
    BY <2>1, <2>2, <1>1 DEF RowsOK
  <2> QED
    BY <1>3, <1>7, <2>3 DEF Accepts, s
<1> QED
  BY <1>3, <1>6, <1>7 DEF Accepts, s

\* The checkpoint after the run from..to, as ApplyRun sets it.
Reached(c, to) == IF c < to THEN to ELSE c

\* The run from..to as entries.
EntriesOf(ev, from, to) ==
  [i \in DOMAIN Interval(from, to) |->
     [sequence |-> Interval(from, to)[i], event |-> ev[Interval(from, to)[i]]]]

\* A run that starts at or below the entry after the checkpoint keeps the
\* projection what log and history make it, if it is let through; it is if it
\* starts right after the checkpoint.
LEMMA RunKeeps ==
  ASSUME NEW ev, LogOK(ev), NEW tb, NEW q, NEW c \in Nat, ProjectionOK(ev, tb, q, c),
         NEW from \in Nat, NEW to \in Nat, 1 <= from, from <= to, from <= c + 1,
         1..c \subseteq DOMAIN ev, from..to \subseteq DOMAIN ev
  PROVE  LET result == ApplyEntries(tb, EntriesOf(ev, from, to)) IN
         /\ result.ok => ProjectionOK(ev, result.tables, q \o Interval(from, to), Reached(c, to))
         /\ from = c + 1 => result.ok
<1> DEFINE seqs    == Interval(from, to)
           entries == EntriesOf(ev, from, to)
           N       == to + 1 - from
           base    == [ok |-> TRUE, tables |-> tb]
           at(k)   == from + k - 1
<1>0. from \in Nat \ {0} /\ from <= to + 1
  OBVIOUS
<1>1. /\ seqs \in Seq(Nat)
      /\ Len(seqs) = N
      /\ DOMAIN seqs = 1..N
      /\ N \in Nat
      /\ \A i \in 1..N : seqs[i] = at(i)
  <2>1. seqs \in Seq(Nat) /\ Len(seqs) = N
    BY <1>0, IntervalIsSeq
  <2> QED
    BY <2>1 DEF Interval
<1>2. /\ Len(entries) = N
      /\ DOMAIN entries = 1..N
      /\ \A i \in 1..N : entries[i] = [sequence |-> at(i), event |-> ev[at(i)]]
  <2>1. DOMAIN entries = 1..N
    BY <1>1 DEF EntriesOf
  <2>2. entries \in [1..N -> {entries[i] : i \in 1..N}]
    BY <1>1 DEF EntriesOf
  <2>3. \A i \in 1..N : entries[i] = [sequence |-> at(i), event |-> ev[at(i)]]
    BY <1>1 DEF EntriesOf
  <2>4. Len(entries) = N
    <3> DEFINE S == {entries[i] : i \in 1..N}
    <3> HIDE DEF entries, N, S
    <3>1. entries \in [1..N -> S]
      BY <2>2 DEF S
    <3> QED
      BY <3>1, <1>1
  <2> QED
    BY <2>1, <2>3, <2>4
<1> HIDE DEF N, entries
<1>3. PICK trace : /\ trace[0] = base
                   /\ \A k \in 0..(N - 1) : trace[k + 1] = ApplyNext(trace[k], entries[k + 1])
                   /\ Tx!Fold(base, entries) = trace[N]
  <2>1. DOMAIN entries = 1..Len(entries) /\ Len(entries) \in Nat /\ Len(entries) = N
    BY <1>1, <1>2
  <2> HIDE DEF base
  <2>2. \E trace : /\ trace[0] = base
                   /\ \A k \in 0..(Len(entries) - 1) :
                        trace[k + 1] = ApplyNext(trace[k], entries[k + 1])
                   /\ Tx!Fold(base, entries) = trace[Len(entries)]
    BY <2>1, Tx!FoldTrace, ZenonT(60)
  <2> QED
    BY <2>1, <2>2, Zenon
<1>4. ApplyEntries(tb, entries) =
        IF trace[N].ok THEN trace[N] ELSE [ok |-> FALSE, tables |-> tb]
  <2>1. FoldLeft(ApplyNext, base, entries) = Tx!Fold(base, entries)
    BY DEF Tx!Fold, FoldLeft, Tx!FoldLeft, MapThenFoldSet, Tx!MapThenFoldSet, Max, Tx!Max
  <2> QED
    BY <2>1, <1>3 DEF ApplyEntries
<1> DEFINE Good(k) == /\ trace[k].ok \in BOOLEAN
                      /\ trace[k].ok => ProjectionOK(ev, trace[k].tables, q \o Interval(from, at(k)),
                                                     Reached(c, at(k)))
                      /\ from = c + 1 => trace[k].ok
           P == {k \in Nat : k <= N => Good(k)}
<1>5. q \in Seq(Nat)
  BY DEF ProjectionOK, HistoryOK
<1>6. 0 \in P
  <2>1. Interval(from, at(0)) = <<>>
    <3>1. Interval(from, at(0)) \in Seq(Nat) /\ Len(Interval(from, at(0))) = 0
      <4>1. at(0) \in Nat /\ from <= at(0) + 1 /\ at(0) + 1 - from = 0
        OBVIOUS
      <4> HIDE DEF at
      <4> QED
        BY <1>0, <4>1, IntervalIsSeq
    <3> QED
      BY <3>1
  <2>2. Reached(c, at(0)) = c
    BY DEF Reached
  <2>3. q \o <<>> = q
    BY <1>5
  <2>4. trace[0].ok = TRUE /\ trace[0].tables = tb
    BY <1>3
  <2> QED
    BY <2>1, <2>2, <2>3, <2>4
<1>7. ASSUME NEW k \in Nat, k \in P
      PROVE  k + 1 \in P
  <2> SUFFICES ASSUME k + 1 <= N
               PROVE  Good(k + 1)
    OBVIOUS
  <2> DEFINE s   == from + k
             old == trace[k]
             new == trace[k + 1]
             n   == Reached(c, at(k))
             h   == q \o Interval(from, at(k))
             entry == [sequence |-> s, event |-> ev[s]]
  <2>1. Good(k)
    BY <1>7, <1>1
  <2>2. /\ k \in 0..(N - 1)
        /\ k + 1 \in 1..N
        /\ at(k + 1) = s
        /\ s \in from..to
        /\ n \in Nat
        /\ s \in 1..(n + 1)
        /\ Reached(c, s) = IF n < s THEN s ELSE n
        /\ 1..n \subseteq 1..c \cup from..to
        /\ from = c + 1 => s = n + 1
    BY <1>1 DEF Reached, N
  <2>3. new = ApplyNext(old, entry)
    BY <1>3, <1>2, <2>2
  <2>4. 1..n \subseteq DOMAIN ev /\ s \in DOMAIN ev
    BY <2>2
  <2>5. Append(h, s) = q \o Interval(from, s)
    <3>1. at(k) + 1 = s /\ s \in Nat
      OBVIOUS
    <3>2. at(k) \in Nat /\ from <= at(k) + 1
      OBVIOUS
    <3> HIDE DEF at, s
    <3>3. Interval(from, at(k)) \in Seq(Nat)
      BY <3>2, <1>0, IntervalIsSeq
    <3>4. Interval(from, s) = Append(Interval(from, at(k)), s)
      BY <3>1, <3>2, <1>0, IntervalGrows
    <3>5. q \o Append(Interval(from, at(k)), s) = Append(q \o Interval(from, at(k)), s)
      <4>1. q \in Seq(Nat)
        BY <1>5
      <4> DEFINE run == Interval(from, at(k))
      <4>2. run \in Seq(Nat) /\ s \in Nat
        BY <3>1, <3>3
      <4> HIDE DEF run
      <4>3. q \o Append(run, s) = Append(q \o run, s)
        BY <4>1, <4>2, ConcatAppend
      <4> QED
        BY <4>3 DEF run
    <3> QED
      BY <3>4, <3>5
  <2> HIDE DEF s, old, new, n, h, entry, at
  <2>6. old.ok \in BOOLEAN /\ (old.ok => ProjectionOK(ev, old.tables, h, n)) /\ (from = c + 1 => old.ok)
    BY <2>1 DEF old, h, n
  <2>7. new.ok \in BOOLEAN /\ (new.ok => /\ old.ok
                                         /\ Accepts(old.tables, entry)
                                         /\ new.tables = ApplyEntry(old.tables, entry))
    BY <2>3 DEF ApplyNext
  <2>8. new.ok => ProjectionOK(ev, new.tables, Append(h, s), IF n < s THEN s ELSE n)
    BY <2>2, <2>4, <2>6, <2>7, EntryKeeps DEF entry
  <2>9. from = c + 1 => new.ok
    <3> SUFFICES ASSUME from = c + 1
                 PROVE  new.ok
      OBVIOUS
    <3>1. ProjectionOK(ev, old.tables, h, n) /\ old.ok
      BY <2>6
    <3>2. s = n + 1 /\ 1..(n + 1) \subseteq DOMAIN ev
      <4>1. s = n + 1 /\ n \in Nat
        BY <2>2
      <4>2. 1..(n + 1) = 1..n \cup {s}
        BY <4>1
      <4> QED
        BY <4>1, <4>2, <2>4
    <3>3. Accepts(old.tables, entry)
      BY <3>1, <3>2, <2>2, NextIsAccepted DEF entry
    <3> QED
      BY <3>1, <3>3, <2>3 DEF ApplyNext
  <2> QED
    BY <2>2, <2>5, <2>7, <2>8, <2>9 DEF new
<1>8. N \in P
  <2> HIDE DEF P
  <2> QED
    BY <1>1, <1>6, <1>7, Induction
<1>9. Good(N) /\ at(N) = to
  BY <1>1, <1>8 DEF N
<1> HIDE DEF at
<1> QED
  BY <1>4, <1>9 DEF entries

-----------------------------------------------------------------------------
(***************************************************************************)
(* The aggregate that RehydrateConversation makes of the log.              *)
(***************************************************************************)

\* The log as a function to events.
Ev == [s \in DOMAIN log |-> EventAt(s)]

\* Every row is that of its event.
RowsAreEvents == \A s \in DOMAIN log : log[s] = MarshalEvent(EventAt(s))

\* The conversation by the events numbered up to n.
Conv(c, n) == RehydrateConversation(EventsUpTo(c, n))

\* Event s is one of conversation c.
IsOf(s, c) == s \in DOMAIN log /\ log[s].conversation_id = c

\* Before the first event there is nothing, and the next event, if it is one
\* of the conversation, is applied to what the earlier ones gave.
LEMMA RehydrateStep ==
  ASSUME NEW c
  PROVE  /\ Conv(c, 0) = [id |-> "", threads |-> <<>>]
         /\ \A n \in Nat : Conv(c, n + 1) = IF IsOf(n + 1, c)
                                            THEN ApplyToAggregate(Conv(c, n), EventAt(n + 1))
                                            ELSE Conv(c, n)
<1> DEFINE base == [id |-> "", threads |-> <<>>]
           mine == {s \in DOMAIN log : log[s].conversation_id = c}
           events_(n) == EventsUpTo(c, n)
<1>1. \A records : RehydrateConversation(records) = Agg!Fold(base, records)
  BY DEF RehydrateConversation, Agg!Fold, FoldLeft, Agg!FoldLeft, MapThenFoldSet,
         Agg!MapThenFoldSet, Max, Agg!Max
<1>2. \A n : SequencesUpTo(c, n) = Pick(Interval(1, n), mine)
  BY DEF SequencesUpTo
<1> HIDE DEF mine
<1>3. Conv(c, 0) = base
  <2>1. Interval(1, 0) = <<>>
    <3>1. Interval(1, 0) \in Seq(Nat) /\ Len(Interval(1, 0)) = 0
      BY IntervalIsSeq
    <3> QED
      BY <3>1
  <2>2. SequencesUpTo(c, 0) = <<>>
    BY <1>2, <2>1, PickNothing
  <2>3. EventsUpTo(c, 0) = <<>>
    BY <2>2 DEF EventsUpTo
  <2> QED
    BY <2>3, <1>1, Agg!FoldEmpty DEF Conv
<1>4. ASSUME NEW n \in Nat
      PROVE  Conv(c, n + 1) = IF IsOf(n + 1, c)
                              THEN ApplyToAggregate(Conv(c, n), EventAt(n + 1))
                              ELSE Conv(c, n)
  <2>1. /\ Interval(1, n) \in Seq(Nat)
        /\ Len(Interval(1, n)) = n
        /\ Interval(1, n + 1) = Append(Interval(1, n), n + 1)
    <3>1. 1 \in Nat \ {0} /\ 1 <= n + 1 /\ n + 1 - 1 = n
      OBVIOUS
    <3> QED
      BY <3>1, IntervalIsSeq, IntervalGrows
  <2>2. SequencesUpTo(c, n + 1) = IF n + 1 \in mine
                                  THEN Append(SequencesUpTo(c, n), n + 1)
                                  ELSE SequencesUpTo(c, n)
    <3> DEFINE run == Interval(1, n)
    <3> HIDE DEF run
    <3>1. Pick(Append(run, n + 1), mine) =
            IF Len(run) + 1 \in mine THEN Append(Pick(run, mine), n + 1) ELSE Pick(run, mine)
      BY <2>1, PickAppend, n + 1 \in Nat DEF run
    <3> QED
      BY <3>1, <2>1, <1>2 DEF run
  <2>3. IsOf(n + 1, c) <=> n + 1 \in mine
    BY DEF IsOf, mine
  <2>4. CASE ~ IsOf(n + 1, c)
    BY <2>2, <2>3, <2>4 DEF Conv, EventsUpTo
  <2>5. CASE IsOf(n + 1, c)
    <3> DEFINE seqs == SequencesUpTo(c, n)
               S    == Range(EventsUpTo(c, n)) \cup {EventAt(n + 1)}
    <3>1. IsList(seqs)
      <4>1. IsList(Interval(1, n))
        BY <2>1, SeqIsList
      <4> QED
        BY <4>1, <1>2, PickFacts
    <3>2. SequencesUpTo(c, n + 1) = Append(seqs, n + 1)
      BY <2>2, <2>3, <2>5
    <3>3. /\ seqs \in Seq(Range(seqs) \cup {n + 1})
          /\ DOMAIN seqs = 1..Len(seqs)
          /\ Len(seqs) \in Nat
      BY <3>1 DEF IsList
    <3>4. EventsUpTo(c, n) = [i \in 1..Len(seqs) |-> EventAt(seqs[i])]
      BY <3>3 DEF EventsUpTo, EventAt
    <3> HIDE DEF seqs
    <3>5. EventsUpTo(c, n) \in Seq(S)
      BY <3>3, <3>4 DEF Range
    <3>6. EventsUpTo(c, n + 1) = Append(EventsUpTo(c, n), EventAt(n + 1))
      <4> DEFINE long == Append(seqs, n + 1)
                 old  == EventsUpTo(c, n)
                 new  == EventsUpTo(c, n + 1)
                 both == Append(old, EventAt(n + 1))
      <4>1. /\ DOMAIN long = 1..(Len(seqs) + 1)
            /\ long[Len(seqs) + 1] = n + 1
            /\ \A i \in 1..Len(seqs) : long[i] = seqs[i]
        BY <3>3
      <4>2. new = [i \in 1..(Len(seqs) + 1) |-> EventAt(long[i])]
        BY <3>2, <4>1 DEF EventsUpTo, EventAt
      <4>3. /\ Len(old) = Len(seqs)
            /\ \A i \in 1..Len(seqs) : old[i] = EventAt(seqs[i])
        BY <3>3, <3>4
      <4> HIDE DEF long, old, new
      <4>4. old \in Seq(S) /\ EventAt(n + 1) \in S
        BY <3>5 DEF old
      <4>5. /\ both \in Seq(S)
            /\ Len(both) = Len(seqs) + 1
            /\ both[Len(seqs) + 1] = EventAt(n + 1)
            /\ \A i \in 1..Len(seqs) : both[i] = old[i]
        <5> HIDE DEF S
        <5> QED
          BY <4>3, <4>4
      <4>6. \A i \in 1..(Len(seqs) + 1) : i \in 1..Len(seqs) \/ i = Len(seqs) + 1
        BY <3>3
      <4>7. \A i \in 1..(Len(seqs) + 1) : both[i] = EventAt(long[i])
        BY <4>1, <4>3, <4>5, <4>6
      <4>8. DOMAIN both = 1..(Len(seqs) + 1)
        BY <4>5, <3>3
      <4>9. both = [i \in 1..(Len(seqs) + 1) |-> both[i]]
        <5> HIDE DEF both, S
        <5> QED
          BY <4>5, <4>8
      <4> HIDE DEF both
      <4>10. both = new
        BY <4>2, <4>7, <4>9
      <4> QED
        BY <4>10 DEF both, old, new
    <3>7. Agg!Fold(base, EventsUpTo(c, n + 1)) =
            ApplyToAggregate(Agg!Fold(base, EventsUpTo(c, n)), EventAt(n + 1))
      <4> DEFINE old == EventsUpTo(c, n)
                 x   == EventAt(n + 1)
      <4>1. old \in Seq(S) /\ x \in S
        BY <3>5
      <4> HIDE DEF old, x, S, base
      <4>2. Agg!Fold(base, Append(old, x)) = ApplyToAggregate(Agg!Fold(base, old), x)
        BY <4>1, Agg!FoldAppend
      <4> QED
        BY <4>2, <3>6 DEF old, x
    <3> QED
      BY <3>7, <1>1, <2>5 DEF Conv
  <2> QED
    BY <2>4, <2>5
<1> QED
  BY <1>3, <1>4, Zenon

\* The columns of the aggregate.
AggregateOK(conv) ==
  /\ conv = [id |-> conv.id, threads |-> conv.threads]
  /\ \A t \in DOMAIN conv.threads : IsList(conv.threads[t])

\* What Conversation.apply makes of the participants of a thread.
Reapplied(members, e, t) ==
  CASE e.type = "ThreadStarted" /\ e.thread = t -> Participants(e)
    [] e.type = "ParticipantAdded" /\ e.thread = t -> Append(members, e.participant)
    [] e.type = "ParticipantRemoved" /\ e.thread = t -> RemoveFirst(members, e.participant)
    [] OTHER -> members

LEMMA ApplyToAggregateEffect ==
  ASSUME NEW conv, AggregateOK(conv), NEW e, IsEvent(e), NEW new, new = ApplyToAggregate(conv, e)
  PROVE  /\ AggregateOK(new)
         /\ new.id = IF e.type = "ConversationCreated" THEN e.conversation ELSE conv.id
         /\ DOMAIN new.threads = DOMAIN conv.threads \cup
              (IF e.type \in {"ThreadStarted", "ParticipantAdded"} THEN {e.thread} ELSE {})
         /\ \A t : t \in DOMAIN new.threads =>
              MembersOf(new, t) = Reapplied(MembersOf(conv, t), e, t)
<1>0. /\ IsList(<<>>)
      /\ \A t : IsList(MembersOf(conv, t))
  BY DEF IsList, MembersOf, AggregateOK, Range
<1>1. CASE e.type = "ConversationCreated"
  <2>1. new = [id |-> e.conversation, threads |-> conv.threads]
    BY <1>1 DEF ApplyToAggregate, AggregateOK
  <2> QED
    BY <1>1, <2>1 DEF AggregateOK, MembersOf, Reapplied
<1>2. CASE e.type = "MessagePosted" \/ (e.type = "ParticipantRemoved" /\ e.thread \notin DOMAIN conv.threads)
  <2>1. new = conv
    BY <1>2 DEF ApplyToAggregate
  <2> QED
    BY <1>2, <2>1 DEF MembersOf, Reapplied
<1>3. ASSUME NEW members, IsList(members), e.type \in {"ThreadStarted", "ParticipantAdded"},
             new = [id |-> conv.id, threads |-> Put(conv.threads, e.thread, members)],
             members = Reapplied(MembersOf(conv, e.thread), e, e.thread)
      PROVE  /\ AggregateOK(new)
             /\ new.id = conv.id
             /\ DOMAIN new.threads = DOMAIN conv.threads \cup {e.thread}
             /\ \A t : t \in DOMAIN new.threads =>
                  MembersOf(new, t) = Reapplied(MembersOf(conv, t), e, t)
  <2>1. /\ new.id = conv.id
        /\ new = [id |-> new.id, threads |-> new.threads]
        /\ DOMAIN new.threads = DOMAIN conv.threads \cup {e.thread}
        /\ new.threads[e.thread] = members
        /\ \A t \in DOMAIN conv.threads : t # e.thread => new.threads[t] = conv.threads[t]
    BY <1>3 DEF Put
  <2>2. AggregateOK(new)
    BY <2>1, <1>3 DEF AggregateOK
  <2>3. ASSUME NEW t, t \in DOMAIN new.threads
        PROVE  MembersOf(new, t) = Reapplied(MembersOf(conv, t), e, t)
    <3>1. CASE t = e.thread
      BY <3>1, <2>1, <2>3, <1>3 DEF MembersOf
    <3>2. CASE t # e.thread
      <4>1. Reapplied(MembersOf(conv, t), e, t) = MembersOf(conv, t)
        BY <3>2 DEF Reapplied
      <4> QED
        BY <3>2, <4>1, <2>1, <2>3 DEF MembersOf
    <3> QED
      BY <3>1, <3>2
  <2> QED
    BY <2>1, <2>2, <2>3
<1>4. CASE e.type = "ThreadStarted"
  <2>1. new = [id |-> conv.id, threads |-> Put(conv.threads, e.thread, Participants(e))]
    BY <1>4 DEF ApplyToAggregate, AggregateOK
  <2>2. IsList(Participants(e))
    BY <1>4 DEF IsEvent
  <2>3. Participants(e) = Reapplied(MembersOf(conv, e.thread), e, e.thread)
    BY <1>4 DEF Reapplied
  <2> QED
    BY <1>4, <2>1, <2>2, <2>3, <1>3
<1>5. CASE e.type = "ParticipantAdded"
  <2> DEFINE members == Append(MembersOf(conv, e.thread), e.participant)
  <2>1. new = [id |-> conv.id, threads |-> Put(conv.threads, e.thread, members)]
    BY <1>5 DEF ApplyToAggregate, AggregateOK
  <2>2. IsList(members)
    BY <1>0, AppendFacts
  <2>3. members = Reapplied(MembersOf(conv, e.thread), e, e.thread)
    BY <1>5 DEF Reapplied
  <2> HIDE DEF members
  <2> QED
    BY <1>5, <2>1, <2>2, <2>3, <1>3
<1>6. CASE e.type = "ParticipantRemoved" /\ e.thread \in DOMAIN conv.threads
  <2> DEFINE members == RemoveFirst(conv.threads[e.thread], e.participant)
  <2>0. IsList(members)
    BY <1>6, RemoveFirstFacts DEF AggregateOK
  <2>1. new = [id |-> conv.id, threads |-> [conv.threads EXCEPT ![e.thread] = members]]
    BY <1>6 DEF ApplyToAggregate, AggregateOK
  <2> HIDE DEF members
  <2>2. /\ new.id = conv.id
        /\ new = [id |-> new.id, threads |-> new.threads]
        /\ DOMAIN new.threads = DOMAIN conv.threads
        /\ new.threads[e.thread] = members
        /\ \A t \in DOMAIN conv.threads : t # e.thread => new.threads[t] = conv.threads[t]
    BY <1>6, <2>1
  <2>3. AggregateOK(new)
    BY <2>0, <2>2 DEF AggregateOK
  <2>4. ASSUME NEW t, t \in DOMAIN new.threads
        PROVE  MembersOf(new, t) = Reapplied(MembersOf(conv, t), e, t)
    BY <2>2, <2>4, <1>6 DEF MembersOf, Reapplied, members
  <2> QED
    BY <1>6, <2>2, <2>3, <2>4
<1> QED
  BY <1>1, <1>2, <1>4, <1>5, <1>6 DEF IsEvent

\* Somebody started thread t of conversation c, or created conversation c, by
\* an event numbered up to n.
StartedUpTo(c, t, n) ==
  \E s \in DOMAIN log : s <= n /\ EventAt(s).type = "ThreadStarted" /\ ThreadKey(EventAt(s)) = <<c, t>>

CreatedUpTo(c, n) ==
  \E s \in DOMAIN log : s <= n /\ EventAt(s).type = "ConversationCreated" /\ EventAt(s).conversation = c

\* The aggregate has the threads that were started, and its own id.
AggregateAt(c, n) ==
  /\ AggregateOK(Conv(c, n))
  /\ \A t : t \in DOMAIN Conv(c, n).threads <=> StartedUpTo(c, t, n)
  /\ CreatedUpTo(c, n) => Conv(c, n).id = c

LEMMA EventsAreFounded ==
  ASSUME LogOK(Ev), NEW s \in DOMAIN log
  PROVE  /\ s \in Nat \ {0}
         /\ IsEvent(EventAt(s))
         /\ EventAt(s).type = "ThreadStarted" => CreatedUpTo(EventAt(s).conversation, s - 1)
         /\ EventAt(s).type \in {"MessagePosted", "ParticipantAdded", "ParticipantRemoved"} =>
              StartedUpTo(EventAt(s).conversation, EventAt(s).thread, s - 1)
         /\ EventAt(s).type = "MessagePosted" =>
              \E n \in DOMAIN log : /\ n <= s - 1
                                    /\ EventAt(s).author \in Joined(EventAt(n), ThreadKey(EventAt(s)))
<1>1. DOMAIN Ev = DOMAIN log /\ \A n \in DOMAIN log : Ev[n] = EventAt(n)
  BY DEF Ev
<1>2. \A n \in DOMAIN log : n \in Nat \ {0}
  BY <1>1 DEF LogOK
<1>3. IsEvent(EventAt(s)) /\ Founded(EventAt(s), EarlierIn(Ev, s))
  BY <1>1 DEF LogOK
<1>4. ASSUME NEW f \in EarlierIn(Ev, s)
      PROVE  \E n \in DOMAIN log : n <= s - 1 /\ f = EventAt(n)
  <2>1. PICK n \in DOMAIN log \cap 1..(s - 1) : f = EventAt(n)
    BY <1>1 DEF EarlierIn
  <2> QED
    BY <2>1, <1>2
<1>5. EventAt(s).type = "ThreadStarted" => CreatedUpTo(EventAt(s).conversation, s - 1)
  <2> SUFFICES ASSUME EventAt(s).type = "ThreadStarted"
               PROVE  CreatedUpTo(EventAt(s).conversation, s - 1)
    OBVIOUS
  <2>1. PICK f \in EarlierIn(Ev, s) : /\ f.type = "ConversationCreated"
                                      /\ f.conversation = EventAt(s).conversation
    BY <1>3 DEF Founded
  <2> QED
    BY <2>1, <1>4 DEF CreatedUpTo
<1>6. EventAt(s).type \in {"MessagePosted", "ParticipantAdded", "ParticipantRemoved"} =>
        StartedUpTo(EventAt(s).conversation, EventAt(s).thread, s - 1)
  <2> SUFFICES ASSUME EventAt(s).type \in {"MessagePosted", "ParticipantAdded", "ParticipantRemoved"}
               PROVE  StartedUpTo(EventAt(s).conversation, EventAt(s).thread, s - 1)
    OBVIOUS
  <2>1. PICK f \in EarlierIn(Ev, s) : f.type = "ThreadStarted" /\ ThreadKey(f) = ThreadKey(EventAt(s))
    BY <1>3 DEF Founded
  <2>2. ThreadKey(EventAt(s)) = <<EventAt(s).conversation, EventAt(s).thread>>
    BY DEF ThreadKey
  <2> QED
    BY <2>1, <2>2, <1>4 DEF StartedUpTo
<1>7. EventAt(s).type = "MessagePosted" =>
        \E n \in DOMAIN log : /\ n <= s - 1
                              /\ EventAt(s).author \in Joined(EventAt(n), ThreadKey(EventAt(s)))
  <2> SUFFICES ASSUME EventAt(s).type = "MessagePosted"
               PROVE  \E n \in DOMAIN log :
                        n <= s - 1 /\ EventAt(s).author \in Joined(EventAt(n), ThreadKey(EventAt(s)))
    OBVIOUS
  <2>1. PICK f \in EarlierIn(Ev, s) : EventAt(s).author \in Joined(f, ThreadKey(EventAt(s)))
    BY <1>3 DEF Founded
  <2> QED
    BY <2>1, <1>4
<1> QED
  BY <1>2, <1>3, <1>5, <1>6, <1>7

\* The conversation of an event is that of its row.
LEMMA ConversationOfRow ==
  ASSUME RowsAreEvents, NEW s, NEW c
  PROVE  IsOf(s, c) <=> s \in DOMAIN log /\ EventAt(s).conversation = c
BY DEF RowsAreEvents, IsOf, MarshalEvent

\* The next event, if it is one of the conversation, is applied.
LEMMA AggregateStep ==
  ASSUME LogOK(Ev), RowsAreEvents, NEW c, NEW n \in Nat, AggregateAt(c, n)
  PROVE  AggregateAt(c, n + 1)
<1> DEFINE s   == n + 1
           e   == EventAt(s)
           old == Conv(c, n)
           new == Conv(c, s)
<1>1. s \in Nat /\ s - 1 = n
  OBVIOUS
<1>2. \A i \in DOMAIN log : i \in Nat /\ (i <= s <=> (i <= n \/ i = s))
  <2>1. \A i \in DOMAIN log : i \in Nat
    BY EventsAreFounded
  <2> QED
    BY <2>1
<1>3. new = IF IsOf(s, c) THEN ApplyToAggregate(old, e) ELSE old
  BY RehydrateStep
<1> HIDE DEF s
<1>4. \A t : StartedUpTo(c, t, s) <=>
               \/ StartedUpTo(c, t, n)
               \/ s \in DOMAIN log /\ e.type = "ThreadStarted" /\ ThreadKey(e) = <<c, t>>
  BY <1>2 DEF StartedUpTo
<1>5. CreatedUpTo(c, s) <=>
               \/ CreatedUpTo(c, n)
               \/ s \in DOMAIN log /\ e.type = "ConversationCreated" /\ e.conversation = c
  BY <1>2 DEF CreatedUpTo
<1>6. \A t : ThreadKey(e) = <<c, t>> <=> e.conversation = c /\ e.thread = t
  BY DEF ThreadKey
<1> HIDE DEF new
<1>7. CASE ~ IsOf(s, c)
  <2>1. new = old
    BY <1>3, <1>7
  <2>2. ~ (s \in DOMAIN log /\ e.conversation = c)
    BY <1>7, ConversationOfRow
  <2> QED
    BY <2>1, <2>2, <1>4, <1>5, <1>6 DEF AggregateAt, new, s
<1>8. CASE IsOf(s, c)
  <2>1. s \in DOMAIN log /\ e.conversation = c
    BY <1>8, ConversationOfRow
  <2>2. IsEvent(e)
    BY <2>1, EventsAreFounded
  <2>3. new = ApplyToAggregate(old, e)
    BY <1>3, <1>8
  <2>4. AggregateOK(old)
    BY DEF AggregateAt
  <2> HIDE DEF old, e
  <2>5. /\ AggregateOK(new)
        /\ new.id = IF e.type = "ConversationCreated" THEN e.conversation ELSE old.id
        /\ DOMAIN new.threads = DOMAIN old.threads \cup
              (IF e.type \in {"ThreadStarted", "ParticipantAdded"} THEN {e.thread} ELSE {})
    BY <2>2, <2>3, <2>4, ApplyToAggregateEffect
  <2>6. e.type = "ParticipantAdded" => StartedUpTo(c, e.thread, n)
    BY <2>1, <1>1, EventsAreFounded DEF e
  <2>7. \A t : t \in DOMAIN old.threads <=> StartedUpTo(c, t, n)
    BY DEF AggregateAt, old
  <2>8. ASSUME NEW t
        PROVE  t \in DOMAIN new.threads <=> StartedUpTo(c, t, s)
    <3>1. CASE e.type = "ThreadStarted"
      BY <3>1, <2>1, <2>5, <2>7, <1>4, <1>6
    <3>2. CASE e.type = "ParticipantAdded"
      BY <3>2, <2>1, <2>5, <2>6, <2>7, <1>4, <1>6
    <3>3. CASE e.type \notin {"ThreadStarted", "ParticipantAdded"}
      BY <3>3, <2>5, <2>7, <1>4
    <3> QED
      BY <3>1, <3>2, <3>3
  <2>9. CreatedUpTo(c, s) => new.id = c
    <3>1. CreatedUpTo(c, n) => old.id = c
      BY DEF AggregateAt, old
    <3> QED
      BY <3>1, <2>1, <2>5, <1>5
  <2> QED
    BY <2>5, <2>8, <2>9 DEF AggregateAt, new, s
<1> QED
  BY <1>7, <1>8

LEMMA AggregateIsThatOfLog ==
  ASSUME LogOK(Ev), RowsAreEvents, NEW c, NEW n \in Nat
  PROVE  AggregateAt(c, n)
<1> DEFINE P == {m \in Nat : AggregateAt(c, m)}
<1>1. 0 \in P
  <2>1. Conv(c, 0) = [id |-> "", threads |-> <<>>]
    BY RehydrateStep
  <2>2. \A s \in DOMAIN log : ~ (s <= 0)
    <3>1. \A s \in DOMAIN log : s \in Nat \ {0}
      BY EventsAreFounded
    <3> QED
      BY <3>1
  <2>3. (\A t : ~ StartedUpTo(c, t, 0)) /\ ~ CreatedUpTo(c, 0)
    BY <2>2 DEF StartedUpTo, CreatedUpTo
  <2>4. AggregateOK(Conv(c, 0)) /\ DOMAIN Conv(c, 0).threads = {}
    <3> DEFINE none == [id |-> "", threads |-> <<>>]
    <3>0. none.threads = <<>> /\ none.id = ""
      OBVIOUS
    <3> HIDE DEF none
    <3>1. Conv(c, 0).threads = <<>> /\ Conv(c, 0).id = ""
      BY <2>1, <3>0, Zenon DEF none
    <3>2. DOMAIN <<>> = {}
      OBVIOUS
    <3>3. DOMAIN Conv(c, 0).threads = {}
      BY <3>1, <3>2
    <3>4. Conv(c, 0) = [id |-> Conv(c, 0).id, threads |-> Conv(c, 0).threads]
      BY <2>1, <3>1, Zenon
    <3> QED
      BY <3>3, <3>4 DEF AggregateOK
  <2> QED
    BY <2>3, <2>4 DEF AggregateAt
<1>2. ASSUME NEW m \in Nat, m \in P
      PROVE  m + 1 \in P
  BY <1>2, AggregateStep
<1> HIDE DEF P
<1>3. Nat \subseteq P
  BY <1>1, <1>2, Induction
<1> QED
  BY <1>3 DEF P

\* The member sets that the aggregate steps through.
LEMMA JoinedByLog ==
  ASSUME LogOK(Ev), RowsAreEvents, NEW c, NEW t, NEW n \in DOMAIN log
  PROVE  Joined(EventAt(n), <<c, t>>) \subseteq MembersByLog(c, t, n)
<1> DEFINE e == EventAt(n)
<1> SUFFICES ASSUME Joined(e, <<c, t>>) # {}
             PROVE  Joined(e, <<c, t>>) \subseteq MembersByLog(c, t, n)
  OBVIOUS
<1>1. n \in Nat \ {0} /\ IsEvent(e)
  BY EventsAreFounded
<1>2. /\ e.type \in {"ThreadStarted", "ParticipantAdded"}
      /\ e.conversation = c
      /\ e.thread = t
  BY DEF Joined, ThreadKey
<1>3. PICK m \in Nat : n = m + 1
  <2>1. n - 1 \in Nat /\ n = (n - 1) + 1
    BY <1>1
  <2> QED
    BY <2>1
<1>4. IsOf(n, c)
  BY <1>2, ConversationOfRow
<1> DEFINE old == Conv(c, m)
           new == Conv(c, n)
<1>5. new = ApplyToAggregate(old, e)
  BY <1>3, <1>4, RehydrateStep
<1>6. AggregateOK(old)
  BY AggregateIsThatOfLog DEF AggregateAt
<1> HIDE DEF old, new
<1>7. t \in DOMAIN new.threads /\ MembersOf(new, t) = Reapplied(MembersOf(old, t), e, t)
  BY <1>1, <1>2, <1>5, <1>6, ApplyToAggregateEffect
<1>8. IsList(MembersOf(old, t))
  BY <1>6 DEF AggregateOK, MembersOf, IsList, Range
<1>9. Joined(e, <<c, t>>) \subseteq Range(MembersOf(new, t))
  <2>1. CASE e.type = "ThreadStarted"
    BY <2>1, <1>2, <1>7 DEF Joined, Reapplied, ThreadKey
  <2>2. CASE e.type = "ParticipantAdded"
    <3>1. Range(Append(MembersOf(old, t), e.participant)) = Range(MembersOf(old, t)) \cup {e.participant}
      BY <1>8, AppendFacts
    <3>2. MembersOf(new, t) = Append(MembersOf(old, t), e.participant)
      BY <2>2, <1>2, <1>7 DEF Reapplied
    <3>3. Joined(e, <<c, t>>) = {e.participant}
      BY <2>2, <1>2 DEF Joined, ThreadKey
    <3> QED
      BY <3>1, <3>2, <3>3
  <2> QED
    BY <2>1, <2>2, <1>2
<1> QED
  BY <1>9 DEF MembersByLog, new, Conv

-----------------------------------------------------------------------------
(***************************************************************************)
(* What the use cases decide.                                              *)
(***************************************************************************)

\* A batch that request r may append after the earlier events: each event is
\* founded on them and on those before it in the batch, all are about one
\* conversation, the one thread and the one conversation it may start carry the
\* id that was minted for the request, and a conversation comes with a thread.
BatchOK(b, r, earlier) ==
  /\ IsBatch(b)
  /\ \A i \in DOMAIN b :
       /\ IsEvent(b[i])
       /\ Founded(b[i], {b[j] : j \in 1..(i - 1)} \cup earlier)
       /\ b[i].type = "ThreadStarted" => b[i].thread = r
       /\ b[i].type = "ConversationCreated" => b[i].conversation = r
       /\ b[i].conversation = b[1].conversation
  /\ \A i, j \in DOMAIN b : b[i].type = "ThreadStarted" /\ b[j].type = "ThreadStarted" => i = j
  /\ \A i, j \in DOMAIN b :
       b[i].type = "ConversationCreated" /\ b[j].type = "ConversationCreated" => i = j
  /\ \A i \in DOMAIN b : b[i].type = "ConversationCreated" =>
       \E j \in DOMAIN b : b[j].type = "ThreadStarted" /\ b[j].conversation = b[i].conversation

OutcomeOK(outcome, r, earlier) ==
  outcome.status = "append" => BatchOK(outcome.batch, r, earlier)

\* A refusal or a no-op appends nothing.
LEMMA AnswerOK ==
  ASSUME NEW code, code # "append", NEW r, NEW earlier
  PROVE  OutcomeOK(Answer(code), r, earlier)
BY DEF Answer, OutcomeOK

\* newThread has checked that nobody is named twice.
LEMMA NewThreadOK ==
  ASSUME NEW cmd, NEW c, NEW t, ValidThread(cmd), cmd.recipients \in Seq(Range(cmd.recipients))
  PROVE  /\ IsEvent(ThreadStarted(c, t, cmd.author, cmd.recipients))
         /\ cmd.author \in Joined(ThreadStarted(c, t, cmd.author, cmd.recipients), <<c, t>>)
<1> DEFINE e    == ThreadStarted(c, t, cmd.author, cmd.recipients)
           tail == cmd.recipients
           list == <<cmd.author>> \o tail
           S    == Range(tail) \cup {cmd.author}
           n    == Len(tail)
<1>1. /\ e.type = "ThreadStarted"
      /\ e.conversation = c
      /\ e.thread = t
      /\ e.author = cmd.author
      /\ e.recipients = tail
  BY DEF ThreadStarted
<1>2. Participants(e) = list
  BY <1>1 DEF Participants
<1>3. IsInjective(tail) /\ \A i \in 1..n : tail[i] # cmd.author
  BY DEF ValidThread, NewRecipientsOK, Contains
<1>4. tail \in Seq(S) /\ <<cmd.author>> \in Seq(S) /\ n \in Nat /\ DOMAIN tail = 1..n
  <2>1. tail \in Seq(Range(tail))
    OBVIOUS
  <2> QED
    BY <2>1
<1> HIDE DEF S, tail, n
<1>5. list \in Seq(S) /\ Len(list) = n + 1 /\ list[1] = cmd.author
      /\ \A i \in 2..(n + 1) : list[i] = tail[i - 1]
  BY <1>4 DEF n
<1>6. DOMAIN list = 1..(n + 1)
  BY <1>4, <1>5
<1> HIDE DEF list, e
<1>7. IsList(list)
  BY <1>5, SeqIsList
<1>8. IsInjective(list)
  <2> SUFFICES ASSUME NEW i \in 1..(n + 1), NEW j \in 1..(n + 1), list[i] = list[j]
               PROVE  i = j
    BY <1>6 DEF IsInjective
  <2>1. \A k \in 1..(n + 1) : k = 1 \/ (k \in 2..(n + 1) /\ k - 1 \in 1..n)
    BY <1>4
  <2>2. CASE i = 1 \/ j = 1
    BY <2>1, <2>2, <1>3, <1>5
  <2>3. CASE i # 1 /\ j # 1
    <3>1. i - 1 \in DOMAIN tail /\ j - 1 \in DOMAIN tail /\ tail[i - 1] = tail[j - 1]
      BY <2>1, <2>3, <1>4, <1>5
    <3>2. i - 1 = j - 1
      BY <3>1, <1>3 DEF IsInjective
    <3> QED
      BY <3>2
  <2> QED
    BY <2>2, <2>3
<1>9. cmd.author \in Range(list)
  <2>1. 1 \in DOMAIN list
    BY <1>4, <1>6
  <2> QED
    BY <2>1, <1>5 DEF Range
<1>10. IsEvent(e)
  <2>1. e = ThreadStarted(e.conversation, e.thread, e.author, e.recipients)
    BY <1>1 DEF e, tail
  <2> QED
    BY <1>1, <1>2, <1>7, <1>8, <2>1 DEF IsEvent
<1>11. cmd.author \in Joined(e, <<c, t>>)
  BY <1>1, <1>2, <1>9 DEF Joined, ThreadKey
<1> QED
  BY <1>10, <1>11 DEF e, tail

\* The events of new threads, messages and membership changes.
LEMMA EventShapes ==
  ASSUME NEW c, NEW t, NEW p
  PROVE  /\ IsEvent(ConversationCreated(c))
         /\ ConversationCreated(c).type = "ConversationCreated"
         /\ ConversationCreated(c).conversation = c
         /\ IsEvent(MessagePosted(c, t, p))
         /\ MessagePosted(c, t, p).type = "MessagePosted"
         /\ MessagePosted(c, t, p).author = p
         /\ MessagePosted(c, t, p).conversation = c
         /\ ThreadKey(MessagePosted(c, t, p)) = <<c, t>>
         /\ IsEvent(ParticipantAdded(c, t, p))
         /\ ParticipantAdded(c, t, p).type = "ParticipantAdded"
         /\ ThreadKey(ParticipantAdded(c, t, p)) = <<c, t>>
         /\ IsEvent(ParticipantRemoved(c, t, p))
         /\ ParticipantRemoved(c, t, p).type = "ParticipantRemoved"
         /\ ThreadKey(ParticipantRemoved(c, t, p)) = <<c, t>>
BY DEF IsEvent, ConversationCreated, MessagePosted, ParticipantAdded, ParticipantRemoved, ThreadKey

LEMMA StartedShape ==
  ASSUME NEW c, NEW t, NEW a, NEW rec
  PROVE  /\ ThreadStarted(c, t, a, rec).type = "ThreadStarted"
         /\ ThreadStarted(c, t, a, rec).conversation = c
         /\ ThreadStarted(c, t, a, rec).thread = t
         /\ ThreadKey(ThreadStarted(c, t, a, rec)) = <<c, t>>
BY DEF ThreadStarted, ThreadKey

\* A thread and its first message may follow the creation of the conversation.
LEMMA NewThreadFounded ==
  ASSUME NEW cmd, NEW c, NEW t, ValidThread(cmd), cmd.recipients \in Seq(Range(cmd.recipients)),
         NEW earlier, NEW first \in earlier, first.type = "ConversationCreated", first.conversation = c,
         NEW more, ThreadStarted(c, t, cmd.author, cmd.recipients) \in more
  PROVE  /\ Founded(ThreadStarted(c, t, cmd.author, cmd.recipients), earlier)
         /\ Founded(MessagePosted(c, t, cmd.author), more)
<1> DEFINE e == ThreadStarted(c, t, cmd.author, cmd.recipients)
           m == MessagePosted(c, t, cmd.author)
<1>1. e.type = "ThreadStarted" /\ e.conversation = c /\ ThreadKey(e) = <<c, t>>
  BY StartedShape
<1>2. m.type = "MessagePosted" /\ m.author = cmd.author /\ ThreadKey(m) = <<c, t>>
  BY EventShapes
<1>3. cmd.author \in Joined(e, <<c, t>>)
  BY NewThreadOK
<1> HIDE DEF e, m
<1>4. Founded(e, earlier)
  BY <1>1 DEF Founded
<1>5. Founded(m, more)
  BY <1>1, <1>2, <1>3 DEF Founded, e
<1> QED
  BY <1>4, <1>5 DEF e, m

\* Starting a conversation depends on nothing earlier.
LEMMA StartOK ==
  ASSUME NEW cmd, NEW r, NEW earlier,
         cmd.recipients = Nil \/ cmd.recipients \in Seq(Range(cmd.recipients))
  PROVE  OutcomeOK(StartConversation(cmd, r), r, earlier)
<1>1. CASE ~ (cmd.resource # Nil /\ ValidThread(cmd))
  BY <1>1, AnswerOK DEF StartConversation
<1>2. CASE cmd.resource # Nil /\ ValidThread(cmd)
  <2> DEFINE e1 == ConversationCreated(r)
             e2 == ThreadStarted(r, r, cmd.author, cmd.recipients)
             e3 == MessagePosted(r, r, cmd.author)
             b  == <<e1, e2, e3>>
  <2>1. cmd.recipients \in Seq(Range(cmd.recipients)) /\ ValidThread(cmd)
    BY <1>2 DEF ValidThread
  <2>2. StartConversation(cmd, r) = ToAppend(b)
    <3>1. ASSUME NEW x, NEW y, NEW z
          PROVE  <<x>> \o <<y, z>> = <<x, y, z>>
      <4> DEFINE S == {x, y, z}
                 p == <<x>> \o <<y, z>>
                 w == <<x, y, z>>
      <4>1. /\ <<x>> \in Seq(S) /\ <<y, z>> \in Seq(S) /\ w \in Seq(S)
            /\ Len(<<x>>) = 1 /\ Len(<<y, z>>) = 2 /\ Len(w) = 3
        OBVIOUS
      <4>2. p \in Seq(S) /\ Len(p) = 3
        BY <4>1, ConcatProperties
      <4>3. p[1] = x /\ p[2] = y /\ p[3] = z
        OBVIOUS
      <4>4. \A i \in 1..3 : p[i] = w[i]
        BY <4>3
      <4> HIDE DEF p, w
      <4> QED
        BY <4>1, <4>2, <4>4, SeqEqual DEF p, w
    <3>2. StartConversation(cmd, r) = ToAppend(<<e1>> \o <<e2, e3>>)
      BY <1>2 DEF StartConversation, NewThread
    <3> HIDE DEF e1, e2, e3
    <3> QED
      BY <3>1, <3>2
  <2>3. /\ e1.type = "ConversationCreated" /\ e1.conversation = r /\ IsEvent(e1)
        /\ e2.type = "ThreadStarted" /\ e2.thread = r /\ e2.conversation = r
        /\ e3.type = "MessagePosted" /\ e3.conversation = r /\ IsEvent(e3)
    BY EventShapes, StartedShape
  <2>4. IsEvent(e2)
    BY <2>1, NewThreadOK
  <2>5. ASSUME NEW some, e1 \in some, NEW more, e2 \in more
        PROVE  Founded(e2, some) /\ Founded(e3, more)
    <3> HIDE DEF e1
    <3> QED
      BY <2>1, <2>3, <2>5, NewThreadFounded
  <2> HIDE DEF e1, e2, e3
  <2>6. /\ Len(b) = 3
        /\ DOMAIN b = 1..3
        /\ b[1] = e1
        /\ b[2] = e2
        /\ b[3] = e3
        /\ \A i \in 1..3 : i = 1 \/ i = 2 \/ i = 3
    OBVIOUS
  <2> HIDE DEF b
  <2>7. Founded(b[1], {b[j] : j \in 1..(1 - 1)} \cup earlier)
    BY <2>3, <2>6 DEF Founded
  <2>8. Founded(b[2], {b[j] : j \in 1..(2 - 1)} \cup earlier)
    <3>1. e1 \in {b[j] : j \in 1..(2 - 1)} \cup earlier
      BY <2>6
    <3> QED
      BY <3>1, <2>5, <2>6
  <2>9. Founded(b[3], {b[j] : j \in 1..(3 - 1)} \cup earlier)
    <3>1. e2 \in {b[j] : j \in 1..(3 - 1)} \cup earlier
      BY <2>6
    <3> QED
      BY <3>1, <2>5, <2>6
  <2>10. BatchOK(b, r, earlier)
    BY <2>3, <2>4, <2>6, <2>7, <2>8, <2>9 DEF BatchOK, IsBatch
  <2> QED
    BY <2>2, <2>10 DEF OutcomeOK, ToAppend
<1> QED
  BY <1>1, <1>2

\* Adding a thread depends on the conversation having been created.
LEMMA AddThreadOK ==
  ASSUME NEW cmd, NEW r, NEW earlier, NEW exists \in BOOLEAN,
         cmd.recipients = Nil \/ cmd.recipients \in Seq(Range(cmd.recipients)),
         exists => \E f \in earlier : f.type = "ConversationCreated" /\ f.conversation = cmd.conversation
  PROVE  OutcomeOK(AddThread(cmd, r, exists), r, earlier)
<1>1. CASE ~ ValidThread(cmd)
  BY <1>1, AnswerOK DEF AddThread
<1>2. CASE ValidThread(cmd) /\ ~ exists
  BY <1>2, AnswerOK DEF AddThread
<1>3. CASE ValidThread(cmd) /\ exists
  <2> DEFINE c  == cmd.conversation
             e1 == ThreadStarted(c, r, cmd.author, cmd.recipients)
             e2 == MessagePosted(c, r, cmd.author)
             b  == <<e1, e2>>
  <2>1. cmd.recipients \in Seq(Range(cmd.recipients)) /\ ValidThread(cmd)
    BY <1>3 DEF ValidThread
  <2>2. AddThread(cmd, r, exists) = ToAppend(b)
    BY <1>3 DEF AddThread, NewThread
  <2>3. PICK f \in earlier : f.type = "ConversationCreated" /\ f.conversation = c
    BY <1>3
  <2>4. /\ e1.type = "ThreadStarted" /\ e1.thread = r /\ e1.conversation = c
        /\ e2.type = "MessagePosted" /\ e2.conversation = c /\ IsEvent(e2)
    BY EventShapes, StartedShape
  <2>5. IsEvent(e1)
    BY <2>1, NewThreadOK
  <2>6. ASSUME NEW some, f \in some, NEW more, e1 \in more
        PROVE  Founded(e1, some) /\ Founded(e2, more)
    BY <2>1, <2>3, <2>6, NewThreadFounded
  <2> HIDE DEF e1, e2
  <2>7. /\ Len(b) = 2
        /\ DOMAIN b = 1..2
        /\ b[1] = e1
        /\ b[2] = e2
        /\ \A i \in 1..2 : i = 1 \/ i = 2
    OBVIOUS
  <2> HIDE DEF b
  <2>8. Founded(b[1], {b[j] : j \in 1..(1 - 1)} \cup earlier)
    <3>1. f \in {b[j] : j \in 1..(1 - 1)} \cup earlier
      BY <2>3
    <3> QED
      BY <3>1, <2>6, <2>7
  <2>9. Founded(b[2], {b[j] : j \in 1..(2 - 1)} \cup earlier)
    <3>1. e1 \in {b[j] : j \in 1..(2 - 1)} \cup earlier
      BY <2>7
    <3> QED
      BY <3>1, <2>6, <2>7, <2>3
  <2>10. BatchOK(b, r, earlier)
    BY <2>4, <2>5, <2>7, <2>8, <2>9 DEF BatchOK, IsBatch
  <2> QED
    BY <2>2, <2>10 DEF OutcomeOK, ToAppend
<1> QED
  BY <1>1, <1>2, <1>3

\* One event that starts no thread and no conversation.
LEMMA OneEventOK ==
  ASSUME NEW e, IsEvent(e), e.type \notin {"ThreadStarted", "ConversationCreated"}, NEW r, NEW earlier, Founded(e, earlier)
  PROVE  OutcomeOK(ToAppend(<<e>>), r, earlier)
<1> DEFINE b == <<e>>
<1>1. Len(b) = 1 /\ DOMAIN b = 1..1 /\ b[1] = e /\ \A i \in 1..1 : i = 1
  OBVIOUS
<1> HIDE DEF b
<1>2. Founded(b[1], {b[j] : j \in 1..(1 - 1)} \cup earlier)
  BY <1>1, FoundedMonotone
<1>3. BatchOK(b, r, earlier)
  BY <1>1, <1>2 DEF BatchOK, IsBatch
<1>4. ToAppend(b).batch = b
  BY DEF ToAppend
<1> QED
  BY <1>3, <1>4 DEF OutcomeOK, b

-----------------------------------------------------------------------------
(***************************************************************************)
(* The inductive invariant of the engine.                                  *)
(***************************************************************************)

\* The events below every number that request r has drawn: those that were
\* there when it decided, as far as its batch may rely on them.
Before(r) == {s \in events : \A i \in DOMAIN req[r].seqs : s < req[r].seqs[i]}

DecisionOK(r) == OutcomeOK(decision[r], r, {EventAt(s) : s \in Before(r)})

\* Append writes the batch that was decided on, under ascending numbers.
AppendOK(r) ==
  /\ req[r].state = "open" \/ Committed(r) =>
       decision[r].status = "append" /\ req[r].size = Len(decision[r].batch)
  /\ decision[r].status = "new" => req[r].state = "new" /\ req[r].seqs = <<>>
  /\ \A i, j \in DOMAIN req[r].seqs : i < j => req[r].seqs[i] < req[r].seqs[j]
  /\ Committed(r) => \A i \in DOMAIN req[r].seqs : EventAt(req[r].seqs[i]) = decision[r].batch[i]

\* The numbers of a batch ascend.
LEMMA BatchAscends ==
  ASSUME NEW r, AppendOK(r)
  PROVE  \A i, j \in DOMAIN req[r].seqs : i < j => req[r].seqs[i] < req[r].seqs[j]
BY DEF AppendOK

\* Every event in the log was appended by a request.
LoggedBy ==
  \A s \in events : \E r \in Request : Committed(r) /\ s \in RowsOf(req[r].seqs)

ApiInv ==
  /\ DOMAIN log = events
  /\ RowsAreEvents
  /\ LogOK(Ev)
  /\ \A r \in Request : DecisionOK(r)
  /\ \A r \in Request : AppendOK(r)
  /\ LoggedBy

EngineInv ==
  /\ IndInv
  /\ DecisionInv
  /\ ApiInv
  /\ ProjectionOK(Ev, tables, applied, checkpoint)

\* The empty database.
LEMMA InitEngineInv == EngineInit => EngineInv
<1> SUFFICES ASSUME EngineInit
             PROVE  EngineInv
  OBVIOUS
<1>1. IndInv /\ DecisionInv
  BY EngineInitOK, InitIndInv
<1>2. /\ DOMAIN log = {} /\ events = {}
      /\ checkpoint = 0 /\ applied = <<>>
      /\ tables = EmptyTables
      /\ \A r \in Request : /\ req[r].state = "new" /\ req[r].seqs = <<>>
                            /\ decision[r] = Answer("new")
  BY DEF EngineInit, Init
<1>3. DOMAIN Ev = {} /\ DOMAIN <<>> = {}
  BY <1>2 DEF Ev
<1>4. ApiInv
  <2>1. LogOK(Ev)
    BY <1>3 DEF LogOK
  <2>2. \A r \in Request : DecisionOK(r)
    BY <1>2, AnswerOK DEF DecisionOK
  <2>3. \A r \in Request : AppendOK(r)
    BY <1>2, <1>3 DEF AppendOK, Committed
  <2> QED
    BY <1>2, <2>1, <2>2, <2>3 DEF ApiInv, RowsAreEvents, LoggedBy
<1>5. ProjectionOK(Ev, tables, applied, checkpoint)
  <2>1. /\ tables = [conversations |-> {}, threads |-> <<>>, messages |-> {}]
        /\ tables.conversations = {} /\ tables.threads = <<>> /\ tables.messages = {}
        /\ DOMAIN tables.threads = {}
    BY <1>2 DEF EmptyTables
  <2>2. TablesOK(tables)
    BY <2>1 DEF TablesOK
  <2>3. RowsOK(Ev, tables, 0)
    <3>1. 1..0 = {}
      OBVIOUS
    <3> QED
      BY <2>1, <3>1 DEF RowsOK
  <2>4. HistoryOK(Ev, <<>>, 0)
    BY <1>3 DEF HistoryOK, RowsOf
  <2>5. MembersOK(Ev, tables, <<>>)
    BY <2>1 DEF MembersOK
  <2> QED
    BY <1>2, <2>2, <2>3, <2>4, <2>5 DEF ProjectionOK
<1> QED
  BY <1>1, <1>4, <1>5 DEF EngineInv

\* The batch of a request that has committed.
LEMMA CommittedBatch ==
  ASSUME EngineInv, NEW r \in Request, Committed(r)
  PROVE  /\ BatchOK(decision[r].batch, r, {EventAt(n) : n \in Before(r)})
         /\ DOMAIN req[r].seqs = DOMAIN decision[r].batch
         /\ req[r].seqs \in Seq(Nat)
         /\ RowsOf(req[r].seqs) \subseteq DOMAIN log
         /\ \A i \in DOMAIN req[r].seqs : EventAt(req[r].seqs[i]) = decision[r].batch[i]
<1>1. AppendOK(r) /\ DecisionOK(r) /\ req[r].seqs \in Seq(Nat) /\ DOMAIN log = events
  BY DEF EngineInv, ApiInv, IndInv, TypeOK
<1>2. decision[r].status = "append" /\ req[r].size = Len(decision[r].batch)
  BY <1>1 DEF AppendOK
<1>3. BatchOK(decision[r].batch, r, {EventAt(n) : n \in Before(r)})
  BY <1>1, <1>2 DEF DecisionOK, OutcomeOK
<1>4. Len(req[r].seqs) = Len(decision[r].batch) /\ RowsOf(req[r].seqs) \subseteq events
  BY <1>2 DEF EngineInv, IndInv, BatchAllOrNothing
<1>5. DOMAIN req[r].seqs = DOMAIN decision[r].batch
  BY <1>1, <1>3, <1>4 DEF BatchOK, IsBatch
<1>6. \A i \in DOMAIN req[r].seqs : EventAt(req[r].seqs[i]) = decision[r].batch[i]
  BY <1>1 DEF AppendOK
<1> QED
  BY <1>1, <1>3, <1>4, <1>5, <1>6

\* Where an event of the log comes from.
LEMMA LoggedFrom ==
  ASSUME EngineInv, NEW s \in events
  PROVE  \E r \in Request : \E i \in DOMAIN decision[r].batch :
           /\ Committed(r)
           /\ BatchOK(decision[r].batch, r, {EventAt(n) : n \in Before(r)})
           /\ i \in DOMAIN req[r].seqs
           /\ req[r].seqs[i] = s
           /\ EventAt(s) = decision[r].batch[i]
<1>1. PICK r \in Request : Committed(r) /\ s \in RowsOf(req[r].seqs)
  BY DEF EngineInv, ApiInv, LoggedBy
<1>2. PICK i \in DOMAIN req[r].seqs : req[r].seqs[i] = s
  BY <1>1 DEF RowsOf
<1>3. /\ BatchOK(decision[r].batch, r, {EventAt(n) : n \in Before(r)})
      /\ DOMAIN req[r].seqs = DOMAIN decision[r].batch
      /\ EventAt(req[r].seqs[i]) = decision[r].batch[i]
  BY <1>1, CommittedBatch
<1>4. EventAt(s) = decision[r].batch[i] /\ i \in DOMAIN decision[r].batch
  BY <1>2, <1>3
<1> QED
  BY <1>1, <1>2, <1>3, <1>4

\* A conversation is created once.
LEMMA CreatedOnce ==
  ASSUME EngineInv, NEW s \in events, NEW n \in events,
         EventAt(s).type = "ConversationCreated", EventAt(n).type = "ConversationCreated",
         EventAt(s).conversation = EventAt(n).conversation
  PROVE  s = n
<1>1. PICK r \in Request : \E i \in DOMAIN decision[r].batch :
        /\ BatchOK(decision[r].batch, r, {EventAt(m) : m \in Before(r)})
        /\ req[r].seqs[i] = s
        /\ EventAt(s) = decision[r].batch[i]
  BY LoggedFrom
<1>2. PICK q \in Request : \E j \in DOMAIN decision[q].batch :
        /\ BatchOK(decision[q].batch, q, {EventAt(m) : m \in Before(q)})
        /\ req[q].seqs[j] = n
        /\ EventAt(n) = decision[q].batch[j]
  BY LoggedFrom
<1>3. PICK i \in DOMAIN decision[r].batch : req[r].seqs[i] = s /\ EventAt(s) = decision[r].batch[i]
  BY <1>1
<1>4. PICK j \in DOMAIN decision[q].batch : req[q].seqs[j] = n /\ EventAt(n) = decision[q].batch[j]
  BY <1>2
<1>5. decision[r].batch[i].conversation = r
  BY <1>1, <1>3 DEF BatchOK
<1>6. decision[q].batch[j].conversation = q
  BY <1>2, <1>4 DEF BatchOK
<1>7. r = q
  BY <1>3, <1>4, <1>5, <1>6
<1>8. i = j
  BY <1>1, <1>3, <1>4, <1>7 DEF BatchOK
<1> QED
  BY <1>3, <1>4, <1>7, <1>8

\* What the projection shows stands in the log: a thread was started, and its
\* participants have joined it.
LEMMA ShownIsLogged ==
  ASSUME EngineInv, NEW key \in DOMAIN tables.threads
  PROVE  /\ \E s \in 1..checkpoint : /\ s \in DOMAIN log
                                     /\ EventAt(s).type = "ThreadStarted"
                                     /\ ThreadKey(EventAt(s)) = key
         /\ \A p \in Range(tables.threads[key].participants) :
              \E s \in 1..checkpoint : s \in DOMAIN log /\ p \in Joined(EventAt(s), key)
<1>1. /\ 1..checkpoint \subseteq DOMAIN log
      /\ \A s \in DOMAIN log : Ev[s] = EventAt(s)
  BY DEF EngineInv, ApiInv, IndInv, TablesAgree, Ev
<1>2. /\ RowsOK(Ev, tables, checkpoint)
      /\ HistoryOK(Ev, applied, checkpoint)
      /\ MembersOK(Ev, tables, applied)
  BY DEF EngineInv, ProjectionOK
<1>3. \E s \in 1..checkpoint : /\ s \in DOMAIN log
                               /\ EventAt(s).type = "ThreadStarted"
                               /\ ThreadKey(EventAt(s)) = key
  BY <1>1, <1>2 DEF RowsOK
<1>4. ASSUME NEW p \in Range(tables.threads[key].participants)
      PROVE  \E s \in 1..checkpoint : s \in DOMAIN log /\ p \in Joined(EventAt(s), key)
  <2>1. p \in MembersAfter(Ev, applied, key)
    BY <1>2 DEF MembersOK
  <2>2. PICK i \in 1..Len(applied) : p \in Joined(Ev[applied[i]], key)
    BY <2>1, MembersAfterIn
  <2>3. applied[i] \in 1..checkpoint
    BY <1>2 DEF HistoryOK, RowsOf
  <2> QED
    BY <2>2, <2>3, <1>1
<1> QED
  BY <1>3, <1>4

\* A membership change is decided on a thread that is in the log.
LEMMA ManageOK ==
  ASSUME EngineInv, NEW r, NEW cmd
  PROVE  OutcomeOK(ManageThreadParticipant(cmd, ListByConversation(cmd.conversation)),
                   r, {EventAt(s) : s \in events})
<1> DEFINE c    == cmd.conversation
           n    == nextSeq - 1
           conv == Conv(c, n)
           earlier == {EventAt(s) : s \in events}
<1>1. n \in Nat
  BY DEF EngineInv, IndInv, TypeOK
<1>2. LogOK(Ev) /\ RowsAreEvents /\ DOMAIN log = events
  BY DEF EngineInv, ApiInv
<1>3. AggregateAt(c, n)
  BY <1>1, <1>2, AggregateIsThatOfLog
<1>4. ASSUME NEW e, IsEvent(e), e.type \in {"ParticipantAdded", "ParticipantRemoved"},
             cmd.thread \in DOMAIN conv.threads, ThreadKey(e) = <<c, cmd.thread>>
      PROVE  OutcomeOK(ToAppend(<<e>>), r, earlier)
  <2>1. PICK s \in events : /\ EventAt(s).type = "ThreadStarted"
                            /\ ThreadKey(EventAt(s)) = <<c, cmd.thread>>
    BY <1>2, <1>3, <1>4 DEF AggregateAt, StartedUpTo
  <2>2. Founded(e, earlier)
    BY <1>4, <2>1 DEF Founded
  <2> QED
    BY <1>4, <2>2, OneEventOK
<1>5. ASSUME cmd.thread \in DOMAIN conv.threads
      PROVE  conv.id = c
  <2>1. PICK s \in DOMAIN log : /\ s <= n
                                /\ EventAt(s).type = "ThreadStarted"
                                /\ ThreadKey(EventAt(s)) = <<c, cmd.thread>>
    BY <1>3, <1>5 DEF AggregateAt, StartedUpTo
  <2>2. EventAt(s).conversation = c
    BY <2>1 DEF ThreadKey
  <2>3. CreatedUpTo(c, s - 1) /\ s \in Nat
    BY <2>1, <2>2, <1>2, EventsAreFounded
  <2>4. PICK m \in DOMAIN log : m <= s - 1 /\ EventAt(m).type = "ConversationCreated" /\ EventAt(m).conversation = c
    BY <2>3 DEF CreatedUpTo
  <2>5. m \in Nat
    BY <1>2, EventsAreFounded
  <2>6. m <= n
    BY <2>1, <2>3, <2>4, <2>5, <1>1
  <2>7. CreatedUpTo(c, n)
    BY <2>4, <2>6 DEF CreatedUpTo
  <2> QED
    BY <2>7, <1>3 DEF AggregateAt
<1>6. RehydrateConversation(ListByConversation(c)) = conv
  BY DEF ListByConversation, Conv
<1> HIDE DEF conv, n, earlier
<1>7. OutcomeOK(AddParticipant(conv, cmd), r, earlier)
  <2> DEFINE e == ParticipantAdded(conv.id, cmd.thread, cmd.participant)
  <2>1. CASE cmd.thread \in DOMAIN conv.threads
    <3>1. IsEvent(e) /\ e.type = "ParticipantAdded" /\ ThreadKey(e) = <<c, cmd.thread>>
      BY <2>1, <1>5, EventShapes
    <3> HIDE DEF e
    <3>2. OutcomeOK(ToAppend(<<e>>), r, earlier)
      BY <2>1, <3>1, <1>4
    <3>3. AddParticipant(conv, cmd) \in {Answer("404"), Answer("204"), ToAppend(<<e>>)}
      BY DEF AddParticipant, e
    <3> QED
      BY <3>2, <3>3, AnswerOK
  <2>2. CASE cmd.thread \notin DOMAIN conv.threads
    BY <2>2, AnswerOK DEF AddParticipant
  <2> QED
    BY <2>1, <2>2
<1>8. OutcomeOK(RemoveParticipant(conv, cmd), r, earlier)
  <2> DEFINE e == ParticipantRemoved(conv.id, cmd.thread, cmd.participant)
  <2>1. CASE cmd.thread \in DOMAIN conv.threads
    <3>1. IsEvent(e) /\ e.type = "ParticipantRemoved" /\ ThreadKey(e) = <<c, cmd.thread>>
      BY <2>1, <1>5, EventShapes
    <3> HIDE DEF e
    <3>2. OutcomeOK(ToAppend(<<e>>), r, earlier)
      BY <2>1, <3>1, <1>4
    <3>3. RemoveParticipant(conv, cmd) \in {Answer("404"), Answer("204"), ToAppend(<<e>>)}
      BY DEF RemoveParticipant, e
    <3> QED
      BY <3>2, <3>3, AnswerOK
  <2>2. CASE cmd.thread \notin DOMAIN conv.threads
    BY <2>2, AnswerOK DEF RemoveParticipant
  <2> QED
    BY <2>1, <2>2
<1>9. ManageThreadParticipant(cmd, ListByConversation(c)) \in
        {Answer("400"), Answer("404"), AddParticipant(conv, cmd), RemoveParticipant(conv, cmd)}
  BY <1>6 DEF ManageThreadParticipant
<1> QED
  BY <1>7, <1>8, <1>9, AnswerOK DEF earlier

\* Every handler decides on what the log and the projection, which shows
\* nothing but the log, can found.
LEMMA HandlerOutcomeOK ==
  ASSUME EngineInv, NEW r \in Request, NEW cmd \in Command[r], HandlerStep(r, cmd)
  PROVE  \E outcome : /\ Decide(r, outcome)
                      /\ OutcomeOK(outcome, r, {EventAt(s) : s \in events})
<1> DEFINE earlier == {EventAt(s) : s \in events}
<1>0. LogOK(Ev) /\ RowsAreEvents /\ DOMAIN log = events
  BY DEF EngineInv, ApiInv
<1>1. CASE HandleStart(r, cmd)
  <2>1. OutcomeOK(StartConversation(cmd, r), r, earlier)
    BY <1>1, StartOK, RecipientsAssumption DEF HandleStart
  <2> QED
    BY <1>1, <2>1 DEF HandleStart
<1>2. CASE HandleAddThread(r, cmd)
  <2> DEFINE exists == Exists(tables, cmd.conversation)
  <2>1. exists \in BOOLEAN
    BY DEF Exists
  <2>2. ASSUME exists
        PROVE  \E f \in earlier : f.type = "ConversationCreated" /\ f.conversation = cmd.conversation
    <3>1. PICK key \in DOMAIN tables.threads : key[1] = cmd.conversation
      BY <2>2 DEF Exists
    <3>2. PICK s \in DOMAIN log : EventAt(s).type = "ThreadStarted" /\ ThreadKey(EventAt(s)) = key
      BY <3>1, ShownIsLogged
    <3>3. EventAt(s).conversation = cmd.conversation
      BY <3>1, <3>2 DEF ThreadKey
    <3>4. CreatedUpTo(cmd.conversation, s - 1)
      BY <3>2, <3>3, <1>0, EventsAreFounded
    <3> QED
      BY <3>4, <1>0 DEF CreatedUpTo
  <2>3. cmd.recipients = Nil \/ cmd.recipients \in Seq(Range(cmd.recipients))
    BY <1>2, RecipientsAssumption DEF HandleAddThread
  <2> HIDE DEF exists, earlier
  <2>4. OutcomeOK(AddThread(cmd, r, exists), r, earlier)
    BY <2>1, <2>2, <2>3, AddThreadOK
  <2> QED
    BY <1>2, <2>4 DEF HandleAddThread, exists, earlier
<1>3. CASE HandleReply(r, cmd)
  <2> DEFINE c       == cmd.conversation
             threads == ThreadsOf(tables, c)
             e       == MessagePosted(c, cmd.thread, cmd.author)
  <2>1. ASSUME AuthorizeReply(threads, cmd) = "ok"
        PROVE  OutcomeOK(ToAppend(<<e>>), r, earlier)
    <3>1. cmd.thread \in DOMAIN threads /\ Contains(threads[cmd.thread], cmd.author)
      BY <2>1 DEF AuthorizeReply
    <3>2. PICK key \in DOMAIN tables.threads : key[1] = c /\ key[2] = cmd.thread
      BY <3>1 DEF ThreadsOf
    <3>3. PICK s \in DOMAIN log : EventAt(s).type = "ThreadStarted" /\ ThreadKey(EventAt(s)) = key
      BY <3>2, ShownIsLogged
    <3>4. key = <<c, cmd.thread>>
      BY <3>2, <3>3 DEF ThreadKey
    <3>5. threads[cmd.thread] = tables.threads[key].participants
      BY <3>1, <3>4 DEF ThreadsOf
    <3>6. cmd.author \in Range(tables.threads[key].participants)
      <4>1. IsList(tables.threads[key].participants)
        BY <3>2 DEF EngineInv, ProjectionOK, TablesOK
      <4> QED
        BY <3>1, <3>5, <4>1 DEF Contains, Range, IsList
    <3>7. PICK m \in DOMAIN log : cmd.author \in Joined(EventAt(m), key)
      BY <3>2, <3>6, ShownIsLogged
    <3>8. IsEvent(e) /\ e.type = "MessagePosted" /\ e.author = cmd.author /\ ThreadKey(e) = key
      BY <3>4, EventShapes
    <3> HIDE DEF e
    <3>9. Founded(e, earlier)
      BY <3>3, <3>7, <3>8, <1>0 DEF Founded
    <3> QED
      BY <3>8, <3>9, OneEventOK
  <2>2. AuthorizeReply(threads, cmd) \in {"404", "403", "ok"}
    BY DEF AuthorizeReply
  <2>3. OutcomeOK(ReplyToThread(cmd, threads), r, earlier)
    <3>1. CASE ~ ValidReply(cmd)
      BY <3>1, AnswerOK DEF ReplyToThread
    <3>2. CASE ValidReply(cmd) /\ AuthorizeReply(threads, cmd) # "ok"
      <4>1. ReplyToThread(cmd, threads) = Answer(AuthorizeReply(threads, cmd))
        BY <3>2 DEF ReplyToThread
      <4> QED
        BY <3>2, <4>1, <2>2, AnswerOK
    <3>3. CASE ValidReply(cmd) /\ AuthorizeReply(threads, cmd) = "ok"
      <4>1. ReplyToThread(cmd, threads) = ToAppend(<<e>>)
        BY <3>3 DEF ReplyToThread
      <4> QED
        BY <3>3, <4>1, <2>1
    <3> QED
      BY <3>1, <3>2, <3>3
  <2> QED
    BY <1>3, <2>3 DEF HandleReply
<1>4. CASE HandleAddParticipant(r, cmd) \/ HandleRemoveParticipant(r, cmd)
  BY <1>4, ManageOK DEF HandleAddParticipant, HandleRemoveParticipant, Manage
<1>5. CASE ReadFails(r, cmd)
  BY <1>5, AnswerOK DEF ReadFails
<1> QED
  BY <1>1, <1>2, <1>3, <1>4, <1>5 DEF HandlerStep

\* A decision changes nothing else.
LEMMA HandlerKeeps ==
  ASSUME EngineInv, NEW r \in Request, NEW cmd \in Command[r], HandlerStep(r, cmd)
  PROVE  ApiInv' /\ ProjectionOK(Ev, tables, applied, checkpoint)'
<1>1. PICK outcome : Decide(r, outcome) /\ OutcomeOK(outcome, r, {EventAt(s) : s \in events})
  BY HandlerOutcomeOK
<1>2. /\ UNCHANGED <<log, tables, req, events, checkpoint, applied>>
      /\ decision[r].status = "new"
      /\ decision'[r] = outcome
      /\ \A q \in Request : q # r => decision'[q] = decision[q]
  BY <1>1 DEF Decide, vars, EngineInv, DecisionInv
<1>3. Ev' = Ev /\ \A s : EventAt(s)' = EventAt(s)
  BY <1>2 DEF Ev, EventAt
<1>4. ProjectionOK(Ev, tables, applied, checkpoint)'
  BY <1>2, <1>3 DEF EngineInv
<1>5. req[r].state = "new" /\ req[r].seqs = <<>>
  BY <1>2 DEF EngineInv, ApiInv, AppendOK
<1>6. \A q \in Request : Before(q)' = Before(q) /\ (Committed(q)' <=> Committed(q))
  BY <1>2 DEF Before, Committed
<1>7. ASSUME NEW q \in Request
      PROVE  DecisionOK(q)' /\ AppendOK(q)'
  <2>0. DecisionOK(q) /\ AppendOK(q)
    BY DEF EngineInv, ApiInv
  <2>1. CASE q # r
    <3>1. DecisionOK(q)'
      BY <2>0, <2>1, <1>2, <1>3, <1>6 DEF DecisionOK
    <3>2. AppendOK(q)'
      BY <2>0, <2>1, <1>2, <1>3, <1>6 DEF AppendOK
    <3> QED
      BY <3>1, <3>2
  <2>2. CASE q = r
    <3>1. DOMAIN <<>> = {}
      OBVIOUS
    <3>2. Before(r) = events
      BY <1>5, <3>1 DEF Before
    <3>3. DecisionOK(r)'
      BY <1>1, <1>2, <1>3, <1>6, <3>2 DEF DecisionOK
    <3>4. AppendOK(r)'
      BY <1>2, <1>5, <1>6, <3>1 DEF AppendOK, Committed
    <3> QED
      BY <2>2, <3>3, <3>4
  <2> QED
    BY <2>1, <2>2
<1>8. LoggedBy'
  BY <1>2, <1>3, <1>6 DEF EngineInv, ApiInv, LoggedBy
<1>9. (DOMAIN log = events)' /\ RowsAreEvents' /\ LogOK(Ev)'
  BY <1>2, <1>3 DEF EngineInv, ApiInv, RowsAreEvents
<1> QED
  BY <1>4, <1>7, <1>8, <1>9 DEF ApiInv

\* Append before its commit: only the state of the one request changes.
LEMMA AppendStepKeeps ==
  ASSUME EngineInv, NEW r \in Request, AppendStep(r)
  PROVE  ApiInv' /\ ProjectionOK(Ev, tables, applied, checkpoint)'
<1>1. /\ UNCHANGED <<log, tables, decision, events, checkpoint, applied>>
      /\ decision[r].status = "append"
      /\ req[r].state \in {"new", "open"}
      /\ \A q \in Request : q # r => req'[q] = req[q]
      /\ req'[r].state \in {"open", "failed"}
  BY DEF AppendStep, engineVars, Begin, BeginFails, InsertEvent, Rollback, relayVars,
         EngineInv, IndInv, TypeOK
<1>2. Ev' = Ev /\ \A s : EventAt(s)' = EventAt(s)
  BY <1>1 DEF Ev, EventAt
<1>3. ProjectionOK(Ev, tables, applied, checkpoint)'
  BY <1>1, <1>2 DEF EngineInv
<1>4. DecisionOK(r) /\ AppendOK(r)
  BY DEF EngineInv, ApiInv
<1>5. /\ req[r].seqs \in Seq(Nat)
      /\ nextSeq \in Nat
      /\ \A i \in DOMAIN req[r].seqs : req[r].seqs[i] \in 1..(nextSeq - 1)
      /\ \A s \in events : s \in 1..(nextSeq - 1)
  BY DEF EngineInv, IndInv, TypeOK, RowsOf, Drawn
<1>6. \/ req'[r].seqs = <<>> /\ req'[r].state = "open" /\ req'[r].size = Len(decision[r].batch)
      \/ req'[r].seqs = req[r].seqs /\ req'[r].state = "failed"
      \/ /\ req'[r].seqs = Append(req[r].seqs, nextSeq)
         /\ req'[r].state = "open" /\ req[r].state = "open" /\ req'[r].size = req[r].size
  BY DEF AppendStep, Begin, BeginFails, InsertEvent, Rollback, EngineInv, IndInv, TypeOK
<1>7. Before(r) \subseteq Before(r)'
  <2>1. CASE req'[r].seqs = <<>>
    <3>1. DOMAIN <<>> = {}
      OBVIOUS
    <3> QED
      BY <2>1, <3>1, <1>1 DEF Before
  <2>2. CASE req'[r].seqs = req[r].seqs
    BY <2>2, <1>1 DEF Before
  <2>3. CASE req'[r].seqs = Append(req[r].seqs, nextSeq)
    <3> DEFINE old == req[r].seqs
               new == Append(old, nextSeq)
    <3>1. /\ Len(old) \in Nat
          /\ DOMAIN old = 1..Len(old)
          /\ DOMAIN new = 1..(Len(old) + 1)
          /\ new[Len(old) + 1] = nextSeq
          /\ \A i \in 1..Len(old) : new[i] = old[i]
          /\ \A i \in 1..(Len(old) + 1) : i \in 1..Len(old) \/ i = Len(old) + 1
      BY <1>5
    <3>2. \A s \in events : s < nextSeq
      BY <1>5
    <3> HIDE DEF new
    <3>3. req'[r].seqs = new
      BY <2>3 DEF new
    <3> QED
      BY <3>1, <3>2, <3>3, <1>1 DEF Before
  <2> QED
    BY <2>1, <2>2, <2>3, <1>6
<1>8. DecisionOK(r)'
  <2> DEFINE A == {EventAt(s) : s \in Before(r)}
             B == {EventAt(s)' : s \in Before(r)'}
  <2>1. A \subseteq B
    BY <1>2, <1>7
  <2>2. \A e : Founded(e, A) => Founded(e, B)
    BY <2>1, FoundedMonotone
  <2>3. BatchOK(decision[r].batch, r, A)
    BY <1>1, <1>4 DEF DecisionOK, OutcomeOK
  <2> HIDE DEF A, B
  <2>4. BatchOK(decision[r].batch, r, B)
    <3> DEFINE b == decision[r].batch
    <3>1. ASSUME NEW i \in DOMAIN b
          PROVE  Founded(b[i], {b[j] : j \in 1..(i - 1)} \cup B)
      <4>1. Founded(b[i], {b[j] : j \in 1..(i - 1)} \cup A)
        BY <2>3 DEF BatchOK
      <4>2. {b[j] : j \in 1..(i - 1)} \cup A \subseteq {b[j] : j \in 1..(i - 1)} \cup B
        BY <2>1
      <4> QED
        BY <4>1, <4>2, FoundedMonotone
    <3> QED
      BY <2>3, <3>1 DEF BatchOK
  <2> QED
    BY <2>4, <1>1 DEF DecisionOK, OutcomeOK, B
<1>9. AppendOK(r)'
  <2>1. \A i, j \in DOMAIN req'[r].seqs : i < j => req'[r].seqs[i] < req'[r].seqs[j]
    <3>1. CASE req'[r].seqs = <<>>
      BY <3>1
    <3>2. CASE req'[r].seqs = req[r].seqs
      BY <3>2, <1>4 DEF AppendOK
    <3>3. CASE req'[r].seqs = Append(req[r].seqs, nextSeq)
      <4> DEFINE old == req[r].seqs
                 new == Append(old, nextSeq)
      <4>1. /\ Len(old) \in Nat
            /\ DOMAIN old = 1..Len(old)
            /\ DOMAIN new = 1..(Len(old) + 1)
            /\ new[Len(old) + 1] = nextSeq
            /\ \A i \in 1..Len(old) : new[i] = old[i] /\ old[i] < nextSeq
            /\ \A i \in 1..(Len(old) + 1) : i \in 1..Len(old) \/ i = Len(old) + 1
        <5>1. old \in Seq(Nat) /\ nextSeq \in Nat /\ \A i \in 1..Len(old) : old[i] < nextSeq
          BY <1>5
        <5> HIDE DEF old
        <5> QED
          BY <5>1
      <4>2. \A i, j \in 1..Len(old) : i < j => old[i] < old[j]
        BY <4>1, <1>4, BatchAscends
      <4> HIDE DEF new, old
      <4>3. \A i, j \in 1..(Len(old) + 1) : i < j => new[i] < new[j]
        <5> SUFFICES ASSUME NEW i \in 1..(Len(old) + 1), NEW j \in 1..(Len(old) + 1), i < j
                     PROVE  new[i] < new[j]
          OBVIOUS
        <5>1. i \in 1..Len(old)
          BY <4>1
        <5> QED
          BY <5>1, <4>1, <4>2
      <4> QED
        BY <3>3, <4>1, <4>3 DEF new, old
    <3> QED
      BY <3>1, <3>2, <3>3, <1>6
  <2>2. req'[r].state = "open" => req'[r].size = Len(decision[r].batch)
    BY <1>4, <1>6 DEF AppendOK
  <2> QED
    BY <2>1, <2>2, <1>1 DEF AppendOK, Committed
<1>10. ASSUME NEW q \in Request, q # r
       PROVE  DecisionOK(q)' /\ AppendOK(q)'
  <2>1. DecisionOK(q) /\ AppendOK(q)
    BY DEF EngineInv, ApiInv
  <2>2. req'[q] = req[q]
    BY <1>10, <1>1
  <2>3. Before(q)' = Before(q)
    BY <2>2, <1>1 DEF Before
  <2>4. DecisionOK(q)'
    BY <2>1, <2>3, <1>1, <1>2 DEF DecisionOK
  <2>5. AppendOK(q)'
    BY <2>1, <2>2, <1>1, <1>2 DEF AppendOK, Committed
  <2> QED
    BY <2>4, <2>5
<1>11. LoggedBy'
  <2> SUFFICES ASSUME NEW s \in events
               PROVE  \E q \in Request : Committed(q)' /\ s \in RowsOf(req'[q].seqs)
    BY <1>1 DEF LoggedBy
  <2>1. PICK q \in Request : Committed(q) /\ s \in RowsOf(req[q].seqs)
    BY DEF EngineInv, ApiInv, LoggedBy
  <2>2. q # r
    BY <2>1, <1>1 DEF Committed
  <2>3. req'[q] = req[q]
    BY <2>2, <1>1
  <2> QED
    BY <2>1, <2>3 DEF Committed
<1>12. (DOMAIN log = events)' /\ RowsAreEvents' /\ LogOK(Ev)'
  BY <1>1, <1>2 DEF EngineInv, ApiInv, RowsAreEvents
<1> QED
  BY <1>3, <1>8, <1>9, <1>10, <1>11, <1>12 DEF ApiInv

\* What only the API changes.
LEMMA ApiUnchanged ==
  ASSUME ApiInv, UNCHANGED <<decision, log, req, events>>
  PROVE  ApiInv'
<1>1. Ev' = Ev /\ \A s : EventAt(s)' = EventAt(s)
  BY DEF Ev, EventAt
<1>2. ASSUME NEW r \in Request
      PROVE  DecisionOK(r)' /\ AppendOK(r)'
  <2>1. DecisionOK(r) /\ AppendOK(r)
    BY DEF ApiInv
  <2>2. Before(r)' = Before(r)
    BY DEF Before
  <2>3. DecisionOK(r)'
    BY <2>1, <2>2, <1>1 DEF DecisionOK
  <2>4. AppendOK(r)'
    BY <2>1, <1>1 DEF AppendOK, Committed
  <2> QED
    BY <2>3, <2>4
<1>3. LoggedBy'
  BY DEF ApiInv, LoggedBy, Committed
<1>4. (DOMAIN log = events)' /\ RowsAreEvents' /\ LogOK(Ev)'
  BY <1>1 DEF ApiInv, RowsAreEvents
<1> QED
  BY <1>2, <1>3, <1>4 DEF ApiInv

\* The relay leaves the API alone.
LEMMA RelayKeeps ==
  ASSUME EngineInv, NEW rl \in Relay, DrainStep(rl) \/ ProjectionReject(rl)
  PROVE  ApiInv' /\ ProjectionOK(Ev, tables, applied, checkpoint)'
<1>1. UNCHANGED <<decision, log, tables, req, events, checkpoint, applied>>
  BY DEF DrainStep, ProjectionReject, engineVars, ReadPending, ReadCheckpoint, MarkDone, DrainFails,
         ApplyRejected, apiVars
<1>2. Ev' = Ev /\ \A s : EventAt(s)' = EventAt(s)
  BY <1>1 DEF Ev, EventAt
<1>3. ProjectionOK(Ev, tables, applied, checkpoint)'
  BY <1>1, <1>2 DEF EngineInv
<1>4. ApiInv'
  BY <1>1, ApiUnchanged DEF EngineInv
<1> QED
  BY <1>3, <1>4

\* A drain applies committed events, from at most one above the checkpoint.
LEMMA RunIsLogged ==
  ASSUME EngineInv, NEW rl \in Relay, relay[rl].pc = "apply"
  PROVE  /\ relay[rl].next \in Nat /\ relay[rl].last \in Nat /\ checkpoint \in Nat
         /\ 1 <= relay[rl].next /\ relay[rl].next <= relay[rl].last
         /\ relay[rl].next <= checkpoint + 1
         /\ 1..checkpoint \subseteq DOMAIN Ev
         /\ relay[rl].next..relay[rl].last \subseteq DOMAIN Ev
         /\ ApplyRunTo(rl) = ApplyEntries(tables, EntriesOf(Ev, relay[rl].next, relay[rl].last))
<1> DEFINE from == relay[rl].next
           to   == relay[rl].last
           seqs == Interval(from, to)
<1>1. /\ from \in Nat /\ to \in Nat /\ checkpoint \in Nat
      /\ 1 <= from /\ from <= to
      /\ from <= checkpoint + 1
      /\ from..to \subseteq events
      /\ 1..checkpoint \subseteq events
  BY DEF EngineInv, IndInv, DrainOK, TypeOK, TablesAgree
<1>2. DOMAIN Ev = events /\ DOMAIN log = events
  BY DEF EngineInv, ApiInv, Ev
<1> HIDE DEF from, to
<1>3. \A i \in DOMAIN seqs : seqs[i] \in from..to
  <2>1. from \in Nat \ {0} /\ from <= to + 1
    BY <1>1
  <2>2. RowsOf(seqs) = from..to
    BY <1>1, <2>1, RowsOfInterval
  <2> QED
    BY <2>2 DEF RowsOf
<1>4. \A i \in DOMAIN seqs : Ev[seqs[i]] = ToDomainEvent(log[seqs[i]])
  BY <1>1, <1>2, <1>3 DEF Ev, EventAt
<1>5. ApplyRunTo(rl) = ApplyEntries(tables, EntriesOf(Ev, from, to))
  <2> HIDE DEF seqs
  <2>1. [i \in DOMAIN seqs |-> [sequence |-> seqs[i], event |-> ToDomainEvent(log[seqs[i]])]]
          = [i \in DOMAIN seqs |-> [sequence |-> seqs[i], event |-> Ev[seqs[i]]]]
    BY <1>4
  <2> QED
    BY <2>1 DEF ApplyRunTo, EntriesOf, seqs, from, to
<1> QED
  BY <1>1, <1>2, <1>5 DEF from, to

\* Store.Apply commits.
LEMMA ApplyKeeps ==
  ASSUME EngineInv, NEW rl \in Relay, ProjectionApply(rl)
  PROVE  ApiInv' /\ ProjectionOK(Ev, tables, applied, checkpoint)'
<1> DEFINE from == relay[rl].next
           to   == relay[rl].last
<1>1. /\ UNCHANGED <<decision, log, req, events>>
      /\ relay[rl].pc = "apply"
      /\ ApplyRunTo(rl).ok
      /\ tables' = ApplyRunTo(rl).tables
      /\ applied' = applied \o Interval(from, to)
      /\ checkpoint' = Reached(checkpoint, to)
  BY DEF ProjectionApply, Apply, ApplyUnacknowledged, ApplyRun, apiVars, Reached,
         SetProjectionCheckpoint
<1>2. Ev' = Ev /\ \A s : EventAt(s)' = EventAt(s)
  BY <1>1 DEF Ev, EventAt
<1>3. LogOK(Ev) /\ ProjectionOK(Ev, tables, applied, checkpoint)
  BY DEF EngineInv, ApiInv
<1>4. ProjectionOK(Ev, ApplyRunTo(rl).tables, applied \o Interval(from, to), Reached(checkpoint, to))
  <2>1. ApplyRunTo(rl) = ApplyEntries(tables, EntriesOf(Ev, from, to))
    BY <1>1, RunIsLogged
  <2>2. /\ from \in Nat /\ to \in Nat /\ checkpoint \in Nat
        /\ 1 <= from /\ from <= to /\ from <= checkpoint + 1
        /\ 1..checkpoint \subseteq DOMAIN Ev /\ from..to \subseteq DOMAIN Ev
    BY <1>1, RunIsLogged
  <2> HIDE DEF from, to
  <2> QED
    BY <2>1, <2>2, <1>1, <1>3, RunKeeps
<1>5. ApiInv'
  BY <1>1, ApiUnchanged DEF EngineInv
<1> QED
  BY <1>1, <1>2, <1>4, <1>5

\* The projection does not depend on events beyond the checkpoint.
LEMMA ProjectionIsLocal ==
  ASSUME NEW ev, NEW ev2, NEW tb, NEW q, NEW n \in Nat, ProjectionOK(ev, tb, q, n),
         \A s \in 1..n : ev2[s] = ev[s]
  PROVE  ProjectionOK(ev2, tb, q, n)
<1>1. TablesOK(tb) /\ RowsOK(ev, tb, n) /\ HistoryOK(ev, q, n) /\ MembersOK(ev, tb, q)
  BY DEF ProjectionOK
<1>2. \A type : {m \in 1..n : ev2[m].type = type} = {m \in 1..n : ev[m].type = type}
  OBVIOUS
<1>3. RowsOK(ev2, tb, n)
  <2>1. {ThreadKey(ev2[s]) : s \in {m \in 1..n : ev2[m].type = "ThreadStarted"}} =
          {ThreadKey(ev[s]) : s \in {m \in 1..n : ev[m].type = "ThreadStarted"}}
    BY <1>2
  <2>2. {MessageRow([sequence |-> s, event |-> ev2[s]]) : s \in {m \in 1..n : ev2[m].type = "MessagePosted"}} =
          {MessageRow([sequence |-> s, event |-> ev[s]]) : s \in {m \in 1..n : ev[m].type = "MessagePosted"}}
    BY <1>2
  <2>3. \A s \in 1..n : ev2[s].type \in {"ConversationCreated", "ThreadStarted"}
                       => ev2[s].conversation \in tb.conversations
    BY <1>1 DEF RowsOK
  <2> QED
    BY <1>1, <2>1, <2>2, <2>3, Zenon DEF RowsOK
<1>4. q \in Seq(Nat) /\ \A i \in 1..Len(q) : q[i] \in 1..n /\ ev2[q[i]] = ev[q[i]]
  <2>1. q \in Seq(Nat) /\ RowsOf(q) \subseteq 1..n
    BY <1>1 DEF HistoryOK
  <2>2. \A i \in 1..Len(q) : q[i] \in RowsOf(q)
    BY <2>1 DEF RowsOf
  <2>3. \A i \in 1..Len(q) : q[i] \in 1..n
    BY <2>1, <2>2
  <2> QED
    BY <2>1, <2>3
<1>5. HistoryOK(ev2, q, n)
  <2>1. /\ q \in Seq(Nat)
        /\ RowsOf(q) \subseteq 1..n
        /\ \A i, j \in DOMAIN q : i < j /\ ev[q[j]].type = "ThreadStarted" => q[i] < q[j]
    BY <1>1 DEF HistoryOK
  <2>2. DOMAIN q = 1..Len(q)
    BY <2>1
  <2>3. \A j \in DOMAIN q : ev2[q[j]] = ev[q[j]]
    BY <1>4, <2>2
  <2>4. \A i, j \in DOMAIN q : i < j /\ ev2[q[j]].type = "ThreadStarted" => q[i] < q[j]
    BY <2>1, <2>3, Zenon
  <2> QED
    BY <2>1, <2>4, Zenon DEF HistoryOK
<1>6. MembersOK(ev2, tb, q)
  <2> SUFFICES ASSUME NEW key \in DOMAIN tb.threads
               PROVE  MembersAfter(ev2, q, key) = MembersAfter(ev, q, key)
    BY <1>1 DEF MembersOK
  <2>1. \A i \in 1..Len(q) : \A j \in (i + 1)..Len(q) : j \in 1..Len(q)
    BY <1>4
  <2>2. ASSUME NEW p
        PROVE  p \in MembersAfter(ev2, q, key) <=> p \in MembersAfter(ev, q, key)
    <3>1. p \in MembersAfter(ev2, q, key) <=>
            \E i \in 1..Len(q) : /\ p \in Joined(ev2[q[i]], key)
                                 /\ \A j \in (i + 1)..Len(q) : p \notin Left(ev2[q[j]], key)
      BY MembersAfterIn
    <3>2. p \in MembersAfter(ev, q, key) <=>
            \E i \in 1..Len(q) : /\ p \in Joined(ev[q[i]], key)
                                 /\ \A j \in (i + 1)..Len(q) : p \notin Left(ev[q[j]], key)
      BY MembersAfterIn
    <3> QED
      BY <3>1, <3>2, <2>1, <1>4
  <2> QED
    BY <2>2
<1> QED
  BY <1>1, <1>3, <1>5, <1>6 DEF ProjectionOK

\* What the commit of request r puts into the log.
LEMMA CommitEffect ==
  ASSUME EngineInv, NEW r \in Request, AppendCommit(r)
  PROVE  /\ UNCHANGED <<decision, tables, checkpoint, applied, nextSeq>>
         /\ req[r].state = "open"
         /\ Committed(r)'
         /\ req'[r].seqs = req[r].seqs /\ req'[r].size = req[r].size
         /\ \A q \in Request : q # r => req'[q] = req[q]
         /\ events' = events \cup RowsOf(req[r].seqs)
         /\ DOMAIN log' = events'
         /\ events \cap RowsOf(req[r].seqs) = {}
         /\ BatchOK(decision[r].batch, r, {EventAt(s) : s \in Before(r)})
         /\ DOMAIN req[r].seqs = DOMAIN decision[r].batch
         /\ \A s \in events : log'[s] = log[s] /\ EventAt(s)' = EventAt(s)
         /\ \A i \in DOMAIN req[r].seqs : \A s : s = req[r].seqs[i] =>
              /\ log'[s] = MarshalEvent(decision[r].batch[i])
              /\ EventAt(s)' = decision[r].batch[i]
<1> DEFINE seqs == req[r].seqs
           b    == decision[r].batch
<1>1. /\ UNCHANGED <<decision, tables, checkpoint, applied, nextSeq>>
      /\ req[r].state = "open"
      /\ Len(seqs) = req[r].size
      /\ Committed(r)'
      /\ req'[r].seqs = seqs /\ req'[r].size = req[r].size
      /\ \A q \in Request : q # r => req'[q] = req[q]
      /\ events' = events \cup RowsOf(seqs)
  BY DEF AppendCommit, Commit, CommitUnacknowledged, CommitRows, relayVars, Committed,
         EngineInv, IndInv, TypeOK
<1>2. DOMAIN log = events /\ DecisionOK(r) /\ AppendOK(r)
  BY DEF EngineInv, ApiInv
<1>3. events \cap RowsOf(seqs) = {}
  BY <1>1 DEF EngineInv, IndInv, BatchAllOrNothing, Committed
<1>4. decision[r].status = "append" /\ Len(seqs) = Len(b)
  BY <1>1, <1>2 DEF AppendOK
<1>5. BatchOK(b, r, {EventAt(s) : s \in Before(r)})
  BY <1>2, <1>4 DEF DecisionOK, OutcomeOK
<1>6. seqs \in Seq(Nat)
  BY DEF EngineInv, IndInv, TypeOK
<1>7. DOMAIN seqs = DOMAIN b
  BY <1>4, <1>5, <1>6 DEF BatchOK, IsBatch
<1>8. log' = [s \in DOMAIN log \cup RowsOf(seqs) |->
               IF s \in DOMAIN log THEN log[s]
               ELSE MarshalEvent(b[CHOOSE i \in DOMAIN seqs : seqs[i] = s])]
  BY DEF AppendCommit
<1>9. \A i, j \in DOMAIN seqs : seqs[i] = seqs[j] => i = j
  <2>1. \A i, j \in DOMAIN seqs : i < j => seqs[i] < seqs[j]
    BY <1>2, BatchAscends
  <2> HIDE DEF seqs, b
  <2>2. \A i, j \in DOMAIN seqs : i \in Nat /\ j \in Nat /\ seqs[i] \in Nat /\ seqs[j] \in Nat
    BY <1>6
  <2> QED
    BY <2>1, <2>2
<1> HIDE DEF seqs, b
<1>10. ASSUME NEW i \in DOMAIN seqs, NEW s, s = seqs[i]
       PROVE  log'[s] = MarshalEvent(b[i]) /\ EventAt(s)' = b[i]
  <2>1. seqs[i] \in RowsOf(seqs) /\ seqs[i] \notin DOMAIN log
    BY <1>2, <1>3 DEF RowsOf
  <2>2. (CHOOSE k \in DOMAIN seqs : seqs[k] = seqs[i]) = i
    BY <1>9
  <2>3. log'[s] = MarshalEvent(b[i])
    BY <1>8, <1>10, <2>1, <2>2
  <2>4. IsEvent(b[i])
    BY <1>5, <1>7 DEF BatchOK
  <2>5. ToDomainEvent(MarshalEvent(b[i])) = b[i]
    BY <2>4, RoundTrip
  <2> QED
    BY <2>3, <2>5 DEF EventAt
<1>11. \A s \in events : log'[s] = log[s] /\ EventAt(s)' = EventAt(s)
  BY <1>2, <1>8 DEF EventAt
<1>12. DOMAIN log' = events'
  BY <1>1, <1>2, <1>8
<1> QED
  BY <1>1, <1>3, <1>5, <1>7, <1>10, <1>11, <1>12 DEF seqs, b

\* Commit: the batch goes into the log, founded on what is below its numbers.
LEMMA CommitKeeps ==
  ASSUME EngineInv, NEW r \in Request, AppendCommit(r)
  PROVE  ApiInv' /\ ProjectionOK(Ev, tables, applied, checkpoint)'
<1> DEFINE seqs == req[r].seqs
           b    == decision[r].batch
           ev   == Ev
           ev2  == Ev'
<1>1. /\ UNCHANGED <<decision, tables, checkpoint, applied, nextSeq>>
      /\ req[r].state = "open"
      /\ Committed(r)'
      /\ req'[r].seqs = seqs /\ req'[r].size = req[r].size
      /\ \A q \in Request : q # r => req'[q] = req[q]
      /\ events' = events \cup RowsOf(seqs)
      /\ DOMAIN log' = events'
      /\ events \cap RowsOf(seqs) = {}
      /\ BatchOK(b, r, {EventAt(s) : s \in Before(r)})
      /\ DOMAIN seqs = DOMAIN b
      /\ \A s \in events : log'[s] = log[s] /\ EventAt(s)' = EventAt(s)
      /\ \A i \in DOMAIN seqs : \A s : s = seqs[i] => log'[s] = MarshalEvent(b[i]) /\ EventAt(s)' = b[i]
  BY CommitEffect
<1>2. /\ DOMAIN log = events
      /\ RowsAreEvents
      /\ LogOK(ev)
      /\ \A q \in Request : DecisionOK(q) /\ AppendOK(q)
      /\ LoggedBy
  BY DEF EngineInv, ApiInv
<1>3. /\ DOMAIN ev = events
      /\ DOMAIN ev2 = events'
      /\ \A s \in events : ev[s] = EventAt(s) /\ ev2[s] = EventAt(s)
      /\ \A i \in DOMAIN seqs : ev2[seqs[i]] = b[i] /\ seqs[i] \in events'
  <2>1. DOMAIN ev = events /\ DOMAIN ev2 = events'
    BY <1>1, <1>2 DEF Ev
  <2>2. \A s \in events : ev[s] = EventAt(s) /\ ev2[s] = EventAt(s)
    BY <1>1, <1>2 DEF Ev
  <2>3. \A i \in DOMAIN seqs : seqs[i] \in events'
    BY <1>1 DEF RowsOf
  <2>4. \A s \in events' : ev2[s] = EventAt(s)'
    BY <1>1 DEF Ev
  <2> QED
    BY <1>1, <2>1, <2>2, <2>3, <2>4
<1>4. /\ seqs \in Seq(Nat)
      /\ \A i \in DOMAIN seqs : i \in Nat \ {0} /\ seqs[i] \in Nat \ {0}
      /\ \A i, j \in DOMAIN seqs : i < j => seqs[i] < seqs[j]
  <2>1. seqs \in Seq(Nat) /\ RowsOf(seqs) \subseteq 1..(nextSeq - 1)
    BY DEF EngineInv, IndInv, TypeOK, Drawn
  <2>2. \A i \in DOMAIN seqs : i \in Nat \ {0} /\ seqs[i] \in RowsOf(seqs)
    BY <2>1 DEF RowsOf
  <2>3. \A i \in DOMAIN seqs : seqs[i] \in Nat \ {0}
    BY <2>1, <2>2
  <2>4. \A i, j \in DOMAIN seqs : i < j => seqs[i] < seqs[j]
    BY <1>2, BatchAscends
  <2> QED
    BY <2>1, <2>2, <2>3, <2>4
<1>5. \A s \in events : s \in Nat \ {0}
  BY <1>2, <1>3 DEF LogOK
<1>6. ASSUME NEW s \in events'
      PROVE  s \in events \/ \E i \in DOMAIN seqs : s = seqs[i]
  BY <1>1 DEF RowsOf
<1> HIDE DEF ev, ev2, seqs, b
<1>7. \A s \in events : ~ \E i \in DOMAIN seqs : s = seqs[i]
  BY <1>1 DEF RowsOf
<1>8. ProjectionOK(Ev, tables, applied, checkpoint)'
  <2>1. ProjectionOK(ev, tables, applied, checkpoint) /\ checkpoint \in Nat /\ 1..checkpoint \subseteq events
    BY DEF EngineInv, IndInv, TypeOK, TablesAgree, ev
  <2>2. \A s \in 1..checkpoint : ev2[s] = ev[s]
    BY <2>1, <1>3
  <2>3. ProjectionOK(ev2, tables, applied, checkpoint)
    BY <2>1, <2>2, ProjectionIsLocal
  <2> QED
    BY <2>3, <1>1 DEF ev2
<1>9. RowsAreEvents'
  <2> SUFFICES ASSUME NEW s \in events'
               PROVE  log'[s] = MarshalEvent(EventAt(s)')
    BY <1>1 DEF RowsAreEvents
  <2>1. CASE s \in events
    BY <2>1, <1>1, <1>2 DEF RowsAreEvents
  <2>2. CASE s \notin events
    <3>1. PICK i \in DOMAIN seqs : s = seqs[i]
      BY <2>2, <1>6
    <3> QED
      BY <3>1, <1>1
  <2> QED
    BY <2>1, <2>2
<1>10. ASSUME NEW s \in events
       PROVE  EarlierIn(ev, s) \subseteq EarlierIn(ev2, s)
  <2>1. \A n \in events : n \in events' /\ ev2[n] = ev[n]
    BY <1>1, <1>3
  <2> QED
    BY <2>1, <1>3 DEF EarlierIn
<1>11. ASSUME NEW i \in DOMAIN seqs
       PROVE  {b[j] : j \in 1..(i - 1)} \cup {EventAt(n) : n \in Before(r)} \subseteq EarlierIn(ev2, seqs[i])
  <2>1. ASSUME NEW j \in 1..(i - 1)
        PROVE  b[j] \in EarlierIn(ev2, seqs[i])
    <3>1. j \in DOMAIN seqs /\ j < i
      BY <1>4
    <3>2. seqs[j] < seqs[i] /\ seqs[j] \in Nat \ {0} /\ seqs[i] \in Nat
      BY <3>1, <1>4
    <3>3. seqs[j] \in 1..(seqs[i] - 1)
      BY <3>2
    <3>4. seqs[j] \in DOMAIN ev2 /\ ev2[seqs[j]] = b[j]
      BY <3>1, <1>3
    <3> QED
      BY <3>3, <3>4 DEF EarlierIn
  <2>2. ASSUME NEW n \in Before(r)
        PROVE  EventAt(n) \in EarlierIn(ev2, seqs[i])
    <3>1. n \in events /\ n < seqs[i]
      BY DEF Before, seqs
    <3>2. n \in 1..(seqs[i] - 1)
      BY <3>1, <1>4, <1>5
    <3>3. n \in DOMAIN ev2 /\ ev2[n] = EventAt(n)
      BY <3>1, <1>1, <1>3
    <3> QED
      BY <3>2, <3>3 DEF EarlierIn
  <2> QED
    BY <2>1, <2>2
<1>12. ASSUME NEW s \in events'
       PROVE  s \in Nat \ {0} /\ IsEvent(ev2[s]) /\ Founded(ev2[s], EarlierIn(ev2, s))
  <2>1. CASE s \in events
    <3>1. IsEvent(ev[s]) /\ Founded(ev[s], EarlierIn(ev, s))
      BY <2>1, <1>2, <1>3 DEF LogOK
    <3> QED
      BY <2>1, <3>1, <1>3, <1>5, <1>10, FoundedMonotone
  <2>2. CASE s \notin events
    <3>1. PICK i \in DOMAIN seqs : s = seqs[i]
      BY <2>2, <1>6
    <3>2. IsEvent(b[i]) /\ Founded(b[i], {b[j] : j \in 1..(i - 1)} \cup {EventAt(n) : n \in Before(r)})
      BY <1>1 DEF BatchOK
    <3>3. Founded(b[i], EarlierIn(ev2, seqs[i]))
      BY <3>2, <1>11, FoundedMonotone
    <3> QED
      BY <3>1, <3>2, <3>3, <1>3, <1>4
  <2> QED
    BY <2>1, <2>2
<1>13. ASSUME NEW s \in events', NEW n \in events',
              ev2[s].type = "ThreadStarted", ev2[n].type = "ThreadStarted",
              ThreadKey(ev2[s]) = ThreadKey(ev2[n])
       PROVE  s = n
  <2>0. ev2[s].thread = ev2[n].thread
    BY <1>13 DEF ThreadKey
  <2>1. ASSUME NEW k \in events, ev2[k].type = "ThreadStarted"
        PROVE  ev2[k].thread # r
    <3>1. PICK q \in Request : Committed(q) /\ EventAt(k).thread = q
      <4>1. EventAt(k).type = "ThreadStarted"
        BY <2>1, <1>3
      <4>2. PICK q \in Request : \E i \in DOMAIN decision[q].batch :
              /\ Committed(q)
              /\ BatchOK(decision[q].batch, q, {EventAt(m) : m \in Before(q)})
              /\ EventAt(k) = decision[q].batch[i]
        BY LoggedFrom
      <4> QED
        BY <4>1, <4>2 DEF BatchOK
    <3>2. q # r
      BY <3>1, <1>1 DEF Committed
    <3> QED
      BY <3>1, <3>2, <1>3
  <2>2. ASSUME NEW k \in events', k \notin events, ev2[k].type = "ThreadStarted"
        PROVE  ev2[k].thread = r /\ \E i \in DOMAIN seqs : k = seqs[i] /\ b[i].type = "ThreadStarted"
    <3>1. PICK i \in DOMAIN seqs : k = seqs[i]
      BY <2>2, <1>6
    <3>2. ev2[k] = b[i]
      BY <3>1, <1>3
    <3>3. i \in DOMAIN b
      BY <1>1
    <3>4. b[i].type = "ThreadStarted" => b[i].thread = r
      BY <3>3, <1>1 DEF BatchOK
    <3> QED
      BY <2>2, <3>1, <3>2, <3>4
  <2>3. CASE s \in events /\ n \in events
    BY <2>3, <1>2, <1>3, <1>13 DEF LogOK
  <2>4. CASE s \in events /\ n \notin events
    BY <2>4, <2>0, <2>1, <2>2, <1>13
  <2>5. CASE s \notin events /\ n \in events
    BY <2>5, <2>0, <2>1, <2>2, <1>13
  <2>6. CASE s \notin events /\ n \notin events
    <3>1. PICK i \in DOMAIN seqs : s = seqs[i] /\ b[i].type = "ThreadStarted"
      BY <2>6, <2>2, <1>13
    <3>2. PICK j \in DOMAIN seqs : n = seqs[j] /\ b[j].type = "ThreadStarted"
      BY <2>6, <2>2, <1>13
    <3>3. i = j
      BY <3>1, <3>2, <1>1 DEF BatchOK
    <3> QED
      BY <3>1, <3>2, <3>3
  <2> QED
    BY <2>3, <2>4, <2>5, <2>6
<1>14. LogOK(ev2)
  BY <1>3, <1>12, <1>13 DEF LogOK
<1>15. ASSUME NEW q \in Request
       PROVE  DecisionOK(q)'
  <2> DEFINE A == {EventAt(s) : s \in Before(q)}
             B == {EventAt(s)' : s \in Before(q)'}
             c == decision[q].batch
  <2>1. req'[q].seqs = req[q].seqs
    BY <1>1 DEF seqs
  <2>2. Before(q) \subseteq Before(q)' /\ Before(q) \subseteq events
    BY <2>1, <1>1 DEF Before
  <2>3. A \subseteq B
    BY <2>2, <1>1
  <2> SUFFICES ASSUME decision[q].status = "append"
               PROVE  BatchOK(c, q, B)
    BY <1>1 DEF DecisionOK, OutcomeOK
  <2>4. BatchOK(c, q, A)
    BY <1>2 DEF DecisionOK, OutcomeOK
  <2> HIDE DEF A, B, c
  <2>5. ASSUME NEW i \in DOMAIN c
        PROVE  Founded(c[i], {c[j] : j \in 1..(i - 1)} \cup B)
    <3>1. Founded(c[i], {c[j] : j \in 1..(i - 1)} \cup A)
      BY <2>4 DEF BatchOK
    <3>2. {c[j] : j \in 1..(i - 1)} \cup A \subseteq {c[j] : j \in 1..(i - 1)} \cup B
      BY <2>3
    <3> QED
      BY <3>1, <3>2, FoundedMonotone
  <2> QED
    BY <2>4, <2>5 DEF BatchOK
<1>16. ASSUME NEW q \in Request
       PROVE  AppendOK(q)'
  <2>0. AppendOK(q)
    BY <1>2
  <2>1. CASE q = r
    <3>1. AppendOK(r)
      BY <1>2
    <3> QED
      BY <2>1, <3>1, <1>1 DEF AppendOK, seqs, b
  <2>2. CASE q # r
    <3>1. req'[q] = req[q]
      BY <2>2, <1>1
    <3>2. Committed(q) => RowsOf(req[q].seqs) \subseteq events
      BY DEF EngineInv, IndInv, BatchAllOrNothing
    <3>3. ASSUME Committed(q), NEW i \in DOMAIN req[q].seqs, NEW s, s = req[q].seqs[i]
          PROVE  EventAt(s)' = decision[q].batch[i]
      <4>1. s \in events
        BY <3>2, <3>3 DEF RowsOf
      <4>2. EventAt(s) = decision[q].batch[i]
        BY <2>0, <3>3 DEF AppendOK
      <4> QED
        BY <4>1, <4>2, <1>1
    <3>4. Committed(q)' => Committed(q)
      BY <3>1 DEF Committed
    <3> QED
      BY <2>0, <3>1, <3>3, <3>4, <1>1 DEF AppendOK, Committed
  <2> QED
    BY <2>1, <2>2
<1>17. LoggedBy'
  <2> SUFFICES ASSUME NEW s \in events'
               PROVE  \E q \in Request : Committed(q)' /\ s \in RowsOf(req'[q].seqs)
    BY DEF LoggedBy
  <2>1. CASE s \in events
    <3>1. PICK q \in Request : Committed(q) /\ s \in RowsOf(req[q].seqs)
      BY <2>1, <1>2 DEF LoggedBy
    <3>2. q # r
      BY <3>1, <1>1 DEF Committed
    <3>3. req'[q] = req[q]
      BY <3>2, <1>1
    <3> QED
      BY <3>1, <3>3 DEF Committed
  <2>2. CASE s \notin events
    <3>1. PICK i \in DOMAIN seqs : s = seqs[i]
      BY <2>2, <1>6
    <3>2. s \in RowsOf(req'[r].seqs)
      BY <3>1, <1>1 DEF RowsOf
    <3> QED
      BY <3>2, <1>1
  <2> QED
    BY <2>1, <2>2
<1> QED
  BY <1>1, <1>8, <1>9, <1>14, <1>15, <1>16, <1>17 DEF ApiInv, ev2

-----------------------------------------------------------------------------
(***************************************************************************)
(* The invariant holds, and what follows from it for any set of relays.    *)
(***************************************************************************)

\* Every step of a request and of a relay preserves the invariant.
LEMMA NextEngineInv ==
  ASSUME EngineInv, [EngineNext]_allVars
  PROVE  EngineInv'
<1>1. IndInv' /\ DecisionInv'
  BY EngineStep, NextIndInv DEF EngineInv
<1>2. CASE UNCHANGED allVars
  <2>1. /\ UNCHANGED <<decision, log, req, events>>
        /\ UNCHANGED <<tables, applied, checkpoint>>
    BY <1>2 DEF allVars, vars, engineVars
  <2>2. ApiInv'
    BY <2>1, ApiUnchanged DEF EngineInv
  <2>3. ProjectionOK(Ev, tables, applied, checkpoint)'
    BY <2>1 DEF EngineInv, Ev, EventAt
  <2> QED
    BY <1>1, <2>2, <2>3 DEF EngineInv
<1>3. ASSUME NEW r \in Request, NEW cmd \in Command[r], HandlerStep(r, cmd)
      PROVE  EngineInv'
  BY <1>1, <1>3, HandlerKeeps DEF EngineInv
<1>4. ASSUME NEW r \in Request, AppendStep(r)
      PROVE  EngineInv'
  BY <1>1, <1>4, AppendStepKeeps DEF EngineInv
<1>5. ASSUME NEW r \in Request, AppendCommit(r)
      PROVE  EngineInv'
  BY <1>1, <1>5, CommitKeeps DEF EngineInv
<1>6. ASSUME NEW rl \in Relay, DrainStep(rl) \/ ProjectionReject(rl)
      PROVE  EngineInv'
  BY <1>1, <1>6, RelayKeeps DEF EngineInv
<1>7. ASSUME NEW rl \in Relay, ProjectionApply(rl)
      PROVE  EngineInv'
  BY <1>1, <1>7, ApplyKeeps DEF EngineInv
<1> QED
  BY <1>2, <1>3, <1>4, <1>5, <1>6, <1>7 DEF EngineNext

\* The engine's inductive invariant: the log is causally complete, and the
\* projection is what the log and the history of applied runs make it.
THEOREM EngineInvariance == EngineSpec => []EngineInv
<1>1. EngineInit => EngineInv
  BY InitEngineInv
<1>2. EngineInv /\ [EngineNext]_allVars => EngineInv'
  BY NextEngineInv
<1> QED
  BY <1>1, <1>2, PTL DEF EngineSpec

\* The log has every event up to the checkpoint.
LEMMA LoggedUpToCheckpoint ==
  ASSUME EngineInv
  PROVE  /\ checkpoint \in Nat
         /\ 1..checkpoint \subseteq DOMAIN log
         /\ \A s \in DOMAIN log : Ev[s] = EventAt(s)
         /\ \A s \in 1..checkpoint : Ev[s] = EventAt(s)
BY DEF EngineInv, ApiInv, IndInv, TypeOK, TablesAgree, Ev

\* Even with overlapping drains the projection holds the threads and the
\* messages of exactly the events up to the checkpoint.
THEOREM ProjectionMatchesLog == EngineSpec => []RowsMatchLog
<1>1. EngineInv => RowsMatchLog
  <2> SUFFICES ASSUME EngineInv
               PROVE  RowsMatchLog
    OBVIOUS
  <2>1. RowsOK(Ev, tables, checkpoint)
    BY DEF EngineInv, ProjectionOK
  <2>2. \A type : {s \in 1..checkpoint : Ev[s].type = type} =
                  {s \in 1..checkpoint : EventAt(s).type = type}
    BY LoggedUpToCheckpoint
  <2>3. {ThreadKey(Ev[s]) : s \in {m \in 1..checkpoint : Ev[m].type = "ThreadStarted"}} =
          {ThreadKey(EventAt(s)) : s \in {m \in 1..checkpoint : EventAt(m).type = "ThreadStarted"}}
    BY <2>2, LoggedUpToCheckpoint
  <2>4. {MessageRow([sequence |-> s, event |-> Ev[s]])
           : s \in {m \in 1..checkpoint : Ev[m].type = "MessagePosted"}} =
          {MessageRow([sequence |-> s, event |-> EventAt(s)])
             : s \in {m \in 1..checkpoint : EventAt(m).type = "MessagePosted"}}
    BY <2>2, LoggedUpToCheckpoint
  <2> QED
    BY <2>1, <2>3, <2>4, Zenon DEF RowsOK, RowsMatchLog
<1> QED
  BY <1>1, EngineInvariance, PTL

\* Nobody posts to a thread without having been a member of it at an earlier
\* point of the log, however stale the projection was that the reply was
\* authorised on.
THEOREM OnlyMembersPost == EngineSpec => []AuthorsWereMembers
<1>1. EngineInv => AuthorsWereMembers
  <2> SUFFICES ASSUME EngineInv, NEW s \in DOMAIN log, EventAt(s).type = "MessagePosted"
               PROVE  \E n \in 1..(s - 1) :
                        EventAt(s).author \in MembersByLog(EventAt(s).conversation, EventAt(s).thread, n)
    BY DEF AuthorsWereMembers
  <2>1. LogOK(Ev) /\ RowsAreEvents
    BY DEF EngineInv, ApiInv
  <2>2. PICK n \in DOMAIN log : n <= s - 1 /\ EventAt(s).author \in Joined(EventAt(n), ThreadKey(EventAt(s)))
    BY <2>1, EventsAreFounded
  <2>3. n \in Nat \ {0} /\ s \in Nat
    BY <2>1, EventsAreFounded
  <2>4. n \in 1..(s - 1)
    BY <2>2, <2>3
  <2>5. EventAt(s).author \in MembersByLog(EventAt(s).conversation, EventAt(s).thread, n)
    BY <2>1, <2>2, JoinedByLog, Zenon DEF ThreadKey
  <2> QED
    BY <2>4, <2>5
<1> QED
  BY <1>1, EngineInvariance, PTL

\* The events of a write whose number the checkpoint has reached.
LEMMA ProjectedRows ==
  ASSUME EngineInv, NEW q \in Request, Projected(q), NEW i \in DOMAIN decision[q].batch
  PROVE  /\ i \in DOMAIN req[q].seqs
         /\ req[q].seqs[i] \in 1..checkpoint
         /\ req[q].seqs[i] \in DOMAIN log
         /\ EventAt(req[q].seqs[i]) = decision[q].batch[i]
<1> DEFINE seqs == req[q].seqs
           b    == decision[q].batch
<1>1. Committed(q) /\ checkpoint >= seqs[Len(seqs)]
  BY DEF Projected, Committed, ReturnedSequence
<1>2. AppendOK(q) /\ DecisionOK(q) /\ DOMAIN log = events
  BY DEF EngineInv, ApiInv
<1>3. decision[q].status = "append" /\ req[q].size = Len(b)
  BY <1>1, <1>2 DEF AppendOK
<1>4. IsBatch(b)
  BY <1>2, <1>3 DEF DecisionOK, OutcomeOK, BatchOK
<1>5. /\ seqs \in Seq(Nat) /\ checkpoint \in Nat
      /\ RowsOf(seqs) \subseteq 1..(nextSeq - 1)
      /\ \A j, k \in DOMAIN seqs : j <= k => seqs[j] <= seqs[k]
  BY DEF EngineInv, IndInv, TypeOK, Drawn, NumbersAreUnique
<1>6. Len(seqs) = req[q].size /\ RowsOf(seqs) \subseteq events
  BY <1>1 DEF EngineInv, IndInv, BatchAllOrNothing
<1>7. EventAt(seqs[i]) = b[i] \/ i \notin DOMAIN seqs
  BY <1>1, <1>2 DEF AppendOK
<1> HIDE DEF seqs, b
<1>8. i \in DOMAIN seqs /\ Len(seqs) \in DOMAIN seqs /\ i <= Len(seqs)
  BY <1>3, <1>4, <1>5, <1>6 DEF IsBatch, b
<1>9. seqs[i] \in RowsOf(seqs) /\ seqs[i] \in Nat \ {0} /\ seqs[i] <= seqs[Len(seqs)]
      /\ seqs[Len(seqs)] \in Nat
  <2>1. seqs[i] \in RowsOf(seqs)
    BY <1>8 DEF RowsOf
  <2>2. seqs[i] \in Nat \ {0}
    BY <2>1, <1>5
  <2> QED
    BY <2>1, <2>2, <1>5, <1>8
<1>10. seqs[i] \in 1..checkpoint
  BY <1>1, <1>5, <1>9
<1>11. seqs[i] \in DOMAIN log
  BY <1>2, <1>6, <1>9
<1> QED
  BY <1>7, <1>8, <1>10, <1>11 DEF seqs, b

\* Once the checkpoint has reached the number of a write, everybody finds the
\* threads that it started, in the projection and in the log.
LEMMA StartedIsFound ==
  ASSUME EngineInv, NEW q \in Request, Projected(q),
         NEW i \in DOMAIN decision[q].batch, NEW e, e = decision[q].batch[i], e.type = "ThreadStarted"
  PROVE  /\ ThreadKey(e) \in DOMAIN tables.threads
         /\ e.thread \in DOMAIN Conv(e.conversation, nextSeq - 1).threads
<1> DEFINE s == req[q].seqs[i]
<1>1. s \in 1..checkpoint /\ s \in DOMAIN log /\ EventAt(s) = e
  BY ProjectedRows
<1>2. /\ LogOK(Ev) /\ RowsAreEvents /\ DOMAIN log = events
      /\ RowsOK(Ev, tables, checkpoint)
  BY DEF EngineInv, ApiInv, ProjectionOK
<1>3. nextSeq - 1 \in Nat /\ events \subseteq 1..(nextSeq - 1)
  BY DEF EngineInv, IndInv, TypeOK, Drawn
<1> HIDE DEF s
<1>4. Ev[s] = e
  BY <1>1, LoggedUpToCheckpoint
<1>5. ThreadKey(e) \in DOMAIN tables.threads
  BY <1>1, <1>2, <1>4 DEF RowsOK
<1>6. s <= nextSeq - 1
  BY <1>1, <1>2, <1>3
<1>7. StartedUpTo(e.conversation, e.thread, nextSeq - 1)
  BY <1>1, <1>6 DEF StartedUpTo, ThreadKey
<1>8. AggregateAt(e.conversation, nextSeq - 1)
  BY <1>2, <1>3, AggregateIsThatOfLog
<1>9. e.thread \in DOMAIN Conv(e.conversation, nextSeq - 1).threads
  BY <1>7, <1>8 DEF AggregateAt
<1> QED
  BY <1>5, <1>9

\* A membership change is not refused with 404 for a thread of the log.
LEMMA ManageFinds ==
  ASSUME NEW cmd, cmd.thread \in DOMAIN Conv(cmd.conversation, nextSeq - 1).threads
  PROVE  ManageThreadParticipant(cmd, ListByConversation(cmd.conversation)).status # "404"
<1> DEFINE records == ListByConversation(cmd.conversation)
           conv    == RehydrateConversation(records)
           added   == ToAppend(<<ParticipantAdded(conv.id, cmd.thread, cmd.participant)>>)
           removed == ToAppend(<<ParticipantRemoved(conv.id, cmd.thread, cmd.participant)>>)
<1>1. cmd.thread \in DOMAIN conv.threads
  BY DEF Conv, ListByConversation
<1>2. records # <<>>
  <2> SUFFICES ASSUME records = <<>>
               PROVE  FALSE
    OBVIOUS
  <2>1. conv = Agg!Fold([id |-> "", threads |-> <<>>], <<>>)
    BY DEF RehydrateConversation, Agg!Fold, FoldLeft, Agg!FoldLeft, MapThenFoldSet,
           Agg!MapThenFoldSet, Max, Agg!Max
  <2> DEFINE nobody == [id |-> "", threads |-> <<>>]
  <2>2. nobody.threads = <<>> /\ DOMAIN <<>> = {}
    OBVIOUS
  <2> HIDE DEF nobody, conv
  <2>3. conv = nobody
    BY <2>1, Agg!FoldEmpty DEF nobody
  <2>4. DOMAIN conv.threads = {}
    BY <2>2, <2>3
  <2> QED
    BY <1>1, <2>4
<1>3. added.status = "append" /\ removed.status = "append" /\ Answer("400").status = "400"
      /\ Answer("204").status = "204"
  BY DEF ToAppend, Answer
<1> HIDE DEF records, conv, added, removed
<1>4. AddParticipant(conv, cmd) \in {Answer("204"), added}
  BY <1>1 DEF AddParticipant, added
<1>5. RemoveParticipant(conv, cmd) \in {Answer("204"), removed}
  BY <1>1 DEF RemoveParticipant, removed
<1>6. ManageThreadParticipant(cmd, records) \in
        {Answer("400"), AddParticipant(conv, cmd), RemoveParticipant(conv, cmd)}
  BY <1>2 DEF ManageThreadParticipant, conv
<1> QED
  BY <1>3, <1>4, <1>5, <1>6 DEF records

\* A handler that answers 404 has not found what the command is about.
LEMMA NotFoundIsUnprojected ==
  ASSUME EngineInv, NEW r \in Request, NEW cmd \in Command[r], HandlerStep(r, cmd),
         decision'[r].status = "404", NEW q \in Request, Projected(q), Starts(q, cmd)
  PROVE  FALSE
<1>1. PICK i \in DOMAIN decision[q].batch :
        /\ decision[q].batch[i].type = "ThreadStarted"
        /\ decision[q].batch[i].conversation = cmd.conversation
        /\ cmd.kind # "addThread" => decision[q].batch[i].thread = cmd.thread
  BY DEF Starts
<1> DEFINE e == decision[q].batch[i]
<1>2. /\ <<cmd.conversation, e.thread>> \in DOMAIN tables.threads
      /\ e.thread \in DOMAIN Conv(cmd.conversation, nextSeq - 1).threads
  <2>1. /\ ThreadKey(e) \in DOMAIN tables.threads
        /\ e.thread \in DOMAIN Conv(e.conversation, nextSeq - 1).threads
    BY <1>1, StartedIsFound
  <2> QED
    BY <1>1, <2>1 DEF ThreadKey
<1>3. cmd.kind # "addThread" => e.thread = cmd.thread
  BY <1>1
<1> HIDE DEF e
<1>4. \A outcome : Decide(r, outcome) => outcome.status = "404"
  BY DEF Decide, EngineInv, DecisionInv
<1>5. /\ Answer("400").status # "404" /\ Answer("500").status # "404"
      /\ Answer("403").status # "404"
      /\ \A batch : ToAppend(batch).status # "404"
  BY DEF Answer, ToAppend
<1>6. CASE HandleStart(r, cmd)
  <2>1. StartConversation(cmd, r).status # "404"
    BY <1>5 DEF StartConversation
  <2> QED
    BY <1>4, <1>6, <2>1 DEF HandleStart
<1>7. CASE HandleAddThread(r, cmd)
  <2>1. Exists(tables, cmd.conversation)
    BY <1>2 DEF Exists
  <2>2. AddThread(cmd, r, Exists(tables, cmd.conversation)).status # "404"
    BY <1>5, <2>1 DEF AddThread
  <2> QED
    BY <1>4, <1>7, <2>2 DEF HandleAddThread
<1>8. CASE HandleReply(r, cmd)
  <2> DEFINE threads == ThreadsOf(tables, cmd.conversation)
  <2>1. e.thread = cmd.thread
    BY <1>3, <1>8 DEF HandleReply
  <2>2. <<cmd.conversation, cmd.thread>>[1] = cmd.conversation
        /\ <<cmd.conversation, cmd.thread>>[2] = cmd.thread
    OBVIOUS
  <2>3. cmd.thread \in DOMAIN threads
    BY <1>2, <2>1, <2>2 DEF ThreadsOf
  <2> HIDE DEF threads
  <2>4. AuthorizeReply(threads, cmd) \in {"403", "ok"}
    BY <2>3 DEF AuthorizeReply
  <2>5. ReplyToThread(cmd, threads).status # "404"
    BY <1>5, <2>4 DEF ReplyToThread
  <2> QED
    BY <1>4, <1>8, <2>5 DEF HandleReply, threads
<1>9. CASE HandleAddParticipant(r, cmd) \/ HandleRemoveParticipant(r, cmd)
  <2>1. e.thread = cmd.thread
    BY <1>3, <1>9 DEF HandleAddParticipant, HandleRemoveParticipant
  <2>2. ManageThreadParticipant(cmd, ListByConversation(cmd.conversation)).status # "404"
    BY <1>2, <2>1, ManageFinds
  <2> QED
    BY <1>4, <1>9, <2>2 DEF HandleAddParticipant, HandleRemoveParticipant, Manage
<1>10. CASE ReadFails(r, cmd)
  BY <1>4, <1>5, <1>10 DEF ReadFails
<1> QED
  BY <1>6, <1>7, <1>8, <1>9, <1>10 DEF HandlerStep

\* A client that has followed the Location of the thread or conversation it
\* created until it stopped getting 202 is never told 404 for it afterwards,
\* by any handler and with any number of relays.
THEOREM FoundOnceProjected == EngineSpec => NotFoundOnlyBeforeProjected
<1> DEFINE A == \A r \in Request : \A cmd \in Command[r] :
                  HandlerStep(r, cmd) /\ decision'[r].status = "404"
                    => ~ \E q \in Request : Projected(q) /\ Starts(q, cmd)
<1>1. EngineInv => A
  BY NotFoundIsUnprojected
<1>2. EngineInv /\ [EngineNext]_allVars => [A]_allVars
  BY <1>1
<1> HIDE DEF A
<1>3. EngineSpec => [][A]_allVars
  BY <1>2, EngineInvariance, PTL DEF EngineSpec
<1> QED
  BY <1>3 DEF A, NotFoundOnlyBeforeProjected

-----------------------------------------------------------------------------
(***************************************************************************)
(* With one relay.                                                         *)
(***************************************************************************)

\* The delivery invariant of the write path holds in the engine.
LEMMA EngineDelivers ==
  ASSUME OneRelay
  PROVE  EngineSpec => []DeliveryInv
<1>1. Init => DeliveryInv
  BY InitDeliveryInv
<1>2. DeliveryInv /\ [Next]_vars => DeliveryInv'
  BY NextDeliveryInv
<1>3. Spec => []DeliveryInv
  BY <1>1, <1>2, PTL DEF Spec
<1> QED
  BY <1>3, EngineImplementsWritePath, PTL DEF ImplementsWritePath

\* With one relay no run is ever refused by the keys of the projection
\* tables, for any commands and any failures: the relay is never held up by
\* an event that cannot be applied.
THEOREM RunsApply ==
  ASSUME OneRelay
  PROVE  EngineSpec => []RunsAreApplicable
<1>1. EngineInv /\ DeliveryInv => RunsAreApplicable
  <2> SUFFICES ASSUME EngineInv, DeliveryInv, NEW rl \in Relay, relay[rl].pc = "apply"
               PROVE  ApplyRunTo(rl).ok
    BY DEF RunsAreApplicable
  <2>1. relay[rl].next = checkpoint + 1
    BY DEF DeliveryInv
  <2>2. LogOK(Ev) /\ ProjectionOK(Ev, tables, applied, checkpoint)
    BY DEF EngineInv, ApiInv
  <2>3. /\ relay[rl].next \in Nat /\ relay[rl].last \in Nat /\ checkpoint \in Nat
        /\ 1 <= relay[rl].next /\ relay[rl].next <= relay[rl].last
        /\ relay[rl].next <= checkpoint + 1
        /\ 1..checkpoint \subseteq DOMAIN Ev
        /\ relay[rl].next..relay[rl].last \subseteq DOMAIN Ev
        /\ ApplyRunTo(rl) = ApplyEntries(tables, EntriesOf(Ev, relay[rl].next, relay[rl].last))
    BY RunIsLogged
  <2> DEFINE from == relay[rl].next
             to   == relay[rl].last
             ev   == Ev
  <2> HIDE DEF from, to, ev
  <2>4. ApplyEntries(tables, EntriesOf(ev, from, to)).ok
    BY <2>1, <2>2, <2>3, RunKeeps DEF from, to, ev
  <2> QED
    BY <2>3, <2>4 DEF from, to, ev
<1> QED
  BY <1>1, EngineInvariance, EngineDelivers, PTL

\* The members of a projected thread, by what was applied to it in order.
LEMMA MembersInOrder ==
  ASSUME EngineInv, ExactlyOnceInOrder, NEW key \in DOMAIN tables.threads, NEW p
  PROVE  p \in MembersByTables(key) <=>
           \E s \in 1..checkpoint : /\ p \in Joined(EventAt(s), key)
                                    /\ \A n \in (s + 1)..checkpoint : p \notin Left(EventAt(n), key)
<1> DEFINE c == checkpoint
           q == Interval(1, c)
<1>1. c \in Nat /\ \A s \in 1..c : Ev[s] = EventAt(s)
  BY LoggedUpToCheckpoint
<1>2. MembersOK(Ev, tables, q)
  BY DEF EngineInv, ProjectionOK, ExactlyOnceInOrder
<1>3. MembersByTables(key) = MembersAfter(Ev, q, key)
  BY <1>2 DEF MembersOK, MembersByTables, ParticipantsRow
<1>4. p \in MembersAfter(Ev, q, key) <=>
        \E i \in 1..Len(q) : /\ p \in Joined(Ev[q[i]], key)
                             /\ \A j \in (i + 1)..Len(q) : p \notin Left(Ev[q[j]], key)
  BY MembersAfterIn
<1>5. Len(q) = c /\ \A i \in 1..c : q[i] = i
  <2>1. Len(q) = c
    BY <1>1, IntervalIsSeq
  <2>2. \A i \in 1..c : q[i] = i
    BY <1>1 DEF Interval
  <2> QED
    BY <2>1, <2>2
<1>6. \A i \in 1..c : \A j \in (i + 1)..c : j \in 1..c
  BY <1>1
<1> HIDE DEF c, q
<1>7. \A i \in 1..c : Ev[q[i]] = EventAt(i)
  BY <1>1, <1>5
<1> QED
  BY <1>3, <1>4, <1>5, <1>6, <1>7 DEF c

\* A client that was answered 202 and polls until the checkpoint reaches its
\* number finds the effect of every event of its write, or sees that a later
\* write has undone it.
THEOREM WritesAreRead ==
  ASSUME OneRelay
  PROVE  EngineSpec => []ReadYourWrites
<1>1. EngineInv /\ DeliveryInv => ReadYourWrites
  <2> SUFFICES ASSUME EngineInv, DeliveryInv, NEW r \in Request, Projected(r),
                      NEW i \in DOMAIN req[r].seqs
               PROVE  Visible(req[r].seqs[i], decision[r].batch[i])
    BY DEF ReadYourWrites
  <2> DEFINE s == req[r].seqs[i]
             e == decision[r].batch[i]
  <2>0. BatchOK(decision[r].batch, r, {EventAt(n) : n \in Before(r)})
    BY DEF EngineInv, ApiInv, AppendOK, DecisionOK, OutcomeOK, Projected, Committed
  <2>1. i \in DOMAIN decision[r].batch
    <3>1. Committed(r) /\ AppendOK(r) /\ DecisionOK(r) /\ req[r].seqs \in Seq(Nat)
      BY DEF Projected, Committed, EngineInv, ApiInv, IndInv, TypeOK
    <3>2. Len(req[r].seqs) = Len(decision[r].batch) /\ decision[r].status = "append"
      BY <3>1 DEF AppendOK, EngineInv, IndInv, BatchAllOrNothing
    <3>3. IsBatch(decision[r].batch)
      BY <2>0 DEF BatchOK
    <3> QED
      BY <3>1, <3>2, <3>3 DEF IsBatch
  <2>2. s \in 1..checkpoint /\ s \in DOMAIN log /\ EventAt(s) = e
    BY <2>1, ProjectedRows
  <2>3. /\ LogOK(Ev) /\ RowsOK(Ev, tables, checkpoint) /\ ExactlyOnceInOrder
        /\ checkpoint \in Nat /\ 1..checkpoint \subseteq DOMAIN log
        /\ \A n \in DOMAIN log : Ev[n] = EventAt(n)
        /\ DOMAIN Ev = DOMAIN log
    BY LoggedUpToCheckpoint DEF EngineInv, ApiInv, ProjectionOK, DeliveryInv, Ev
  <2> HIDE DEF s, e
  <2> SUFFICES Visible(s, e)
    BY DEF s, e
  <2>4. IsEvent(e) /\ Ev[s] = e /\ s \in Nat \ {0}
    BY <2>2, <2>3, EventsAreFounded
  <2>5. e.type = "ThreadStarted" => ThreadKey(e) \in DOMAIN tables.threads
    BY <2>2, <2>3, <2>4 DEF RowsOK
  <2>6. ASSUME e.type \in {"MessagePosted", "ParticipantAdded", "ParticipantRemoved"}
        PROVE  \E n \in 1..checkpoint : /\ n < s
                                        /\ EventAt(n).type = "ThreadStarted"
                                        /\ ThreadKey(EventAt(n)) = ThreadKey(e)
    <3>1. PICK n \in DOMAIN log : /\ n <= s - 1 /\ EventAt(n).type = "ThreadStarted"
                                  /\ ThreadKey(EventAt(n)) = <<e.conversation, e.thread>>
      BY <2>2, <2>3, <2>6, EventsAreFounded DEF StartedUpTo
    <3>2. n \in Nat \ {0}
      BY <2>3, EventsAreFounded
    <3>3. n \in 1..checkpoint /\ n < s
      BY <2>2, <2>3, <2>4, <3>1, <3>2
    <3> QED
      BY <3>1, <3>3 DEF ThreadKey
  <2>7. e.type \in {"MessagePosted", "ParticipantAdded", "ParticipantRemoved"}
          => ThreadKey(e) \in DOMAIN tables.threads
    BY <2>3, <2>6 DEF RowsOK
  <2>8. CASE e.type = "ConversationCreated"
    <3>1. PICK j \in DOMAIN decision[r].batch :
            /\ decision[r].batch[j].type = "ThreadStarted"
            /\ decision[r].batch[j].conversation = e.conversation
      BY <2>0, <2>1, <2>8 DEF BatchOK, e
    <3> DEFINE f == decision[r].batch[j]
    <3>2. ThreadKey(f) \in DOMAIN tables.threads
      BY <3>1, StartedIsFound
    <3>3. ThreadKey(f)[1] = e.conversation
      BY <3>1 DEF ThreadKey
    <3>4. Exists(tables, e.conversation)
      BY <3>2, <3>3 DEF Exists
    <3> QED
      BY <2>8, <3>4 DEF Visible
  <2>9. CASE e.type = "ThreadStarted"
    BY <2>5, <2>9 DEF Visible
  <2>10. CASE e.type = "MessagePosted"
    <3>1. MessageRow([sequence |-> s, event |-> e]) \in tables.messages
      BY <2>2, <2>3, <2>4, <2>10 DEF RowsOK
    <3> QED
      BY <2>10, <3>1 DEF Visible
  <2> DEFINE key == ThreadKey(e)
             p   == e.participant
  <2>11. CASE e.type = "ParticipantAdded"
    <3>1. key \in DOMAIN tables.threads /\ p \in Joined(EventAt(s), key)
      BY <2>2, <2>7, <2>11 DEF Joined
    <3>2. ASSUME NEW n \in (s + 1)..checkpoint, p \in Left(EventAt(n), key)
          PROVE  ChangedLater(s, e, "ParticipantRemoved")
      BY <3>2 DEF ChangedLater, Left
    <3>3. p \in MembersByTables(key) \/ ChangedLater(s, e, "ParticipantRemoved")
      BY <2>2, <2>3, <3>1, <3>2, MembersInOrder
    <3> QED
      BY <2>11, <3>3 DEF Visible
  <2>12. CASE e.type = "ParticipantRemoved"
    <3>1. key \in DOMAIN tables.threads /\ p \in Left(EventAt(s), key)
      BY <2>2, <2>7, <2>12 DEF Left
    <3>2. ASSUME p \in MembersByTables(key)
          PROVE  ChangedLater(s, e, "ParticipantAdded")
      <4>1. PICK m \in 1..checkpoint :
              /\ p \in Joined(EventAt(m), key)
              /\ \A n \in (m + 1)..checkpoint : p \notin Left(EventAt(n), key)
        BY <2>3, <3>1, <3>2, MembersInOrder
      <4>2. m # s
        BY <2>2, <2>12, <4>1 DEF Joined
      <4>3. m \in (s + 1)..checkpoint
        BY <2>2, <2>3, <3>1, <4>1, <4>2
      <4>4. EventAt(m).type # "ThreadStarted" \/ ThreadKey(EventAt(m)) # key
        <5>1. PICK n \in 1..checkpoint : /\ n < s /\ EventAt(n).type = "ThreadStarted"
                                         /\ ThreadKey(EventAt(n)) = key
          BY <2>6, <2>12
        <5>2. n # m /\ n \in DOMAIN log /\ m \in DOMAIN log
          BY <2>3, <2>4, <4>3, <5>1
        <5> QED
          BY <2>3, <5>1, <5>2 DEF LogOK
      <4>5. EventAt(m).type = "ParticipantAdded" /\ ThreadKey(EventAt(m)) = key
            /\ EventAt(m).participant = p
        BY <4>1, <4>4 DEF Joined
      <4> QED
        BY <4>3, <4>5 DEF ChangedLater
    <3> QED
      BY <2>12, <3>2 DEF Visible
  <2> QED
    BY <2>4, <2>8, <2>9, <2>10, <2>11, <2>12 DEF IsEvent
<1> QED
  BY <1>1, EngineInvariance, EngineDelivers, PTL

-----------------------------------------------------------------------------
(***************************************************************************)
(* Who is in a thread, by the aggregate and by the projection.             *)
(***************************************************************************)

\* The aggregate lists nobody twice, and lists those who have joined and not
\* left since, by the events numbered up to n.
ListedByLog(c, t, n) ==
  LET list == MembersOf(Conv(c, n), t) IN
  /\ IsList(list)
  /\ IsInjective(list)
  /\ Range(list) = MembersAfter(Ev, Interval(1, n), <<c, t>>)

\* Before the first event nobody is in any thread.
LEMMA ListedAtFirst ==
  ASSUME NEW c, NEW t
  PROVE  ListedByLog(c, t, 0)
<1> DEFINE nobody == [id |-> "", threads |-> <<>>]
<1>1. DOMAIN nobody.threads = {}
  <2>1. nobody.threads = <<>> /\ DOMAIN <<>> = {}
    OBVIOUS
  <2> QED
    BY <2>1
<1>2. Conv(c, 0) = nobody
  BY RehydrateStep
<1> HIDE DEF nobody
<1>3. MembersOf(Conv(c, 0), t) = <<>>
  BY <1>1, <1>2 DEF MembersOf
<1>4. IsList(<<>>) /\ IsInjective(<<>>) /\ Range(<<>>) = {}
  BY DEF IsList, IsInjective, Range
<1>5. Len(Interval(1, 0)) = 0
  BY IntervalIsSeq
<1>6. 1..0 = {}
  OBVIOUS
<1>7. MembersAfter(Ev, Interval(1, 0), <<c, t>>) = {}
  BY <1>5, <1>6 DEF MembersAfter
<1> QED
  BY <1>3, <1>4, <1>7 DEF ListedByLog

\* One more event, which is not a redundant add.
LEMMA ListedStep ==
  ASSUME LogOK(Ev), RowsAreEvents, NEW c, NEW t, NEW n \in Nat, n + 1 \in DOMAIN log,
         ListedByLog(c, t, n), ~ RedundantAdd(n + 1)
  PROVE  ListedByLog(c, t, n + 1)
<1> DEFINE e    == EventAt(n + 1)
           key  == <<c, t>>
           conv == Conv(c, n)
           list == MembersOf(conv, t)
           new  == MembersOf(Conv(c, n + 1), t)
           was  == MembersAfter(Ev, Interval(1, n), key)
           is   == MembersAfter(Ev, Interval(1, n + 1), key)
<1>1. Ev[n + 1] = e /\ IsEvent(e)
  BY EventsAreFounded DEF Ev
<1>2. IsList(list) /\ IsInjective(list) /\ Range(list) = was
  BY DEF ListedByLog
<1>3. is = (was \ Left(e, key)) \cup Joined(e, key)
  <2>1. Interval(1, n + 1) = Append(Interval(1, n), n + 1) /\ Interval(1, n) \in Seq(Nat)
    <3>1. 1 \in Nat \ {0} /\ 1 <= n + 1
      OBVIOUS
    <3>2. Interval(1, n + 1) = Append(Interval(1, n), n + 1)
      BY <3>1, IntervalGrows
    <3>3. Interval(1, n) \in Seq(Nat)
      BY <3>1, IntervalIsSeq
    <3> QED
      BY <3>2, <3>3
  <2>2. Left(e, key) \cap Joined(e, key) = {}
    BY DEF Left, Joined
  <2> DEFINE ev == Ev
             q  == Interval(1, n)
             s  == n + 1
  <2> HIDE DEF e, key, ev, q, s
  <2>3. ev[s] = e /\ q \in Seq(Nat) /\ s \in Nat
    BY <1>1, <2>1 DEF ev, q, s
  <2>4. MembersAfter(ev, Append(q, s), key) =
          (MembersAfter(ev, q, key) \ Left(ev[s], key)) \cup Joined(ev[s], key)
    BY <2>2, <2>3, MembersAfterAppend
  <2> QED
    BY <1>1, <2>1, <2>4 DEF ev, q, s
<1>4. AggregateAt(c, n) /\ AggregateAt(c, n + 1)
  BY AggregateIsThatOfLog
<1>5. IsOf(n + 1, c) <=> e.conversation = c
  BY ConversationOfRow
<1>6. Conv(c, n + 1) = IF IsOf(n + 1, c) THEN ApplyToAggregate(conv, e) ELSE conv
  BY RehydrateStep
<1>7. ~ (e.type = "ParticipantAdded" /\ ThreadKey(e) = key /\ e.participant \in Range(list))
  <2>1. n + 1 - 1 = n
    OBVIOUS
  <2>2. ThreadKey(e) = key => e.conversation = c /\ e.thread = t
    BY DEF ThreadKey
  <2> QED
    BY <2>1, <2>2 DEF RedundantAdd, MembersByLog, Conv
<1> HIDE DEF e, list, new, was, is
<1> SUFFICES IsList(new) /\ IsInjective(new) /\ Range(new) = is
  BY DEF ListedByLog, new, is, key
<1>8. CASE e.conversation # c
  <2>1. new = list
    BY <1>5, <1>6, <1>8 DEF new, list
  <2>2. Left(e, key) = {} /\ Joined(e, key) = {}
    BY <1>8 DEF Left, Joined, ThreadKey
  <2> QED
    BY <1>2, <1>3, <2>1, <2>2
<1>9. CASE e.conversation = c
  <2>1. /\ DOMAIN Conv(c, n + 1).threads = DOMAIN conv.threads \cup
             (IF e.type \in {"ThreadStarted", "ParticipantAdded"} THEN {e.thread} ELSE {})
        /\ t \in DOMAIN Conv(c, n + 1).threads => new = Reapplied(list, e, t)
    BY <1>1, <1>4, <1>5, <1>6, <1>9, ApplyToAggregateEffect DEF AggregateAt, new, list
  <2>2. ThreadKey(e) = key <=> e.thread = t
    BY <1>9 DEF ThreadKey
  <2>3. CASE t \notin DOMAIN Conv(c, n + 1).threads
    <3>1. new = <<>> /\ list = <<>>
      BY <2>1, <2>3 DEF new, list, MembersOf
    <3>2. Range(<<>>) = {}
      BY DEF Range
    <3>3. Joined(e, key) = {}
      BY <2>1, <2>2, <2>3 DEF Joined
    <3> QED
      BY <1>2, <1>3, <3>1, <3>2, <3>3
  <2>4. CASE t \in DOMAIN Conv(c, n + 1).threads /\ e.type = "ThreadStarted" /\ e.thread = t
    <3>1. new = Participants(e) /\ IsList(new) /\ IsInjective(new)
      BY <1>1, <2>1, <2>4 DEF Reapplied, IsEvent
    <3>2. Joined(e, key) = Range(new) /\ Left(e, key) = {}
      BY <2>2, <2>4, <3>1 DEF Joined, Left
    <3>3. t \notin DOMAIN conv.threads
      <4>1. \A s \in DOMAIN log : Ev[s] = EventAt(s) /\ s \in Nat
        BY EventsAreFounded DEF Ev
      <4>2. DOMAIN Ev = DOMAIN log
        BY DEF Ev
      <4>3. ASSUME NEW s \in DOMAIN log, s <= n, EventAt(s).type = "ThreadStarted",
                   ThreadKey(EventAt(s)) = key
            PROVE  FALSE
        <5>1. s = n + 1
          BY <1>1, <2>2, <2>4, <4>1, <4>2, <4>3 DEF LogOK
        <5> QED
          BY <4>3, <5>1
      <4> QED
        BY <1>4, <4>3 DEF AggregateAt, StartedUpTo
    <3>4. Range(list) = {}
      <4>1. list = <<>>
        BY <3>3 DEF list, MembersOf
      <4> QED
        BY <4>1 DEF Range
    <3> QED
      BY <1>2, <1>3, <3>1, <3>2, <3>4
  <2>5. CASE t \in DOMAIN Conv(c, n + 1).threads /\ e.type = "ParticipantAdded" /\ e.thread = t
    <3>1. new = Append(list, e.participant)
      BY <2>1, <2>5 DEF Reapplied
    <3>2. Joined(e, key) = {e.participant} /\ Left(e, key) = {}
      BY <2>2, <2>5 DEF Joined, Left
    <3>3. e.participant \notin Range(list)
      BY <1>7, <2>2, <2>5
    <3>4. IsList(new) /\ Range(new) = Range(list) \cup {e.participant}
      BY <1>2, <3>1, AppendFacts
    <3>5. IsInjective(new)
      BY <1>2, <3>1, <3>3, AppendKeepsInjective
    <3> QED
      BY <1>2, <1>3, <3>2, <3>4, <3>5
  <2>6. CASE t \in DOMAIN Conv(c, n + 1).threads /\ e.type = "ParticipantRemoved" /\ e.thread = t
    <3>1. new = RemoveFirst(list, e.participant)
      BY <2>1, <2>6 DEF Reapplied
    <3>2. Joined(e, key) = {} /\ Left(e, key) = {e.participant}
      BY <2>2, <2>6 DEF Joined, Left
    <3>3. IsList(new) /\ IsInjective(new) /\ Range(new) = Range(list) \ {e.participant}
      BY <1>2, <3>1, RemoveFirstFacts
    <3> QED
      BY <1>2, <1>3, <3>2, <3>3
  <2>7. CASE /\ t \in DOMAIN Conv(c, n + 1).threads
             /\ ~ (e.type \in {"ThreadStarted", "ParticipantAdded", "ParticipantRemoved"} /\ e.thread = t)
    <3>1. new = list
      BY <2>1, <2>7 DEF Reapplied
    <3>2. Joined(e, key) = {} /\ Left(e, key) = {}
      BY <2>2, <2>7 DEF Joined, Left
    <3> QED
      BY <1>2, <1>3, <3>1, <3>2
  <2> QED
    BY <2>3, <2>4, <2>5, <2>6, <2>7
<1> QED
  BY <1>8, <1>9

\* Without redundant adds the aggregate has the members that the log says.
LEMMA ListedUpTo ==
  ASSUME LogOK(Ev), RowsAreEvents, NEW c, NEW t, NEW n \in Nat, 1..n \subseteq DOMAIN log,
         \A s \in 1..n : ~ RedundantAdd(s)
  PROVE  ListedByLog(c, t, n)
<1> DEFINE S == {k \in Nat : k <= n => ListedByLog(c, t, k)}
<1>1. 0 \in S
  BY ListedAtFirst
<1>2. ASSUME NEW k \in Nat, k \in S
      PROVE  k + 1 \in S
  <2> SUFFICES ASSUME k + 1 <= n
               PROVE  ListedByLog(c, t, k + 1)
    OBVIOUS
  <2>1. k + 1 \in 1..n /\ ListedByLog(c, t, k)
    BY <1>2
  <2>2. k + 1 \in DOMAIN log /\ ~ RedundantAdd(k + 1)
    BY <2>1
  <2> QED
    BY <2>1, <2>2, ListedStep
<1> HIDE DEF S
<1>3. n \in S
  BY <1>1, <1>2, Induction
<1> QED
  BY <1>3 DEF S

\* A thread of the projection, its members by what was applied to it, and
\* its members by the log.
LEMMA MembersCompared ==
  ASSUME EngineInv, \A s \in 1..checkpoint : ~ RedundantAdd(s), NEW key \in DOMAIN tables.threads
  PROVE  /\ MembersByTables(key) = MembersAfter(Ev, applied, key)
         /\ MembersByLog(key[1], key[2], checkpoint) = MembersAfter(Ev, Interval(1, checkpoint), key)
<1>1. /\ LogOK(Ev) /\ RowsAreEvents
      /\ RowsOK(Ev, tables, checkpoint)
      /\ MembersOK(Ev, tables, applied)
  BY DEF EngineInv, ApiInv, ProjectionOK
<1>2. checkpoint \in Nat /\ 1..checkpoint \subseteq DOMAIN log
  BY LoggedUpToCheckpoint
<1>3. PICK s \in 1..checkpoint : key = ThreadKey(Ev[s])
  BY <1>1 DEF RowsOK
<1>4. key = <<key[1], key[2]>>
  BY <1>3 DEF ThreadKey
<1>5. ListedByLog(key[1], key[2], checkpoint)
  BY <1>1, <1>2, ListedUpTo
<1>6. MembersByLog(key[1], key[2], checkpoint) = MembersAfter(Ev, Interval(1, checkpoint), key)
  BY <1>4, <1>5 DEF ListedByLog, MembersByLog, Conv
<1>7. MembersByTables(key) = MembersAfter(Ev, applied, key)
  BY <1>1 DEF MembersOK, MembersByTables, ParticipantsRow
<1> QED
  BY <1>6, <1>7

\* With one relay the aggregate that membership changes are decided on and
\* the projection that everybody reads agree on who is in a thread, unless two
\* concurrent adds of the same participant both got into the log.
THEOREM MembershipIsConsistent ==
  ASSUME OneRelay
  PROVE  EngineSpec => []MembershipAgreesUnlessRedundant
<1>1. EngineInv /\ DeliveryInv => MembershipAgreesUnlessRedundant
  <2> SUFFICES ASSUME EngineInv, DeliveryInv, \A s \in 1..checkpoint : ~ RedundantAdd(s),
                      NEW key \in DOMAIN tables.threads
               PROVE  MembersByTables(key) = MembersByLog(key[1], key[2], checkpoint)
    BY DEF MembershipAgreesUnlessRedundant, MembershipAgrees
  <2>1. applied = Interval(1, checkpoint)
    BY DEF DeliveryInv, ExactlyOnceInOrder
  <2> QED
    BY <2>1, MembersCompared
<1> QED
  BY <1>1, EngineInvariance, EngineDelivers, PTL

\* Applying runs again does not change who is in a thread if no change of a
\* membership is applied again after a later change of the same membership.
LEMMA OverlapIsHarmless ==
  ASSUME EngineInv, \A s \in 1..checkpoint : ~ ReappliedLate(s), NEW key
  PROVE  MembersAfter(Ev, applied, key) = MembersAfter(Ev, Interval(1, checkpoint), key)
<1> DEFINE c == checkpoint
           q == applied
           run == Interval(1, c)
<1>1. /\ c \in Nat /\ 1..c \subseteq DOMAIN log
      /\ \A s \in 1..c : Ev[s] = EventAt(s) /\ s \in DOMAIN log
      /\ LogOK(Ev) /\ DOMAIN Ev = DOMAIN log
  BY LoggedUpToCheckpoint DEF EngineInv, ApiInv, Ev
<1>2. /\ q \in Seq(Nat)
      /\ \A i \in 1..Len(q) : q[i] \in 1..c
      /\ \A i, j \in 1..Len(q) : i < j /\ Ev[q[j]].type = "ThreadStarted" => q[i] < q[j]
      /\ \A s \in 1..c : \E i \in 1..Len(q) : q[i] = s
  <2>1. HistoryOK(Ev, q, c) /\ 1..c \subseteq RowsOf(q)
    BY DEF EngineInv, ProjectionOK, IndInv, TablesAgree
  <2>2. q \in Seq(Nat) /\ DOMAIN q = 1..Len(q)
    BY <2>1 DEF HistoryOK
  <2> QED
    BY <2>1, <2>2 DEF HistoryOK, RowsOf
<1>3. Len(run) = c /\ \A i \in 1..c : run[i] = i
  <2>1. Len(run) = c
    BY <1>1, IntervalIsSeq
  <2>2. \A i \in 1..c : run[i] = i
    BY <1>1 DEF Interval
  <2> QED
    BY <2>1, <2>2
<1>4. ASSUME NEW i \in 1..Len(q), NEW j \in 1..Len(q), i < j, q[i] > q[j],
             EventAt(q[j]).type \in {"ParticipantAdded", "ParticipantRemoved"},
             EventAt(q[i]).type \in {"ParticipantAdded", "ParticipantRemoved"},
             ThreadKey(EventAt(q[i])) = ThreadKey(EventAt(q[j])),
             EventAt(q[i]).participant = EventAt(q[j]).participant
      PROVE  FALSE
  <2>1. i \in DOMAIN q /\ j \in DOMAIN q
    BY <1>2
  <2>2. ReappliedLate(q[j])
    BY <1>4, <2>1 DEF ReappliedLate
  <2> QED
    BY <1>2, <2>2
<1>5. \A e, p : p \in Joined(e, key) => /\ ThreadKey(e) = key
                                       /\ \/ e.type = "ThreadStarted"
                                          \/ e.type = "ParticipantAdded" /\ e.participant = p
  BY DEF Joined
<1>6. \A e, p : p \in Left(e, key) => /\ ThreadKey(e) = key
                                     /\ e.type = "ParticipantRemoved"
                                     /\ e.participant = p
  BY DEF Left
<1> HIDE DEF c, q, run
<1>7. ASSUME NEW p, p \in MembersAfter(Ev, q, key)
      PROVE  p \in MembersAfter(Ev, run, key)
  <2>1. PICK i \in 1..Len(q) : /\ p \in Joined(Ev[q[i]], key)
                               /\ \A j \in (i + 1)..Len(q) : p \notin Left(Ev[q[j]], key)
    BY <1>7, MembersAfterIn
  <2> DEFINE s == q[i]
  <2>2. s \in 1..c /\ Ev[s] = EventAt(s)
    BY <1>1, <1>2
  <2>3. ASSUME NEW n \in (s + 1)..c, p \in Left(Ev[n], key)
        PROVE  FALSE
    <3>1. n \in 1..c /\ n > s
      BY <1>1, <2>2
    <3>2. PICK k \in 1..Len(q) : q[k] = n
      BY <1>2, <3>1
    <3>3. k \in Nat /\ i \in Nat /\ Len(q) \in Nat
      BY <1>2
    <3>4. k < i
      <4>1. ~ k \in (i + 1)..Len(q)
        BY <2>1, <2>3, <3>2
      <4>2. k # i
        BY <2>2, <3>1, <3>2
      <4> QED
        BY <3>3, <4>1, <4>2
    <3>5. Ev[n] = EventAt(n)
      BY <1>1, <3>1
    <3>6. CASE EventAt(s).type = "ThreadStarted"
      <4>1. n < s
        BY <1>2, <2>2, <3>2, <3>4, <3>6
      <4> QED
        BY <2>2, <3>1, <4>1
    <3>7. CASE EventAt(s).type = "ParticipantAdded"
      <4>1. /\ EventAt(s).participant = p /\ ThreadKey(EventAt(s)) = key
            /\ EventAt(n).participant = p /\ ThreadKey(EventAt(n)) = key
            /\ EventAt(n).type = "ParticipantRemoved"
        BY <1>5, <1>6, <2>1, <2>2, <2>3, <3>5, <3>7
      <4> QED
        BY <1>4, <3>1, <3>2, <3>4, <3>7, <4>1
    <3> QED
      BY <1>5, <2>1, <2>2, <3>6, <3>7
  <2>4. Ev[run[s]] = Ev[s] /\ s \in 1..Len(run)
    BY <1>3, <2>2
  <2>5. \A n \in (s + 1)..Len(run) : run[n] = n
    BY <1>1, <1>3, <2>2
  <2>6. \A n \in (s + 1)..Len(run) : p \notin Left(Ev[run[n]], key)
    BY <1>3, <2>3, <2>5
  <2> QED
    BY <2>1, <2>4, <2>6, MembersAfterIn
<1>8. ASSUME NEW p, p \in MembersAfter(Ev, run, key)
      PROVE  p \in MembersAfter(Ev, q, key)
  <2>1. PICK s \in 1..c : /\ p \in Joined(Ev[s], key)
                          /\ \A n \in (s + 1)..c : p \notin Left(Ev[n], key)
    <3>1. PICK s \in 1..Len(run) : /\ p \in Joined(Ev[run[s]], key)
                                   /\ \A n \in (s + 1)..Len(run) : p \notin Left(Ev[run[n]], key)
      BY <1>8, MembersAfterIn
    <3>2. \A n \in (s + 1)..c : n \in 1..c
      BY <1>1, <1>3
    <3> QED
      BY <1>3, <3>1, <3>2
  <2>2. PICK i \in 1..Len(q) : q[i] = s
    BY <1>2
  <2>3. Ev[s] = EventAt(s) /\ s \in DOMAIN log
    BY <1>1
  <2>4. ASSUME NEW j \in (i + 1)..Len(q), p \in Left(Ev[q[j]], key)
        PROVE  FALSE
    <3> DEFINE m == q[j]
    <3>1. j \in 1..Len(q) /\ i < j
      BY <1>2
    <3>2. m \in 1..c /\ Ev[m] = EventAt(m) /\ m \in DOMAIN log
      BY <1>1, <1>2, <3>1
    <3>3. /\ EventAt(m).participant = p /\ ThreadKey(EventAt(m)) = key
          /\ EventAt(m).type = "ParticipantRemoved"
      BY <1>6, <2>4, <3>2
    <3>4. m < s
      <4>1. m # s
        BY <1>5, <2>1, <2>3, <3>3
      <4>2. ~ m \in (s + 1)..c
        BY <2>1, <2>4
      <4> QED
        BY <1>1, <3>2, <4>1, <4>2
    <3>5. CASE EventAt(s).type = "ThreadStarted"
      <4>1. PICK n \in DOMAIN log : /\ n <= m - 1 /\ EventAt(n).type = "ThreadStarted"
                                    /\ ThreadKey(EventAt(n)) = key
        BY <1>1, <3>2, <3>3, EventsAreFounded DEF StartedUpTo, ThreadKey
      <4>2. n \in Nat
        BY <1>1, EventsAreFounded
      <4>3. Ev[n] = EventAt(n)
        BY DEF Ev
      <4>4. n = s
        BY <1>1, <1>5, <2>1, <2>3, <3>5, <4>1, <4>3 DEF LogOK
      <4> QED
        BY <3>2, <3>4, <4>1, <4>2, <4>4
    <3>6. CASE EventAt(s).type = "ParticipantAdded"
      <4>1. EventAt(s).participant = p /\ ThreadKey(EventAt(s)) = key
        BY <1>5, <2>1, <2>3, <3>6
      <4> QED
        BY <1>4, <2>2, <3>1, <3>2, <3>3, <3>4, <3>6, <4>1
    <3> QED
      BY <1>5, <2>1, <2>3, <3>5, <3>6
  <2> QED
    BY <2>1, <2>2, <2>4, MembersAfterIn
<1> QED
  BY <1>7, <1>8 DEF c, q, run

\* With overlapping drains the aggregate and the projection still agree if no
\* change of a membership is applied again after a later change of the same
\* membership: applying a run twice does no harm otherwise.
THEOREM OverlapKeepsMembership == EngineSpec => []MembershipSurvivesOverlap
<1>1. EngineInv => MembershipSurvivesOverlap
  <2> SUFFICES ASSUME EngineInv,
                      \A s \in 1..checkpoint : ~ RedundantAdd(s) /\ ~ ReappliedLate(s),
                      NEW key \in DOMAIN tables.threads
               PROVE  MembersByTables(key) = MembersByLog(key[1], key[2], checkpoint)
    BY DEF MembershipSurvivesOverlap, MembershipAgrees
  <2> QED
    BY MembersCompared, OverlapIsHarmless
<1> QED
  BY <1>1, EngineInvariance, PTL

=============================================================================
