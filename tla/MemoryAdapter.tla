---------------------------- MODULE MemoryAdapter ----------------------------
(***************************************************************************)
(* The in-memory adapters behind the same ports as Postgres                *)
(* (internal/adapters/memory): EventStore, which is event store and outbox *)
(* in one, and Projection.  The use cases and the relay that drive them    *)
(* are the ones of internal/ports/in.                                      *)
(*                                                                         *)
(* Every method holds its adapter's mutex, so it is one step.  A message   *)
(* is the number of its event; a time is a natural number, greater than    *)
(* the zero time 0.  Go slices are modelled where they are shared: Get     *)
(* hands out the slice of threads that later calls of Apply write to.      *)
(* Reading such a view while Apply runs, which no caller does, is left out.*)
(***************************************************************************)
EXTENDS DrainRun, Domain

CONSTANTS
  Request,  \* the calls of the write use cases, each executed once
  Command,  \* per request: the commands it may carry
  Clock,    \* per request: the times it may read; the clock may jump
  Enqueuer, \* the requests whose caller calls Enqueue as well
  Reader    \* callers of Get that keep the view they were given

ASSUME ClockAssumption == \A r \in Request : Clock[r] \subseteq Nat \ {0}
ASSUME EnqueuerAssumption == Enqueuer \subseteq Request

VARIABLES
  records,     \* EventStore.records: the events, with their times
  pending,     \* EventStore.pending: the numbers of the entries
  projection,  \* the maps of Projection and the arrays behind its slices
  checkpoint,  \* Projection.checkpoint
  decision,    \* per request: what its use case decided
  appended,    \* per request: the first and last number of its events
  drain,       \* the local variables of Drain
  held,        \* per reader: the view it holds, and the threads it had at first
  applied,     \* history: the events applied, in order
  tables       \* history: the Postgres tables after the same calls of Apply

storeVars == <<records, pending, decision, appended>>
viewVars  == <<projection, checkpoint, applied, tables>>
vars      == <<records, pending, projection, checkpoint, decision, appended,
               drain, held, applied, tables>>

\* The projection tables of the Postgres adapter, for comparison.
Postgres == INSTANCE ProjectionTables

-----------------------------------------------------------------------------
(***************************************************************************)
(* Projection.Apply.  A view is an array and a length: NoThreads is the    *)
(* nil slice.                                                              *)
(***************************************************************************)
NoThreads == [array |-> 0, len |-> 0]

NewProjection == [conversations |-> <<>>, arrays |-> <<>>, threadSequences |-> <<>>,
                  latestMessageAt |-> <<>>]

\* What a holder of the view reads in it now.
ThreadsIn(p, view) == IF view.len = 0 THEN <<>> ELSE SubSeq(p.arrays[view.array], 1, view.len)

ViewOf(p, c) == IF c \in DOMAIN p.conversations THEN p.conversations[c] ELSE NoThreads

\* A map's entry, or the zero value.
Entry(map, key, zero) == IF key \in DOMAIN map THEN map[key] ELSE zero

\* Mutant of StableSort: newest thread first.
SortNewestFirst(threads, sequences) ==
  LET order == CHOOSE at \in Bijection(DOMAIN threads, DOMAIN threads) :
                 \A i, j \in DOMAIN threads :
                   i < j => sequences[threads[at[i]].id] > sequences[threads[at[j]].id]
  IN  [i \in DOMAIN threads |-> threads[order[i]]]

\* By sequence; threads with the same one keep their order.
StableSort(threads, sequences) ==
  LET before(i, j) == \/ sequences[threads[i].id] < sequences[threads[j].id]
                      \/ sequences[threads[i].id] = sequences[threads[j].id] /\ i < j
      order == CHOOSE at \in Bijection(DOMAIN threads, DOMAIN threads) :
                 \A i, j \in DOMAIN threads : i < j => before(at[i], at[j])
  IN  [i \in DOMAIN threads |-> threads[order[i]]]

\* Where append puts the threads: into the array of the view, if that has
\* room, or into a new one with twice the room.
Capacity(p, view) == IF view.array = 0 THEN 0 ELSE Len(p.arrays[view.array])

StoreThreads(p, c, view, threads) ==
  LET n == Len(threads)
      larger == [i \in 1..(IF n = 1 THEN 1 ELSE 2 * (n - 1)) |->
                   IF i <= n THEN threads[i] ELSE Nil]
      inPlace == [i \in DOMAIN p.arrays[view.array] |->
                    IF i <= n THEN threads[i] ELSE p.arrays[view.array][i]]
  IN  IF n <= Capacity(p, view)
      THEN [p EXCEPT !.arrays[view.array] = inPlace, !.conversations[c].len = n]
      ELSE [p EXCEPT !.arrays = Append(@, larger),
                     !.conversations[c] = [array |-> Len(p.arrays) + 1, len |-> n]]

\* The view starts afresh; threadSequences keeps what it has.
ApplyConversationCreated(p, e) ==
  [p EXCEPT !.conversations = Put(@, e.conversation, NoThreads)]

ApplyThreadStarted(p, e, seq) ==
  LET view == ViewOf(p, e.conversation)
      sequences == Put(Entry(p.threadSequences, e.conversation, <<>>), e.thread, seq)
      thread == [id |-> e.thread, participants |-> Participants(e), messages |-> <<>>]
  IN  StoreThreads([p EXCEPT !.threadSequences = Put(@, e.conversation, sequences)],
                   e.conversation, view,
                   StableSort(Append(ThreadsIn(p, view), thread), sequences))

\* The place of the thread in its conversation's view: the first with its id.
IndexOf(p, e) ==
  LET threads == ThreadsIn(p, ViewOf(p, e.conversation))
  IN  SelectInSeq(threads, LAMBDA t : t.id = e.thread)

\* event.OccurredAt.After(latest)
LatestAt(latest, at) == IF at > latest THEN at ELSE latest

ApplyMessagePosted(p, e, seq, at) ==
  LET array == ViewOf(p, e.conversation).array IN
  [p EXCEPT !.arrays[array][IndexOf(p, e)].messages = Append(@, seq),
            !.latestMessageAt = Put(@, e.thread, LatestAt(Entry(@, e.thread, 0), at))]

\* Mutant of ChangeParticipant: a removal takes out one copy.
ChangeOneParticipant(p, e) ==
  LET array == ViewOf(p, e.conversation).array IN
  [p EXCEPT !.arrays[array][IndexOf(p, e)].participants =
     IF e.type = "ParticipantAdded" THEN Append(@, e.participant) ELSE RemoveFirst(@, e.participant)]

\* The participants without the one that leaves.
Without(participants, p) == Pick(participants, {i \in DOMAIN participants : participants[i] # p})

\* An add may make a second copy; a removal takes out every copy.
ChangeParticipant(p, e) ==
  LET array == ViewOf(p, e.conversation).array IN
  [p EXCEPT !.arrays[array][IndexOf(p, e)].participants =
     IF e.type = "ParticipantAdded" THEN Append(@, e.participant) ELSE Without(@, e.participant)]

\* No error: the conversation, and but for a new thread the thread, is known.
Applicable(p, e) ==
  CASE e.type = "ConversationCreated" -> TRUE
    [] e.type = "ThreadStarted" -> e.conversation \in DOMAIN p.conversations
    [] OTHER -> IndexOf(p, e) # 0

ApplyEvent(p, e, seq, at) ==
  CASE e.type = "ConversationCreated" -> ApplyConversationCreated(p, e)
    [] e.type = "ThreadStarted" -> ApplyThreadStarted(p, e, seq)
    [] e.type = "MessagePosted" -> ApplyMessagePosted(p, e, seq, at)
    [] OTHER -> ChangeParticipant(p, e)

\* One round of the loop: no entry after an error, what came before it stays.
ApplyNext(done, entry) ==
  IF done.ok /\ Applicable(done.projection, entry.event)
  THEN [ok |-> TRUE,
        projection |-> ApplyEvent(done.projection, entry.event, entry.sequence, entry.at)]
  ELSE [ok |-> FALSE, projection |-> done.projection]

ApplyEntries(p, entries) == FoldLeft(ApplyNext, [ok |-> TRUE, projection |-> p], entries)

-----------------------------------------------------------------------------
(***************************************************************************)
(* Reads.                                                                  *)
(***************************************************************************)
ListByConversation(c) ==
  LET found == Pick(records, {s \in DOMAIN records : records[s].event.conversation = c})
  IN  [i \in DOMAIN found |-> found[i].event]

\* Get, as far as a reply looks at it.
ThreadsById(p, c) ==
  LET threads == ThreadsIn(p, ViewOf(p, c))
  IN  [t \in {threads[i].id : i \in DOMAIN threads} |->
         threads[CHOOSE i \in DOMAIN threads : threads[i].id = t].participants]

Exists(p, c) == ViewOf(p, c).len > 0

\* The threads that the participant is on.
Filtered(threads, participant) ==
  Pick(threads, {i \in DOMAIN threads : Contains(threads[i].participants, participant)})

\* GetByParticipant: the conversations with a thread of the participant, each
\* with those threads and the time that the result is ordered by, latest
\* first.  Equal times may come in any order.
GetByParticipant(p, participant) ==
  LET threadsOf(c) == Filtered(ThreadsIn(p, p.conversations[c]), participant)
      latest(threads) == FoldLeft(LatestAt, 0, [i \in DOMAIN threads |->
                                                  Entry(p.latestMessageAt, threads[i].id, 0)])
  IN  [c \in {c \in DOMAIN p.conversations : threadsOf(c) # <<>>} |->
         [threads |-> threadsOf(c), latestAt |-> latest(threadsOf(c))]]

-----------------------------------------------------------------------------
Idle == [pc |-> "idle", pending |-> {}, next |-> 0, last |-> 0]

Init ==
  /\ records = <<>>
  /\ pending = {}
  /\ projection = NewProjection
  /\ checkpoint = 0
  /\ decision = [r \in Request |-> Answer("new")]
  /\ appended = [r \in Request |-> [first |-> 0, last |-> 0]]
  /\ drain = Idle
  /\ held = [k \in Reader |-> [view |-> NoThreads, seen |-> <<>>]]
  /\ applied = <<>>
  /\ tables = Postgres!EmptyTables

(***************************************************************************)
(* The write use cases, on the in-memory adapters.                         *)
(***************************************************************************)
Outcome(cmd, id) ==
  CASE cmd.kind = "start" -> StartConversation(cmd, id)
    [] cmd.kind = "addThread" -> AddThread(cmd, id, Exists(projection, cmd.conversation))
    [] cmd.kind = "reply" -> ReplyToThread(cmd, ThreadsById(projection, cmd.conversation))
    [] OTHER -> ManageThreadParticipant(cmd, ListByConversation(cmd.conversation))

Decide(r, cmd) ==
  /\ decision[r].status = "new"
  /\ decision' = [decision EXCEPT ![r] = Outcome(cmd, r)]
  /\ UNCHANGED <<records, pending, appended, drain, held>>
  /\ UNCHANGED viewVars

\* EventStore.Append: the whole batch, log and outbox, under one lock.
AppendBatch(r, now) ==
  /\ decision[r].status = "append"
  /\ appended[r].last = 0
  /\ LET batch == decision[r].batch
         from  == Len(records) + 1
         to    == Len(records) + Len(batch)
     IN  /\ records' = records \o [i \in DOMAIN batch |-> [event |-> batch[i], at |-> now]]
         /\ pending' = pending \cup from..to
         /\ appended' = [appended EXCEPT ![r] = [first |-> from, last |-> to]]
  /\ UNCHANGED <<decision, drain, held>>
  /\ UNCHANGED viewVars

\* EventStore.Enqueue of an event that Append has enqueued before.
Enqueue(r, s) ==
  /\ appended[r].last # 0
  /\ s \in appended[r].first..appended[r].last
  /\ pending' = pending \cup {s}
  /\ UNCHANGED <<records, decision, appended, drain, held>>
  /\ UNCHANGED viewVars

(***************************************************************************)
(* Drain, called by one caller at a time.                                  *)
(***************************************************************************)
ReadPending ==
  /\ drain.pc = "idle"
  /\ drain' = [pc |-> "pending", pending |-> pending, next |-> 0, last |-> 0]
  /\ UNCHANGED storeVars
  /\ UNCHANGED viewVars
  /\ UNCHANGED held

\* Mutant of ReadCheckpoint: the run starts with the first pending entry,
\* wherever the checkpoint is.
ReadFirstPending ==
  /\ drain.pc = "pending"
  /\ drain' = IF drain.pending = {}
              THEN Idle
              ELSE LET first == CHOOSE s \in drain.pending : \A t \in drain.pending : s <= t
                       last  == CHOOSE n \in drain.pending :
                                  first..n \subseteq drain.pending /\ n + 1 \notin drain.pending
                   IN  [pc |-> "apply", pending |-> {}, next |-> first, last |-> last]
  /\ UNCHANGED storeVars
  /\ UNCHANGED viewVars
  /\ UNCHANGED held

ReadCheckpoint ==
  /\ drain.pc = "pending"
  /\ \E last \in {checkpoint} \cup drain.pending :
       /\ IsRun(drain.pending, checkpoint + 1, last)
       /\ drain' = IF last = checkpoint
                   THEN Idle
                   ELSE [pc |-> "apply", pending |-> {}, next |-> checkpoint + 1, last |-> last]
  /\ UNCHANGED storeVars
  /\ UNCHANGED viewVars
  /\ UNCHANGED held

\* The entries that Drain hands to Apply.
Entries(run) ==
  [i \in DOMAIN run |-> [sequence |-> run[i], event |-> records[run[i]].event,
                         at |-> records[run[i]].at]]

\* Projection.Apply; an error ends the drain and leaves the checkpoint.
Apply ==
  LET run    == Interval(drain.next, drain.last)
      result == ApplyEntries(projection, Entries(run))
  IN
  /\ drain.pc = "apply"
  /\ projection' = result.projection
  /\ IF result.ok
     THEN /\ checkpoint' = drain.last
          /\ applied' = applied \o run
          /\ drain' = [drain EXCEPT !.pc = "mark"]
     ELSE /\ drain' = Idle
          /\ UNCHANGED <<checkpoint, applied>>
  /\ tables' = Postgres!ApplyEntries(tables, Entries(run)).tables
  /\ UNCHANGED storeVars
  /\ UNCHANGED held

MarkDone ==
  /\ drain.pc = "mark"
  /\ pending' = pending \ {drain.next}
  /\ drain' = IF drain.next = drain.last THEN Idle ELSE [drain EXCEPT !.next = @ + 1]
  /\ UNCHANGED <<records, decision, appended, held>>
  /\ UNCHANGED viewVars

(***************************************************************************)
(* Get, by a caller that keeps the view.                                   *)
(***************************************************************************)
Get(k, c) ==
  /\ Exists(projection, c)
  /\ held' = [held EXCEPT ![k] = [view |-> ViewOf(projection, c),
                                  seen |-> ThreadsIn(projection, ViewOf(projection, c))]]
  /\ UNCHANGED storeVars
  /\ UNCHANGED viewVars
  /\ UNCHANGED drain

-----------------------------------------------------------------------------
Next ==
  \/ \E r \in Request : \/ \E cmd \in Command[r] : Decide(r, cmd)
                        \/ \E now \in Clock[r] : AppendBatch(r, now)
  \/ \E r \in Enqueuer, s \in DOMAIN records : Enqueue(r, s)
  \/ ReadPending \/ ReadCheckpoint \/ Apply \/ MarkDone
  \/ \E k \in Reader, c \in DOMAIN projection.conversations : Get(k, c)

Spec == Init /\ [][Next]_vars
-----------------------------------------------------------------------------
(***************************************************************************)
(* Properties.                                                             *)
(***************************************************************************)

\* The in-memory adapters implement the abstract feed too: every event is
\* handed to the projection once, in order and without a hole, also if an
\* Enqueue comes when the entry has been drained already and puts it back.
Feed == INSTANCE OrderedDelivery WITH published <- 1..Len(records), delivered <- applied
ImplementsOrderedDelivery == Feed!FeedSpec

\* No run that a drain collects has an entry that Apply refuses: an error
\* would leave the entries before it applied, with nothing to roll them
\* back, and every later drain would apply them again.
NoRunFailsHalfWay ==
  drain.pc = "apply" => ApplyEntries(projection, Entries(Interval(drain.next, drain.last))).ok

\* What the doc comment of out.Projection promises, and Postgres does not
\* keep: the checkpoint never comes to lie inside a batch, so a reader finds
\* either all of a write or nothing of it.
BatchesAreWhole ==
  \A r \in Request : appended[r].first <= checkpoint => appended[r].last <= checkpoint

\* ORDER BY sequence: the numbers in ascending order.
BySequence(numbers) == Pick(Interval(1, Len(records)), numbers)

\* The threads of a conversation as the Postgres adapter returns them, both
\* threads and messages in the order of their numbers.
PostgresThreads(c) ==
  LET rows == {key \in DOMAIN tables.threads : key[1] = c}
      order == BySequence({tables.threads[key].sequence : key \in rows})
      row(s) == CHOOSE key \in rows : tables.threads[key].sequence = s
      messagesOf(key) == {m.sequence : m \in {n \in tables.messages :
                                                <<n.conversation, n.thread>> = key}}
  IN  [i \in DOMAIN order |-> [id |-> row(order[i])[2],
                               participants |-> tables.threads[row(order[i])].participants,
                               messages |-> BySequence(messagesOf(row(order[i])))]]

\* ListConversationIDsByParticipant and the queries for each of them.
PostgresByParticipant(participant) ==
  LET threadsOf(c) == Filtered(PostgresThreads(c), participant)
      times(c) == UNION {{records[s].at : s \in Range(t.messages)} : t \in Range(threadsOf(c))}
  IN  [c \in {c \in tables.conversations : threadsOf(c) # <<>>} |->
         [threads |-> threadsOf(c), latestAt |-> Max(times(c))]]

\* Who is on a thread.
Involved == UNION {Range(tables.threads[key].participants) : key \in DOMAIN tables.threads}

\* The fake and the real adapter answer alike: the same threads, participants
\* and messages in the same order, and the same conversations of a
\* participant with the same time to sort them by, although one keeps them
\* sorted as they come and the other sorts when it reads.
AgreesWithPostgres ==
  /\ DOMAIN projection.conversations = tables.conversations
  /\ \A c \in tables.conversations :
       ThreadsIn(projection, ViewOf(projection, c)) = PostgresThreads(c)
  /\ \A participant \in Involved :
       GetByParticipant(projection, participant) = PostgresByParticipant(participant)

\* A view shares its threads with the projection, so it changes in the hands
\* of its holder.  It only ever changes forward: the same threads in the same
\* places, each with the messages it had and possibly newer ones.
HeldViewsExtend ==
  \A k \in Reader :
    LET threads == ThreadsIn(projection, held[k].view)
        seen    == held[k].seen
    IN  /\ Len(threads) = Len(seen)
        /\ \A i \in DOMAIN seen : /\ threads[i].id = seen[i].id
                                  /\ IsPrefix(seen[i].messages, threads[i].messages)
==============================================================================
