------------------------- MODULE MemoryAdapterProofs -------------------------
(***************************************************************************)
(* The in-memory adapters, for any requests, clocks and readers and with   *)
(* entries put back by Enqueue at any time:                                *)
(*   - they keep batches whole and implement the abstract feed, whatever   *)
(*     Apply makes of an event (MemoryInv);                                *)
(*   - Apply refuses no entry, a view in the hands of a reader only grows, *)
(*     and the projection answers as the Postgres tables do (ReadModelInv).*)
(* The second part says what the projection and the tables are as a        *)
(* function of the log: first the operators, then one event on each side,  *)
(* then a run, the use cases that write the log, the actions, and last     *)
(* what the invariant means for the answers.                               *)
(***************************************************************************)
EXTENDS MemoryAdapter, OperatorProofs

\* No batch has entries on both sides of n.
Whole(n) == \A r \in Request : appended[r].first <= n => appended[r].last <= n

\* Log, outbox and what the projection was handed: all that is behind the
\* checkpoint was applied once and in order, all that is before it is pending.
LogOK ==
  /\ \E S : records \in Seq(S)
  /\ checkpoint \in 0..Len(records)
  /\ applied = Interval(1, checkpoint)
  /\ pending \subseteq 1..Len(records)
  /\ (checkpoint + 1)..Len(records) \subseteq pending

\* Decisions fit a batch; batches end within the log.
RequestsOK ==
  /\ DOMAIN decision = Request
  /\ \A r \in Request : Fits(decision[r])
  /\ appended \in [Request -> [first : Nat, last : Nat]]
  /\ \A r \in Request : appended[r].last <= Len(records)
  /\ Whole(checkpoint)

\* What Drain read as pending ends where the log ended then, which is not
\* within a batch; a run it holds starts at the checkpoint and ends there.
DrainOK ==
  /\ drain \in [pc : {"idle", "pending", "apply", "mark"},
                pending : SUBSET Nat, next : Nat, last : Nat]
  /\ drain.pc = "pending" =>
       \E n \in checkpoint..Len(records) :
         /\ Whole(n)
         /\ drain.pending \subseteq 1..n
         /\ (checkpoint + 1)..n \subseteq drain.pending
  /\ drain.pc = "apply" =>
       /\ drain.next = checkpoint + 1
       /\ drain.last \in (checkpoint + 1)..Len(records)
       /\ Whole(drain.last)
  /\ drain.pc = "mark" =>
       /\ drain.last \in 1..checkpoint
       /\ drain.next \in 1..drain.last

MemoryInv == LogOK /\ RequestsOK /\ DrainOK

-----------------------------------------------------------------------------
\* An array that grows by a batch.
LEMMA ExtendRecords ==
  ASSUME NEW S, NEW s \in Seq(S), NEW n \in Nat, NEW t, DOMAIN t = 1..n,
         t = [i \in 1..n |-> t[i]]
  PROVE  /\ \E T : s \o t \in Seq(T)
         /\ Len(s \o t) = Len(s) + n
<1> DEFINE T == S \cup {t[i] : i \in 1..n}
<1>1. s \in Seq(T)
  OBVIOUS
<1>2. t \in Seq(T) /\ Len(t) = n
  OBVIOUS
<1> HIDE DEF T
<1>3. s \o t \in Seq(T) /\ Len(s \o t) = Len(s) + Len(t)
  BY <1>1, <1>2
<1> QED
  BY <1>2, <1>3

\* The empty adapters satisfy the invariant.
LEMMA MemoryInit == Init => MemoryInv
<1> SUFFICES ASSUME Init PROVE MemoryInv
  OBVIOUS
<1>1. records = <<>> /\ Len(records) = 0 /\ records \in Seq({})
  BY DEF Init
<1>2. applied = Interval(1, 0)
  <2>1. Interval(1, 0) \in Seq(Nat) /\ Len(Interval(1, 0)) = 0
    BY IntervalIsSeq
  <2> QED
    BY <2>1 DEF Init
<1>3. LogOK
  BY <1>1, <1>2 DEF Init, LogOK
<1>4. RequestsOK
  BY <1>1, AnswerFits DEF Init, RequestsOK, Whole
<1>5. DrainOK
  BY DEF Init, DrainOK, Idle
<1> QED
  BY <1>3, <1>4, <1>5 DEF MemoryInv

\* A use case decides and changes nothing else.
LEMMA DecideKeeps ==
  ASSUME MemoryInv, NEW r \in Request, NEW cmd \in Command[r], Decide(r, cmd)
  PROVE  MemoryInv'
<1>1. Fits(Outcome(cmd, r))
  <2>1. Exists(projection, cmd.conversation) \in BOOLEAN
    BY DEF Exists
  <2>2. Outcome(cmd, r) \in {StartConversation(cmd, r),
                             AddThread(cmd, r, Exists(projection, cmd.conversation)),
                             ReplyToThread(cmd, ThreadsById(projection, cmd.conversation)),
                             ManageThreadParticipant(cmd, ListByConversation(cmd.conversation))}
    BY DEF Outcome
  <2>3. Fits(AddThread(cmd, r, Exists(projection, cmd.conversation)))
    BY <2>1, AddThreadFits
  <2>4. Fits(StartConversation(cmd, r))
    BY StartFits
  <2>5. Fits(ReplyToThread(cmd, ThreadsById(projection, cmd.conversation)))
    BY ReplyFits
  <2>6. Fits(ManageThreadParticipant(cmd, ListByConversation(cmd.conversation)))
    BY ParticipantFits
  <2> QED
    BY <2>2, <2>3, <2>4, <2>5, <2>6
<1>2. /\ decision' = [decision EXCEPT ![r] = Outcome(cmd, r)]
      /\ UNCHANGED <<records, pending, appended, drain>>
      /\ UNCHANGED viewVars
  BY DEF Decide
<1>3. LogOK' /\ DrainOK'
  BY <1>2 DEF MemoryInv, LogOK, DrainOK, Whole, viewVars
<1>4. RequestsOK'
  BY <1>1, <1>2 DEF MemoryInv, RequestsOK, Whole, viewVars
<1> QED
  BY <1>3, <1>4 DEF MemoryInv

\* A batch goes behind everything there is, so it lies behind whatever a drain
\* has read.
LEMMA AppendKeeps ==
  ASSUME MemoryInv, NEW r \in Request, NEW now, AppendBatch(r, now)
  PROVE  MemoryInv'
<1> DEFINE batch == decision[r].batch
           new   == [i \in DOMAIN batch |-> [event |-> batch[i], at |-> now]]
           from  == Len(records) + 1
           to    == Len(records) + Len(batch)
<1>1. /\ records' = records \o new
      /\ pending' = pending \cup from..to
      /\ appended' = [appended EXCEPT ![r] = [first |-> from, last |-> to]]
      /\ UNCHANGED <<decision, drain>>
      /\ UNCHANGED <<checkpoint, applied>>
  BY DEF AppendBatch, viewVars
<1>2. Len(batch) \in 1..3 /\ DOMAIN batch = 1..Len(batch)
  BY DEF MemoryInv, RequestsOK, Fits, IsBatch, AppendBatch
<1>3. PICK S : records \in Seq(S)
  BY DEF MemoryInv, LogOK
<1>4. Len(records) \in Nat /\ checkpoint \in Nat /\ checkpoint <= Len(records)
  BY <1>3 DEF MemoryInv, LogOK
<1>5. (\E T : records' \in Seq(T)) /\ Len(records') = to
  <2>1. DOMAIN new = 1..Len(batch) /\ new = [i \in 1..Len(batch) |-> new[i]]
    BY <1>2
  <2>2. Len(batch) \in Nat
    BY <1>2
  <2> HIDE DEF new, batch
  <2> QED
    BY <1>1, <1>3, <2>1, <2>2, ExtendRecords
<1> HIDE DEF new, batch
<1>6. to \in Nat /\ from \in Nat /\ Len(records) < from /\ from <= to
  BY <1>2, <1>4
<1>7. LogOK'
  <2>1. pending' \subseteq 1..to
    <3>1. pending \subseteq 1..Len(records)
      BY DEF MemoryInv, LogOK
    <3>2. 1..Len(records) \subseteq 1..to /\ from..to \subseteq 1..to
      BY <1>4, <1>6
    <3> QED
      BY <3>1, <3>2, <1>1
  <2>2. (checkpoint + 1)..to \subseteq pending'
    BY <1>1, <1>4, <1>6 DEF MemoryInv, LogOK
  <2>3. checkpoint \in 0..to /\ applied = Interval(1, checkpoint)
    BY <1>4, <1>6 DEF MemoryInv, LogOK
  <2> QED
    BY <1>1, <1>5, <2>1, <2>2, <2>3 DEF LogOK
<1>8. ASSUME NEW n \in Nat, n <= Len(records), Whole(n)
      PROVE  Whole(n)'
  BY <1>1, <1>4, <1>6, <1>8 DEF Whole, MemoryInv, RequestsOK
<1>9. RequestsOK'
  <2>1. appended' \in [Request -> [first : Nat, last : Nat]]
    BY <1>1, <1>6 DEF MemoryInv, RequestsOK
  <2>2. \A q \in Request : appended'[q].last <= Len(records')
    BY <1>1, <1>4, <1>5, <1>6 DEF MemoryInv, RequestsOK
  <2>3. Whole(checkpoint)'
    BY <1>1, <1>4, <1>8 DEF MemoryInv, RequestsOK, Whole
  <2> QED
    BY <1>1, <2>1, <2>2, <2>3 DEF MemoryInv, RequestsOK
<1>10. DrainOK'
  <2>1. CASE drain.pc = "pending"
    <3>1. PICK n \in checkpoint..Len(records) :
            /\ Whole(n)
            /\ drain.pending \subseteq 1..n
            /\ (checkpoint + 1)..n \subseteq drain.pending
      BY <2>1 DEF MemoryInv, DrainOK
    <3>2. n \in checkpoint..to /\ n \in Nat /\ n <= Len(records)
      BY <3>1, <1>4, <1>6
    <3>3. Whole(n)'
      BY <3>1, <3>2, <1>8
    <3> QED
      BY <2>1, <3>1, <3>2, <3>3, <1>1, <1>5 DEF MemoryInv, DrainOK
  <2>2. CASE drain.pc = "apply"
    <3>1. /\ drain.next = checkpoint + 1
          /\ drain.last \in (checkpoint + 1)..Len(records)
          /\ Whole(drain.last)
      BY <2>2 DEF MemoryInv, DrainOK
    <3>2. drain.last \in Nat /\ drain.last <= Len(records) /\ drain.last \in (checkpoint + 1)..to
      BY <3>1, <1>4, <1>6
    <3>3. PICK m \in Nat : m = drain.last
      BY <3>2
    <3>4. Whole(m)'
      BY <3>1, <3>2, <3>3, <1>8
    <3>5. Whole(drain.last)'
      BY <3>3, <3>4, <1>1 DEF Whole
    <3> QED
      BY <2>2, <3>1, <3>2, <3>5, <1>1, <1>5 DEF MemoryInv, DrainOK
  <2>3. CASE drain.pc \notin {"pending", "apply"}
    BY <2>3, <1>1 DEF MemoryInv, DrainOK
  <2> QED
    BY <2>1, <2>2, <2>3
<1> QED
  BY <1>7, <1>9, <1>10 DEF MemoryInv

\* Putting an entry back, however late, leaves it an entry of the log.
LEMMA EnqueueKeeps ==
  ASSUME MemoryInv, NEW r \in Enqueuer, NEW s \in DOMAIN records, Enqueue(r, s)
  PROVE  MemoryInv'
<1>1. /\ pending' = pending \cup {s}
      /\ UNCHANGED <<records, decision, appended, drain, checkpoint, applied>>
  BY DEF Enqueue, viewVars
<1>2. s \in 1..Len(records)
  <2>1. PICK S : records \in Seq(S)
    BY DEF MemoryInv, LogOK
  <2> QED
    BY <2>1
<1>3. LogOK'
  BY <1>1, <1>2 DEF MemoryInv, LogOK
<1> QED
  BY <1>1, <1>3 DEF MemoryInv, RequestsOK, DrainOK, Whole

\* Pending is read when the log ends with a whole batch.
LEMMA ReadPendingKeeps ==
  ASSUME MemoryInv, ReadPending
  PROVE  MemoryInv'
<1>1. /\ drain' = [pc |-> "pending", pending |-> pending, next |-> 0, last |-> 0]
      /\ UNCHANGED <<records, pending, decision, appended, checkpoint, applied>>
  BY DEF ReadPending, storeVars, viewVars
<1>2. PICK S : records \in Seq(S)
  BY DEF MemoryInv, LogOK
<1>3. /\ Len(records) \in checkpoint..Len(records)
      /\ Whole(Len(records))
  BY <1>2 DEF MemoryInv, LogOK, RequestsOK, Whole
<1>4. DrainOK'
  BY <1>1, <1>3 DEF MemoryInv, LogOK, DrainOK, Whole
<1> QED
  BY <1>1, <1>4 DEF MemoryInv, LogOK, RequestsOK, Whole

\* The run ends where Pending ended, so within no batch.
LEMMA ReadCheckpointKeeps ==
  ASSUME MemoryInv, ReadCheckpoint
  PROVE  MemoryInv'
<1>1. UNCHANGED <<records, pending, decision, appended, checkpoint, applied>>
  BY DEF ReadCheckpoint, storeVars, viewVars
<1>2. PICK S : records \in Seq(S)
  BY DEF MemoryInv, LogOK
<1>3. checkpoint \in Nat /\ Len(records) \in Nat
  BY <1>2 DEF MemoryInv, LogOK
<1>4. PICK n \in checkpoint..Len(records) :
        /\ Whole(n)
        /\ drain.pending \subseteq 1..n
        /\ (checkpoint + 1)..n \subseteq drain.pending
  BY DEF MemoryInv, DrainOK, ReadCheckpoint
<1>5. PICK last \in {checkpoint} \cup drain.pending :
        /\ IsRun(drain.pending, checkpoint + 1, last)
        /\ drain' = IF last = checkpoint
                    THEN Idle
                    ELSE [pc |-> "apply", pending |-> {}, next |-> checkpoint + 1, last |-> last]
  BY DEF ReadCheckpoint
<1>6. DrainOK'
  <2>1. CASE last = checkpoint
    BY <2>1, <1>5 DEF DrainOK, Idle
  <2>2. CASE last # checkpoint
    <3>1. n \in Nat /\ checkpoint <= n /\ drain.pending \in SUBSET Nat
      BY <1>3, <1>4
    <3>2. last = n
      <4> DEFINE P == drain.pending
      <4>1. /\ P \in SUBSET Nat /\ checkpoint \in Nat /\ n \in Nat /\ checkpoint <= n
            /\ (checkpoint + 1)..n \subseteq P /\ P \subseteq 1..n
        BY <3>1, <1>3, <1>4
      <4>2. /\ last \in {checkpoint} \cup P
            /\ IsRun(P, checkpoint + 1, last)
            /\ last # checkpoint
        BY <1>5, <2>2
      <4> HIDE DEF P
      <4> QED
        BY <4>1, <4>2, RunIsMaximal
    <3>3. n \in (checkpoint + 1)..Len(records)
      BY <2>2, <3>1, <3>2, <1>3, <1>4
    <3>4. drain' = [pc |-> "apply", pending |-> {}, next |-> checkpoint + 1, last |-> n]
      BY <2>2, <3>2, <1>5
    <3> QED
      BY <3>1, <3>3, <3>4, <1>1, <1>3, <1>4 DEF DrainOK, Whole
  <2> QED
    BY <2>1, <2>2
<1> QED
  BY <1>1, <1>6 DEF MemoryInv, LogOK, RequestsOK, Whole

\* Apply moves the checkpoint to the end of the run, or nowhere.
LEMMA ApplyKeeps ==
  ASSUME MemoryInv, Apply
  PROVE  MemoryInv'
<1>1. /\ drain.pc = "apply"
      /\ UNCHANGED <<records, pending, decision, appended>>
  BY DEF Apply, storeVars
<1>2. /\ drain.next = checkpoint + 1
      /\ drain.last \in (checkpoint + 1)..Len(records)
      /\ Whole(drain.last)
  BY <1>1 DEF MemoryInv, DrainOK
<1>3. PICK S : records \in Seq(S)
  BY DEF MemoryInv, LogOK
<1>4. checkpoint \in Nat /\ Len(records) \in Nat /\ drain.last \in Nat /\ checkpoint <= drain.last
  BY <1>2, <1>3 DEF MemoryInv, LogOK
<1>5. CASE /\ checkpoint' = drain.last
           /\ applied' = applied \o Interval(drain.next, drain.last)
           /\ drain' = [drain EXCEPT !.pc = "mark"]
  <2>1. applied' = Interval(1, drain.last)
    BY <1>2, <1>4, <1>5, IntervalConcat DEF MemoryInv, LogOK
  <2>2. (drain.last + 1)..Len(records) \subseteq pending
    BY <1>4 DEF MemoryInv, LogOK
  <2>3. LogOK'
    BY <1>1, <1>2, <1>3, <1>4, <1>5, <2>1, <2>2 DEF MemoryInv, LogOK
  <2>4. RequestsOK'
    BY <1>1, <1>2, <1>5 DEF MemoryInv, RequestsOK, Whole
  <2>5. DrainOK'
    <3>1. drain' = [pc |-> "mark", pending |-> drain.pending,
                    next |-> drain.next, last |-> drain.last]
      BY <1>5 DEF MemoryInv, DrainOK
    <3>2. drain.last \in 1..drain.last /\ drain.next \in 1..drain.last
      BY <1>2, <1>4
    <3> QED
      BY <3>1, <3>2, <1>5 DEF MemoryInv, DrainOK
  <2> QED
    BY <2>3, <2>4, <2>5 DEF MemoryInv
<1>6. CASE drain' = Idle /\ UNCHANGED <<checkpoint, applied>>
  BY <1>1, <1>6 DEF MemoryInv, LogOK, RequestsOK, Whole, DrainOK, Idle
<1> QED
  BY <1>5, <1>6 DEF Apply

\* Only entries behind the checkpoint are marked done.
LEMMA MarkDoneKeeps ==
  ASSUME MemoryInv, MarkDone
  PROVE  MemoryInv'
<1>1. /\ drain.pc = "mark"
      /\ pending' = pending \ {drain.next}
      /\ UNCHANGED <<records, decision, appended, checkpoint, applied>>
  BY DEF MarkDone, viewVars
<1>2. PICK S : records \in Seq(S)
  BY DEF MemoryInv, LogOK
<1>3. /\ checkpoint \in Nat
      /\ drain.last \in 1..checkpoint
      /\ drain.next \in 1..drain.last
  BY <1>1, <1>2 DEF MemoryInv, LogOK, DrainOK
<1>4. LogOK'
  <2>1. drain.next \notin (checkpoint + 1)..Len(records)
    BY <1>3
  <2>2. /\ pending' \subseteq 1..Len(records)
        /\ (checkpoint + 1)..Len(records) \subseteq pending'
    BY <1>1, <2>1 DEF MemoryInv, LogOK
  <2> QED
    BY <1>1, <2>2 DEF MemoryInv, LogOK
<1>5. DrainOK'
  <2>1. CASE drain.next = drain.last
    BY <2>1 DEF MarkDone, DrainOK, Idle
  <2>2. CASE drain.next # drain.last
    <3>1. drain' = [pc |-> "mark", pending |-> drain.pending,
                    next |-> drain.next + 1, last |-> drain.last]
      BY <1>1, <2>2 DEF MarkDone, MemoryInv, DrainOK
    <3>2. drain.next + 1 \in 1..drain.last
      BY <1>3, <2>2
    <3> QED
      BY <1>1, <1>3, <3>1, <3>2 DEF MemoryInv, DrainOK
  <2> QED
    BY <2>1, <2>2
<1> QED
  BY <1>1, <1>4, <1>5 DEF MemoryInv, RequestsOK, Whole

\* A reader changes nothing.
LEMMA GetKeeps ==
  ASSUME MemoryInv, NEW k \in Reader, NEW c, Get(k, c)
  PROVE  MemoryInv'
BY DEF Get, storeVars, viewVars, MemoryInv, LogOK, RequestsOK, Whole, DrainOK

\* Every step keeps the invariant.
LEMMA MemoryStep == MemoryInv /\ [Next]_vars => MemoryInv'
<1> SUFFICES ASSUME MemoryInv, [Next]_vars PROVE MemoryInv'
  OBVIOUS
<1>1. CASE UNCHANGED vars
  BY <1>1 DEF vars, MemoryInv, LogOK, RequestsOK, Whole, DrainOK
<1>2. CASE Next
  BY <1>2, DecideKeeps, AppendKeeps, EnqueueKeeps, ReadPendingKeeps, ReadCheckpointKeeps,
     ApplyKeeps, MarkDoneKeeps, GetKeeps DEF Next
<1> QED
  BY <1>1, <1>2

-----------------------------------------------------------------------------
\* A step of the adapters is a step of the feed, or none: a batch is published
\* behind the checkpoint, and a run is delivered where the last one ended.
LEMMA StepRefinesFeed ==
  ASSUME MemoryInv, [Next]_vars
  PROVE  [Feed!FeedNext]_(Feed!feedVars)
<1> USE DEF Feed!feedVars
<1>1. PICK S : records \in Seq(S)
  BY DEF MemoryInv, LogOK
<1>2. /\ checkpoint \in Nat /\ Len(records) \in Nat /\ checkpoint <= Len(records)
      /\ applied = Interval(1, checkpoint)
      /\ Len(applied) = checkpoint
  <2>1. /\ checkpoint \in Nat /\ Len(records) \in Nat /\ checkpoint <= Len(records)
        /\ applied = Interval(1, checkpoint)
    BY <1>1 DEF MemoryInv, LogOK
  <2> QED
    BY <2>1, IntervalIsSeq
<1>3. ASSUME NEW r \in Request, NEW now, AppendBatch(r, now)
      PROVE  [Feed!FeedNext]_(Feed!feedVars)
  <2> DEFINE batch == decision[r].batch
             new   == [i \in DOMAIN batch |-> [event |-> batch[i], at |-> now]]
  <2>1. records' = records \o new /\ applied' = applied
    BY <1>3 DEF AppendBatch, viewVars
  <2>2. Len(batch) \in Nat /\ DOMAIN batch = 1..Len(batch)
    BY <1>3 DEF MemoryInv, RequestsOK, Fits, IsBatch, AppendBatch
  <2>3. DOMAIN new = 1..Len(batch) /\ new = [i \in 1..Len(batch) |-> new[i]]
    BY <2>2
  <2> HIDE DEF new, batch
  <2>4. Len(records') = Len(records) + Len(batch)
    BY <1>1, <2>1, <2>2, <2>3, ExtendRecords
  <2>5. /\ 1..Len(records) \subseteq 1..Len(records')
        /\ \A s \in (1..Len(records')) \ (1..Len(records)) : s \in Nat /\ s > Len(applied)
    BY <1>2, <2>2, <2>4
  <2> QED
    BY <2>1, <2>5 DEF Feed!FeedNext, Feed!Publish
<1>4. CASE Apply
  <2>1. /\ drain.pc = "apply"
        /\ UNCHANGED records
    BY <1>4 DEF Apply, storeVars
  <2>2. /\ drain.next = checkpoint + 1
        /\ drain.last \in (checkpoint + 1)..Len(records)
    BY <2>1 DEF MemoryInv, DrainOK
  <2>3. CASE applied' = applied \o Interval(drain.next, drain.last)
    <3>1. applied' = applied \o Feed!Interval(Len(applied) + 1, drain.last)
      BY <1>2, <2>2, <2>3 DEF Interval, Feed!Interval
    <3>2. /\ drain.last \in 1..Len(records)
          /\ drain.last > Len(applied)
          /\ (Len(applied) + 1)..drain.last \subseteq 1..Len(records)
      BY <1>2, <2>2
    <3>3. Feed!Deliver(drain.last)
      BY <2>1, <3>1, <3>2 DEF Feed!Deliver
    <3> QED
      BY <3>2, <3>3 DEF Feed!FeedNext
  <2>4. CASE UNCHANGED applied
    BY <2>1, <2>4
  <2> QED
    BY <1>4, <2>3, <2>4 DEF Apply
<1>5. ASSUME NEW r \in Request, NEW cmd \in Command[r], Decide(r, cmd)
      PROVE  [Feed!FeedNext]_(Feed!feedVars)
  BY <1>5 DEF Decide, viewVars
<1>6. ASSUME NEW r \in Enqueuer, NEW s, Enqueue(r, s)
      PROVE  [Feed!FeedNext]_(Feed!feedVars)
  BY <1>6 DEF Enqueue, viewVars
<1>7. CASE ReadPending \/ ReadCheckpoint \/ MarkDone
  BY <1>7 DEF ReadPending, ReadCheckpoint, MarkDone, storeVars, viewVars
<1>8. ASSUME NEW k \in Reader, NEW c, Get(k, c)
      PROVE  [Feed!FeedNext]_(Feed!feedVars)
  BY <1>8 DEF Get, storeVars, viewVars
<1>9. CASE UNCHANGED vars
  BY <1>9 DEF vars
<1> QED
  BY <1>3, <1>4, <1>5, <1>6, <1>7, <1>8, <1>9 DEF Next

\* The invariant holds throughout.
THEOREM MemoryIsSafe == Spec => []MemoryInv
  BY MemoryInit, MemoryStep, PTL DEF Spec

\* The checkpoint of the in-memory projection never comes to lie within a
\* batch, as the doc comment of out.Projection promises.
THEOREM MemoryKeepsBatchesWhole == Spec => []BatchesAreWhole
<1>1. MemoryInv => BatchesAreWhole
  BY DEF MemoryInv, RequestsOK, Whole, BatchesAreWhole
<1> QED
  BY <1>1, MemoryIsSafe, PTL

\* The in-memory adapters implement the abstract feed: events are handed to
\* the projection once each, in order and without a hole.
THEOREM MemoryImplementsFeed == Spec => ImplementsOrderedDelivery
<1>1. Init => MemoryInv /\ Feed!FeedInit
  <2>1. ASSUME Init PROVE Feed!FeedInit
    <3>1. Len(records) = 0 /\ applied = <<>>
      BY <2>1 DEF Init
    <3> QED
      BY <3>1 DEF Feed!FeedInit
  <2> QED
    BY <2>1, MemoryInit
<1>2. MemoryInv /\ [Next]_vars => MemoryInv' /\ [Feed!FeedNext]_(Feed!feedVars)
  BY MemoryStep, StepRefinesFeed
<1> QED
  BY <1>1, <1>2, PTL DEF Spec, ImplementsOrderedDelivery, Feed!FeedSpec

-----------------------------------------------------------------------------
(***************************************************************************)
(* Numbers in ascending order.                                             *)
(***************************************************************************)
InOrder(n, S) == Pick(Interval(1, n), S)

\* One number more.
LEMMA InOrderStep ==
  ASSUME NEW n \in Nat, NEW S
  PROVE  /\ InOrder(0, S) = <<>>
         /\ n + 1 \in S => InOrder(n + 1, S) = Append(InOrder(n, S), n + 1)
         /\ n + 1 \notin S => InOrder(n + 1, S) = InOrder(n, S)
<1>1. InOrder(0, S) = <<>>
  <2>1. Interval(1, 0) \in Seq(Nat) /\ Len(Interval(1, 0)) = 0
    BY IntervalIsSeq
  <2>2. Interval(1, 0) = <<>>
    BY <2>1
  <2> QED
    BY <2>2, PickNothing DEF InOrder
<1>2. Interval(1, n) \in Seq(Nat) /\ Len(Interval(1, n)) = n
  BY IntervalIsSeq
<1>3. Interval(1, n + 1) = Append(Interval(1, n), n + 1)
  <2>1. PICK one \in Nat \ {0} : one = 1
    OBVIOUS
  <2>2. one <= n + 1
    BY <2>1
  <2> QED
    BY <2>1, <2>2, IntervalGrows
<1> DEFINE I == Interval(1, n)
           x == n + 1
<1>4. x \in Nat /\ I \in Seq(Nat) /\ Len(I) + 1 = x
  BY <1>2
<1> HIDE DEF I, x
<1>5. Pick(Append(I, x), S) = IF Len(I) + 1 \in S THEN Append(Pick(I, S), x) ELSE Pick(I, S)
  BY <1>4, PickAppend
<1> QED
  BY <1>1, <1>3, <1>4, <1>5 DEF InOrder, I, x

\* The list holds the numbers of the set, each once, in ascending order.
Ascends(s, n, S) ==
  /\ s \in Seq(Nat)
  /\ \A i \in 1..Len(s) : s[i] \in S /\ s[i] \in 1..n
  /\ \A i, j \in 1..Len(s) : i < j => s[i] < s[j]
  /\ \A x \in S : x \in 1..n => \E i \in 1..Len(s) : s[i] = x

\* One number more keeps the order.
LEMMA AscendsMore ==
  ASSUME NEW n \in Nat, NEW S, NEW s, Ascends(s, n, S)
  PROVE  /\ n + 1 \in S => Ascends(Append(s, n + 1), n + 1, S)
         /\ n + 1 \notin S => Ascends(s, n + 1, S)
<1>1. CASE n + 1 \in S
  <2> DEFINE t == Append(s, n + 1)
             k == Len(s)
  <2>1. /\ k \in Nat /\ t \in Seq(Nat) /\ Len(t) = k + 1 /\ t[k + 1] = n + 1
        /\ \A i \in 1..k : t[i] = s[i]
    BY DEF Ascends
  <2> HIDE DEF t
  <2>2. \A i \in 1..k : s[i] \in S /\ s[i] \in 1..n
    BY DEF Ascends
  <2>3. \A i, j \in 1..k : i < j => s[i] < s[j]
    BY DEF Ascends
  <2>4. ASSUME NEW i \in 1..(k + 1)
        PROVE  t[i] \in S /\ t[i] \in 1..(n + 1)
    <3>1. CASE i = k + 1
      BY <3>1, <1>1, <2>1
    <3>2. CASE i # k + 1
      <4>1. i \in 1..k
        BY <3>2, <2>1
      <4>2. t[i] = s[i] /\ s[i] \in S /\ s[i] \in 1..n
        BY <4>1, <2>1, <2>2
      <4> QED
        BY <4>2
    <3> QED
      BY <3>1, <3>2
  <2>5. ASSUME NEW i \in 1..(k + 1), NEW j \in 1..(k + 1), i < j
        PROVE  t[i] < t[j]
    <3>1. i \in 1..k /\ t[i] = s[i] /\ s[i] \in 1..n
      BY <2>5, <2>1, <2>2
    <3>2. CASE j = k + 1
      BY <3>1, <3>2, <2>1
    <3>3. CASE j # k + 1
      <4>1. j \in 1..k /\ t[j] = s[j]
        BY <3>3, <2>1
      <4> QED
        BY <4>1, <3>1, <2>3, <2>5
    <3> QED
      BY <3>2, <3>3
  <2>6. ASSUME NEW x \in S, x \in 1..(n + 1)
        PROVE  \E i \in 1..(k + 1) : t[i] = x
    <3>1. CASE x = n + 1
      BY <3>1, <2>1
    <3>2. CASE x # n + 1
      <4>1. x \in 1..n
        BY <3>2, <2>6
      <4>2. PICK i \in 1..k : s[i] = x
        BY <4>1 DEF Ascends
      <4>3. i \in 1..(k + 1)
        BY <2>1
      <4> QED
        BY <4>2, <4>3, <2>1
    <3> QED
      BY <3>1, <3>2
  <2>7. Ascends(t, n + 1, S)
    BY <2>1, <2>4, <2>5, <2>6 DEF Ascends
  <2> QED
    BY <2>7, <1>1 DEF t
<1>2. CASE n + 1 \notin S
  <2>1. \A i \in 1..Len(s) : s[i] \in S /\ s[i] \in 1..(n + 1)
    BY DEF Ascends
  <2>2. ASSUME NEW x \in S, x \in 1..(n + 1)
        PROVE  \E i \in 1..Len(s) : s[i] = x
    <3>1. x \in 1..n
      BY <1>2, <2>2
    <3> QED
      BY <3>1 DEF Ascends
  <2> QED
    BY <1>2, <2>1, <2>2 DEF Ascends
<1> QED
  BY <1>1, <1>2

\* InOrder lists the numbers of the set up to n.
LEMMA InOrderAscends ==
  ASSUME NEW n \in Nat, NEW S
  PROVE  Ascends(InOrder(n, S), n, S)
<1> DEFINE P == {m \in Nat : Ascends(InOrder(m, S), m, S)}
<1>1. 0 \in P
  <2>1. InOrder(0, S) = <<>>
    BY InOrderStep
  <2>2. <<>> \in Seq(Nat) /\ Len(<<>>) = 0 /\ 1..0 = {}
    OBVIOUS
  <2>3. Ascends(<<>>, 0, S)
    BY <2>2 DEF Ascends
  <2> QED
    BY <2>1, <2>3
<1>2. ASSUME NEW m \in Nat, m \in P
      PROVE  m + 1 \in P
  <2>1. Ascends(InOrder(m, S), m, S)
    BY <1>2
  <2>2. CASE m + 1 \in S
    <3>1. Ascends(Append(InOrder(m, S), m + 1), m + 1, S)
      BY <2>1, <2>2, AscendsMore
    <3>2. InOrder(m + 1, S) = Append(InOrder(m, S), m + 1)
      BY <2>2, InOrderStep
    <3>3. Ascends(InOrder(m + 1, S), m + 1, S)
      BY <3>1, <3>2, Zenon
    <3> QED
      BY <3>3
  <2>3. CASE m + 1 \notin S
    <3>1. Ascends(InOrder(m, S), m + 1, S)
      BY <2>1, <2>3, AscendsMore
    <3>2. InOrder(m + 1, S) = InOrder(m, S)
      BY <2>3, InOrderStep
    <3> QED
      BY <3>1, <3>2
  <2> QED
    BY <2>2, <2>3
<1> HIDE DEF P
<1>3. Nat \subseteq P
  BY <1>1, <1>2, Induction
<1> QED
  BY <1>3 DEF P

\* Only the numbers up to n count.
LEMMA InOrderSame ==
  ASSUME NEW n \in Nat, NEW S, NEW T, \A i \in 1..n : i \in S <=> i \in T
  PROVE  InOrder(n, S) = InOrder(n, T)
<1> DEFINE P == {m \in Nat : m <= n => InOrder(m, S) = InOrder(m, T)}
<1>1. 0 \in P
  BY InOrderStep
<1>2. ASSUME NEW m \in Nat, m \in P
      PROVE  m + 1 \in P
  <2> SUFFICES ASSUME m + 1 <= n
               PROVE  InOrder(m + 1, S) = InOrder(m + 1, T)
    OBVIOUS
  <2>1. m <= n /\ m + 1 \in 1..n
    OBVIOUS
  <2>2. InOrder(m, S) = InOrder(m, T)
    BY <1>2, <2>1
  <2>3. m + 1 \in S <=> m + 1 \in T
    BY <2>1
  <2>4. CASE m + 1 \in S
    <3>1. m + 1 \in T
      BY <2>3, <2>4
    <3>2. InOrder(m + 1, S) = Append(InOrder(m, S), m + 1)
      BY <2>4, InOrderStep
    <3>3. InOrder(m + 1, T) = Append(InOrder(m, T), m + 1)
      BY <3>1, InOrderStep
    <3> QED
      BY <2>2, <3>2, <3>3
  <2>5. CASE m + 1 \notin S
    <3>1. m + 1 \notin T
      BY <2>3, <2>5
    <3>2. InOrder(m + 1, S) = InOrder(m, S)
      BY <2>5, InOrderStep
    <3>3. InOrder(m + 1, T) = InOrder(m, T)
      BY <3>1, InOrderStep
    <3> QED
      BY <2>2, <3>2, <3>3
  <2> QED
    BY <2>4, <2>5
<1> HIDE DEF P
<1>3. n \in P
  BY <1>1, <1>2, Induction
<1> QED
  BY <1>3 DEF P

\* Where the set ends, the list ends.
LEMMA InOrderShort ==
  ASSUME NEW n \in Nat, NEW m \in Nat, n <= m, NEW S, \A i \in S : i \in 1..n
  PROVE  InOrder(m, S) = InOrder(n, S)
<1> DEFINE P == {k \in Nat : k >= n => InOrder(k, S) = InOrder(n, S)}
<1>1. 0 \in P
  OBVIOUS
<1>2. ASSUME NEW k \in Nat, k \in P
      PROVE  k + 1 \in P
  <2> SUFFICES ASSUME k + 1 >= n
               PROVE  InOrder(k + 1, S) = InOrder(n, S)
    OBVIOUS
  <2>1. CASE k + 1 = n
    BY <2>1
  <2>2. CASE k + 1 # n
    <3>1. k >= n /\ k + 1 \notin 1..n
      BY <2>2
    <3>2. k + 1 \notin S
      BY <3>1
    <3> QED
      BY <1>2, <3>1, <3>2, InOrderStep
  <2> QED
    BY <2>1, <2>2
<1> HIDE DEF P
<1>3. m \in P
  BY <1>1, <1>2, Induction
<1> QED
  BY <1>3 DEF P

-----------------------------------------------------------------------------
(***************************************************************************)
(* Sorting what is sorted changes nothing.                                 *)
(***************************************************************************)
Shuffles(f, n) ==
  /\ f \in [1..n -> 1..n]
  /\ \A w \in 1..n : \E v \in 1..n : f[v] = w
  /\ \A i, j \in 1..n : i < j => f[i] <= f[j]

\* A place is not moved up ...
LEMMA MonotoneBelow ==
  ASSUME NEW n \in Nat, NEW f, Shuffles(f, n), NEW i \in 1..n
  PROVE  f[i] <= i
<1> DEFINE P == {k \in Nat : k + 1 \in 1..n => f[k + 1] <= k + 1}
<1>1. 0 \in P
  <2> SUFFICES ASSUME 1 \in 1..n PROVE f[1] <= 1
    OBVIOUS
  <2>1. PICK v \in 1..n : f[v] = 1
    BY DEF Shuffles
  <2>2. v = 1 \/ 1 < v
    OBVIOUS
  <2> QED
    BY <2>1, <2>2 DEF Shuffles
<1>2. ASSUME NEW k \in Nat, k \in P
      PROVE  k + 1 \in P
  <2> SUFFICES ASSUME k + 2 \in 1..n
               PROVE  f[k + 2] <= k + 2
    OBVIOUS
  <2>1. k + 1 \in 1..n
    OBVIOUS
  <2>2. f[k + 1] <= k + 1 /\ f[k + 1] \in 1..n /\ f[k + 2] \in 1..n
    BY <1>2, <2>1 DEF Shuffles
  <2>3. f[k + 1] + 1 \in 1..n
    BY <2>1, <2>2
  <2>4. PICK v \in 1..n : f[v] = f[k + 1] + 1
    BY <2>3 DEF Shuffles
  <2>5. ~ (v < k + 1) /\ v # k + 1
    <3>1. v < k + 1 => f[v] <= f[k + 1]
      BY <2>1 DEF Shuffles
    <3> QED
      BY <3>1, <2>2, <2>4
  <2>6. v = k + 2 \/ k + 2 < v
    BY <2>5
  <2>7. f[k + 2] <= f[v]
    <3>1. k + 2 < v => f[k + 2] <= f[v]
      BY DEF Shuffles
    <3> QED
      BY <2>2, <2>6, <3>1
  <2> QED
    BY <2>2, <2>4, <2>7
<1> HIDE DEF P
<1>3. Nat \subseteq P
  BY <1>1, <1>2, Induction
<1>4. i - 1 \in Nat /\ (i - 1) + 1 = i
  OBVIOUS
<1> QED
  BY <1>3, <1>4 DEF P

\* ... nor down.
LEMMA MonotoneAbove ==
  ASSUME NEW n \in Nat, NEW f, Shuffles(f, n), NEW i \in 1..n
  PROVE  f[i] >= i
<1> DEFINE P == {k \in Nat : n - k \in 1..n => f[n - k] >= n - k}
<1>1. 0 \in P
  <2> SUFFICES ASSUME n \in 1..n PROVE f[n] >= n
    OBVIOUS
  <2>1. PICK v \in 1..n : f[v] = n
    BY DEF Shuffles
  <2>2. v = n \/ v < n
    OBVIOUS
  <2>3. v < n => f[v] <= f[n]
    BY DEF Shuffles
  <2>4. f[n] \in 1..n
    BY DEF Shuffles
  <2> QED
    BY <2>1, <2>2, <2>3, <2>4
<1>2. ASSUME NEW k \in Nat, k \in P
      PROVE  k + 1 \in P
  <2> DEFINE m == n - (k + 1)
  <2> SUFFICES ASSUME m \in 1..n
               PROVE  f[m] >= m
    OBVIOUS
  <2>1. m + 1 \in 1..n /\ m + 1 = n - k
    OBVIOUS
  <2>2. m \in 1..n /\ m \in Nat
    OBVIOUS
  <2>3. f[m + 1] >= m + 1
    <3>1. f[n - k] >= n - k
      BY <1>2, <2>1
    <3> QED
      BY <2>1, <3>1
  <2> HIDE DEF m
  <2>4. f[m] \in 1..n /\ f[m + 1] \in 1..n
    BY <2>1, <2>2 DEF Shuffles
  <2>5. f[m + 1] - 1 \in 1..n
    BY <2>2, <2>3, <2>4
  <2>6. PICK v \in 1..n : f[v] = f[m + 1] - 1
    BY <2>5 DEF Shuffles
  <2>7. ~ (m + 1 < v) /\ v # m + 1
    <3>1. m + 1 < v => f[m + 1] <= f[v]
      BY <2>1 DEF Shuffles
    <3> QED
      BY <3>1, <2>4, <2>6
  <2>8. v = m \/ v < m
    BY <2>2, <2>7
  <2>9. f[v] <= f[m]
    <3>1. v < m => f[v] <= f[m]
      BY <2>2 DEF Shuffles
    <3> QED
      BY <2>4, <2>8, <3>1
  <2> QED
    BY <2>2, <2>3, <2>4, <2>6, <2>9
<1> HIDE DEF P
<1>3. Nat \subseteq P
  BY <1>1, <1>2, Induction
<1>4. n - i \in Nat /\ n - (n - i) = i
  OBVIOUS
<1> QED
  BY <1>3, <1>4 DEF P

\* The order that the sort gives to the places.
Before(threads, sequences, i, j) ==
  \/ sequences[threads[i].id] < sequences[threads[j].id]
  \/ sequences[threads[i].id] = sequences[threads[j].id] /\ i < j

Sorts(threads, sequences, at) ==
  \A i, j \in DOMAIN threads : i < j => Before(threads, sequences, at[i], at[j])

SortedPlaces(threads, sequences) ==
  CHOOSE at \in Bijection(DOMAIN threads, DOMAIN threads) : Sorts(threads, sequences, at)

\* StableSort, taken apart.
LEMMA SortOpened ==
  ASSUME NEW threads, NEW sequences
  PROVE  StableSort(threads, sequences)
           = [i \in DOMAIN threads |-> threads[SortedPlaces(threads, sequences)[i]]]
BY DEF StableSort, SortedPlaces, Sorts, Before

\* Threads that are in the order of their sequences stay where they are.
LEMMA SortOfSorted ==
  ASSUME NEW n \in Nat, NEW threads, DOMAIN threads = 1..n, NEW sequences,
         \A i \in 1..n : sequences[threads[i].id] \in Nat,
         \A i, j \in 1..n : i < j => sequences[threads[i].id] < sequences[threads[j].id]
  PROVE  StableSort(threads, sequences) = [i \in 1..n |-> threads[i]]
<1> DEFINE order == SortedPlaces(threads, sequences)
           same == [i \in 1..n |-> i]
<1>1. StableSort(threads, sequences) = [i \in 1..n |-> threads[order[i]]]
  BY SortOpened
<1>2. same \in Bijection(1..n, 1..n) /\ Sorts(threads, sequences, same)
  BY DEF Bijection, Injection, Surjection, IsInjective, Sorts, Before
<1>3. order \in Bijection(1..n, 1..n) /\ Sorts(threads, sequences, order)
  <2> HIDE DEF same
  <2>1. \E f \in Bijection(DOMAIN threads, DOMAIN threads) : Sorts(threads, sequences, f)
    BY <1>2
  <2>2. order \in Bijection(DOMAIN threads, DOMAIN threads) /\ Sorts(threads, sequences, order)
    BY <2>1 DEF SortedPlaces
  <2> QED
    BY <2>2
<1> HIDE DEF order
<1>4. ASSUME NEW i \in 1..n, NEW j \in 1..n, Before(threads, sequences, i, j)
      PROVE  i <= j
  BY <1>4 DEF Before
<1>5. order \in [1..n -> 1..n] /\ \A w \in 1..n : \E v \in 1..n : order[v] = w
  BY <1>3 DEF Bijection, Surjection
<1>6. Shuffles(order, n)
  BY <1>3, <1>4, <1>5 DEF Shuffles, Sorts
<1>7. ASSUME NEW i \in 1..n
      PROVE  order[i] = i
  <2>1. order[i] <= i /\ order[i] >= i
    BY <1>6, MonotoneBelow, MonotoneAbove
  <2> QED
    BY <2>1, <1>5
<1> QED
  BY <1>1, <1>7

-----------------------------------------------------------------------------
(***************************************************************************)
(* The log, seen as what it says about conversations and threads.          *)
(***************************************************************************)
Creates(L, s, c) == L[s].event.type = "ConversationCreated" /\ L[s].event.conversation = c

Starts(L, s, c, t) ==
  /\ L[s].event.type = "ThreadStarted"
  /\ L[s].event.conversation = c
  /\ L[s].event.thread = t

StartsIn(L, c) ==
  {s \in DOMAIN L : L[s].event.type = "ThreadStarted" /\ L[s].event.conversation = c}

PostsIn(L, c, t) ==
  {s \in DOMAIN L : /\ L[s].event.type = "MessagePosted"
                    /\ L[s].event.conversation = c
                    /\ L[s].event.thread = t}

Types == {"ConversationCreated", "ThreadStarted", "MessagePosted",
          "ParticipantAdded", "ParticipantRemoved"}

\* What an event is about was there before: a thread's conversation, and but
\* for a new thread the thread.  A conversation is created once, a thread
\* started once.
Rooted(L, s) ==
  LET e == L[s].event IN
  /\ L[s].at \in Nat
  /\ e.type \in Types
  /\ e.type = "ConversationCreated" => \A q \in 1..(s - 1) : ~ Creates(L, q, e.conversation)
  /\ e.type = "ThreadStarted" =>
       /\ \E q \in 1..(s - 1) : Creates(L, q, e.conversation)
       /\ \A q \in 1..(s - 1) : L[q].event.type = "ThreadStarted" => L[q].event.thread # e.thread
  /\ e.type \notin {"ConversationCreated", "ThreadStarted"} =>
       \E q \in 1..(s - 1) : Starts(L, q, e.conversation, e.thread)

Causal(L) == IsList(L) /\ \A s \in 1..Len(L) : Rooted(L, s)

(***************************************************************************)
(* The projection after the first n events of the log L.                   *)
(***************************************************************************)
\* A view is nil or lies within its array.
ViewOK(p, v) ==
  \/ v = NoThreads
  \/ /\ v = [array |-> v.array, len |-> v.len]
     /\ v.array \in 1..Len(p.arrays)
     /\ v.len \in 1..Len(p.arrays[v.array])

\* No two conversations share an array.
ShapeOK(p) ==
  /\ p = [conversations |-> p.conversations, arrays |-> p.arrays,
          threadSequences |-> p.threadSequences, latestMessageAt |-> p.latestMessageAt]
  /\ IsList(p.arrays)
  /\ \A a \in 1..Len(p.arrays) : IsList(p.arrays[a])
  /\ \A c \in DOMAIN p.conversations : ViewOK(p, p.conversations[c])
  /\ \A c, d \in DOMAIN p.conversations :
       p.conversations[c].array = p.conversations[d].array => c = d \/ p.conversations[c].array = 0

\* The conversations created so far.
ConversationsOK(p, L, n) ==
  DOMAIN p.conversations =
    {L[s].event.conversation : s \in {q \in 1..n : L[q].event.type = "ConversationCreated"}}

\* A thread that was started at s, with the messages posted to it so far.
SlotOK(p, L, n, c, s, thread) ==
  LET t == L[s].event.thread IN
  /\ thread = [id |-> t, participants |-> thread.participants,
               messages |-> InOrder(n, PostsIn(L, c, t))]
  /\ c \in DOMAIN p.threadSequences
  /\ t \in DOMAIN p.threadSequences[c]
  /\ p.threadSequences[c][t] = s

\* The threads of a conversation, in the order they were started.
ListOK(p, L, n, c) ==
  LET starts == InOrder(n, StartsIn(L, c))
      v      == p.conversations[c]
  IN  /\ v.len = Len(starts)
      /\ \A i \in 1..Len(starts) : SlotOK(p, L, n, c, starts[i], p.arrays[v.array][i])

\* The time of the latest message of each thread that has one.
LatestOK(p, L, n) ==
  /\ \A s \in 1..n :
       L[s].event.type = "MessagePosted" =>
         /\ L[s].event.thread \in DOMAIN p.latestMessageAt
         /\ p.latestMessageAt[L[s].event.thread] >= L[s].at
  /\ \A t \in DOMAIN p.latestMessageAt :
       \E s \in 1..n : /\ L[s].event.type = "MessagePosted"
                       /\ L[s].event.thread = t
                       /\ p.latestMessageAt[t] = L[s].at

Projected(p, L, n) ==
  /\ ShapeOK(p)
  /\ ConversationsOK(p, L, n)
  /\ \A c \in DOMAIN p.conversations : ListOK(p, L, n, c)
  /\ LatestOK(p, L, n)

(***************************************************************************)
(* The Postgres tables after the same events.                              *)
(***************************************************************************)
KeyAt(L, s) == <<L[s].event.conversation, L[s].event.thread>>

RowAt(L, s) == [conversation |-> L[s].event.conversation, thread |-> L[s].event.thread,
                sequence |-> s, author |-> L[s].event.author]

TablesOK(tb, L, n) ==
  /\ tb = [conversations |-> tb.conversations, threads |-> tb.threads, messages |-> tb.messages]
  /\ tb.conversations =
       {L[s].event.conversation : s \in {q \in 1..n : L[q].event.type = "ConversationCreated"}}
  /\ DOMAIN tb.threads = {KeyAt(L, s) : s \in {q \in 1..n : L[q].event.type = "ThreadStarted"}}
  /\ \A s \in 1..n :
       L[s].event.type = "ThreadStarted" =>
         tb.threads[KeyAt(L, s)] = [sequence |-> s,
                                    participants |-> tb.threads[KeyAt(L, s)].participants]
  /\ tb.messages = {RowAt(L, s) : s \in {q \in 1..n : L[q].event.type = "MessagePosted"}}

\* Both know the same participants.
SameMembers(p, tb) ==
  \A c \in DOMAIN p.conversations : \A i \in 1..p.conversations[c].len :
    LET thread == p.arrays[p.conversations[c].array][i]
    IN  thread.participants = tb.threads[<<c, thread.id>>].participants

(***************************************************************************)
(* Views in the hands of readers.                                          *)
(***************************************************************************)
\* A list that another one continues.
Extends(s, t) ==
  /\ IsList(s) /\ IsList(t)
  /\ Len(s) <= Len(t)
  /\ \A i \in 1..Len(s) : t[i] = s[i]

\* A conversation that still uses the array of a view has at least the
\* threads that are in the view.
Holds(p, view, seen) ==
  \/ view = NoThreads /\ seen = <<>>
  \/ /\ view.array \in 1..Len(p.arrays)
     /\ view.len \in 1..Len(p.arrays[view.array])
     /\ IsList(seen) /\ Len(seen) = view.len
     /\ \A i \in 1..view.len :
          /\ p.arrays[view.array][i].id = seen[i].id
          /\ Extends(seen[i].messages, p.arrays[view.array][i].messages)
     /\ \A c \in DOMAIN p.conversations :
          p.conversations[c].array = view.array => view.len <= p.conversations[c].len

\* From one projection to a later one: a slot that is in use keeps its thread,
\* and the messages of that only grow.
Advances(p, q) ==
  /\ Len(p.arrays) <= Len(q.arrays)
  /\ \A a \in 1..Len(p.arrays) :
       /\ Len(q.arrays[a]) = Len(p.arrays[a])
       /\ \A i \in 1..Len(p.arrays[a]) :
            \/ q.arrays[a][i] = p.arrays[a][i]
            \/ /\ q.arrays[a][i].id = p.arrays[a][i].id
               /\ Extends(p.arrays[a][i].messages, q.arrays[a][i].messages)
            \/ \E c \in DOMAIN p.conversations :
                 p.conversations[c].array = a /\ p.conversations[c].len < i
  /\ \A c \in DOMAIN q.conversations :
       q.conversations[c].array \in 1..Len(p.arrays) =>
         /\ c \in DOMAIN p.conversations
         /\ p.conversations[c].array = q.conversations[c].array
         /\ p.conversations[c].len <= q.conversations[c].len

-----------------------------------------------------------------------------
\* Lists: a list has its positions, and can be written to.
LEMMA ListFacts ==
  ASSUME NEW s, IsList(s)
  PROVE  Len(s) \in Nat /\ DOMAIN s = 1..Len(s)
BY DEF IsList

Overwritten(s, k, x, t) ==
  /\ IsList(t)
  /\ Len(t) = Len(s)
  /\ \A j \in 1..Len(s) : t[j] = IF j = k THEN x ELSE s[j]

\* A write to one place leaves the others.
LEMMA ListWrite ==
  ASSUME NEW s, IsList(s), NEW k \in 1..Len(s), NEW x
  PROVE  Overwritten(s, k, x, [s EXCEPT ![k] = x])
<1> DEFINE S == Range(s) \cup {x}
           t == [s EXCEPT ![k] = x]
<1>1. s \in Seq(S) /\ x \in S
  BY DEF IsList
<1>2. t \in Seq(S) /\ Len(t) = Len(s) /\ \A j \in 1..Len(s) : t[j] = IF j = k THEN x ELSE s[j]
  <2> HIDE DEF S
  <2> QED
    BY <1>1
<1> HIDE DEF S, t
<1>3. IsList(t)
  BY <1>2, SeqIsList
<1> QED
  BY <1>2, <1>3 DEF t, Overwritten

\* A function over the first numbers is a list.
LEMMA FunctionIsList ==
  ASSUME NEW n \in Nat, NEW s, DOMAIN s = 1..n, s = [i \in 1..n |-> s[i]]
  PROVE  IsList(s) /\ Len(s) = n
<1> DEFINE S == {s[i] : i \in 1..n}
<1>1. s \in Seq(S) /\ Len(s) = n
  OBVIOUS
<1> HIDE DEF S
<1> QED
  BY <1>1, SeqIsList

\* Append leaves the places there are.
LEMMA ListAppend ==
  ASSUME NEW s, IsList(s), NEW x
  PROVE  /\ IsList(Append(s, x))
         /\ Len(Append(s, x)) = Len(s) + 1
         /\ Append(s, x)[Len(s) + 1] = x
         /\ \A j \in 1..Len(s) : Append(s, x)[j] = s[j]
<1> DEFINE S == Range(s) \cup {x}
<1>1. s \in Seq(S) /\ x \in S
  BY DEF IsList
<1> HIDE DEF S
<1>2. /\ Len(Append(s, x)) = Len(s) + 1
      /\ Append(s, x)[Len(s) + 1] = x
      /\ \A j \in 1..Len(s) : Append(s, x)[j] = s[j]
  BY <1>1
<1> QED
  BY <1>2, AppendFacts

\* The log is a list.
LEMMA LogFacts ==
  ASSUME NEW L, Causal(L)
  PROVE  /\ Len(L) \in Nat
         /\ DOMAIN L = 1..Len(L)
BY ListFacts DEF Causal

\* A thread is started once.
LEMMA StartedOnce ==
  ASSUME NEW L, Causal(L), NEW s \in 1..Len(L), NEW q \in 1..Len(L),
         L[s].event.type = "ThreadStarted", L[q].event.type = "ThreadStarted",
         L[s].event.thread = L[q].event.thread
  PROVE  s = q
<1>1. Len(L) \in Nat
  BY LogFacts
<1>2. ~ (q < s)
  <2> SUFFICES ASSUME q < s PROVE FALSE
    OBVIOUS
  <2>1. q \in 1..(s - 1)
    BY <1>1
  <2>2. Rooted(L, s)
    BY DEF Causal
  <2> QED
    BY <2>1, <2>2 DEF Rooted
<1>3. ~ (s < q)
  <2> SUFFICES ASSUME s < q PROVE FALSE
    OBVIOUS
  <2>1. s \in 1..(q - 1)
    BY <1>1
  <2>2. Rooted(L, q)
    BY DEF Causal
  <2> QED
    BY <2>1, <2>2 DEF Rooted
<1> QED
  BY <1>1, <1>2, <1>3

\* A thread that has an event was started before, in that conversation.
LEMMA StartedBefore ==
  ASSUME NEW L, Causal(L), NEW s \in 1..Len(L),
         L[s].event.type \notin {"ConversationCreated", "ThreadStarted"}
  PROVE  \E q \in 1..(s - 1) : Starts(L, q, L[s].event.conversation, L[s].event.thread)
<1>1. Rooted(L, s)
  BY DEF Causal
<1> QED
  BY <1>1 DEF Rooted

-----------------------------------------------------------------------------
\* What a view shows.
LEMMA ViewShows ==
  ASSUME NEW p, ShapeOK(p), NEW v, ViewOK(p, v)
  PROVE  /\ v.len \in Nat
         /\ IsList(ThreadsIn(p, v))
         /\ Len(ThreadsIn(p, v)) = v.len
         /\ \A i \in 1..v.len : ThreadsIn(p, v)[i] = p.arrays[v.array][i]
<1>1. CASE v = NoThreads
  <2>1. v.len = 0 /\ ThreadsIn(p, v) = <<>>
    BY <1>1 DEF NoThreads, ThreadsIn
  <2>2. <<>> \in Seq({}) /\ Len(<<>>) = 0
    OBVIOUS
  <2>3. IsList(<<>>)
    BY <2>2, SeqIsList
  <2>4. \A i \in 1..v.len : FALSE
    BY <2>1
  <2>5. v.len \in Nat /\ Len(ThreadsIn(p, v)) = v.len
    BY <2>1, <2>2
  <2> QED
    BY <2>1, <2>3, <2>4, <2>5, Zenon
<1>2. CASE v # NoThreads
  <2> DEFINE arr == p.arrays[v.array]
             len == v.len
  <2>1. v.array \in 1..Len(p.arrays) /\ len \in 1..Len(arr)
    BY <1>2 DEF ViewOK
  <2>2. IsList(arr)
    BY <2>1 DEF ShapeOK
  <2>3. ThreadsIn(p, v) = SubSeq(arr, 1, len)
    <3>1. len # 0
      BY <2>1
    <3> QED
      BY <3>1 DEF ThreadsIn
  <2> HIDE DEF arr, len
  <2>4. arr \in Seq(Range(arr)) /\ Len(arr) \in Nat
    BY <2>2 DEF IsList
  <2>5. len \in Nat /\ len <= Len(arr)
    BY <2>1, <2>4
  <2>6. /\ SubSeq(arr, 1, len) \in Seq(Range(arr))
        /\ Len(SubSeq(arr, 1, len)) = len
        /\ \A i \in 1..len : SubSeq(arr, 1, len)[i] = arr[i]
    BY <2>4, <2>5
  <2>7. IsList(SubSeq(arr, 1, len))
    BY <2>6, SeqIsList
  <2> QED
    BY <2>3, <2>5, <2>6, <2>7 DEF arr, len
<1> QED
  BY <1>1, <1>2

-----------------------------------------------------------------------------
\* One slot of one array is overwritten.
Writes(p, q, a, i, x) ==
  /\ q = [conversations |-> p.conversations, arrays |-> q.arrays,
          threadSequences |-> p.threadSequences, latestMessageAt |-> q.latestMessageAt]
  /\ q.arrays = [p.arrays EXCEPT ![a] = [p.arrays[a] EXCEPT ![i] = x]]

Rewritten(p, q, a, i, x) ==
  /\ q.conversations = p.conversations
  /\ q.threadSequences = p.threadSequences
  /\ Len(q.arrays) = Len(p.arrays)
  /\ \A b \in 1..Len(p.arrays) :
       /\ Len(q.arrays[b]) = Len(p.arrays[b])
       /\ \A j \in 1..Len(p.arrays[b]) :
            /\ b = a /\ j = i => q.arrays[b][j] = x
            /\ b # a \/ j # i => q.arrays[b][j] = p.arrays[b][j]

\* A write to a slot keeps the shape and every other slot.
LEMMA WriteFacts ==
  ASSUME NEW p, ShapeOK(p), NEW q, NEW a \in 1..Len(p.arrays), NEW i \in 1..Len(p.arrays[a]),
         NEW x, Writes(p, q, a, i, x)
  PROVE  ShapeOK(q) /\ Rewritten(p, q, a, i, x)
<1> DEFINE old == p.arrays
           new == q.arrays
           row == [p.arrays[a] EXCEPT ![i] = x]
<1>1. IsList(old) /\ \A b \in 1..Len(old) : IsList(old[b])
  BY DEF ShapeOK
<1>2. IsList(row) /\ Len(row) = Len(old[a])
      /\ \A j \in 1..Len(old[a]) : row[j] = IF j = i THEN x ELSE old[a][j]
  <2> DEFINE arr == p.arrays[a]
  <2>1. IsList(arr) /\ i \in 1..Len(arr)
    BY <1>1
  <2> HIDE DEF arr
  <2>2. Overwritten(arr, i, x, [arr EXCEPT ![i] = x])
    BY <2>1, ListWrite
  <2> QED
    BY <2>2 DEF arr, Overwritten
<1>3. new = [old EXCEPT ![a] = row]
  BY DEF Writes
<1>4. /\ q.conversations = p.conversations
      /\ q.threadSequences = p.threadSequences
      /\ q = [conversations |-> q.conversations, arrays |-> q.arrays,
              threadSequences |-> q.threadSequences, latestMessageAt |-> q.latestMessageAt]
  BY DEF Writes
<1> HIDE DEF old, new, row
<1>5. IsList(new) /\ Len(new) = Len(old) /\ \A b \in 1..Len(old) : new[b] = IF b = a THEN row ELSE old[b]
  <2>1. Overwritten(old, a, row, [old EXCEPT ![a] = row])
    BY <1>1, ListWrite DEF old
  <2> QED
    BY <2>1, <1>3 DEF Overwritten
<1>6. ASSUME NEW b \in 1..Len(old)
      PROVE  /\ IsList(new[b])
             /\ Len(new[b]) = Len(old[b])
             /\ \A j \in 1..Len(old[b]) :
                  /\ b = a /\ j = i => new[b][j] = x
                  /\ b # a \/ j # i => new[b][j] = old[b][j]
  <2>1. CASE b = a
    BY <2>1, <1>2, <1>5
  <2>2. CASE b # a
    BY <2>2, <1>1, <1>5
  <2> QED
    BY <2>1, <2>2
<1>7. Rewritten(p, q, a, i, x)
  BY <1>4, <1>5, <1>6 DEF Rewritten, old, new
<1>8. \A c \in DOMAIN q.conversations : ViewOK(q, q.conversations[c])
  <2> SUFFICES ASSUME NEW c \in DOMAIN p.conversations
               PROVE  ViewOK(q, p.conversations[c])
    BY <1>4
  <2> DEFINE v == p.conversations[c]
  <2>1. ViewOK(p, v)
    BY DEF ShapeOK
  <2> HIDE DEF v
  <2>2. ViewOK(q, v)
    BY <2>1, <1>5, <1>6 DEF ViewOK, old, new
  <2> QED
    BY <2>2 DEF v
<1>9. ShapeOK(q)
  <2>1. IsList(q.arrays) /\ \A b \in 1..Len(q.arrays) : IsList(q.arrays[b])
    BY <1>5, <1>6 DEF new
  <2>2. \A c, d \in DOMAIN q.conversations :
          q.conversations[c].array = q.conversations[d].array => c = d \/ q.conversations[c].array = 0
    BY <1>4 DEF ShapeOK
  <2> QED
    BY <1>4, <1>8, <2>1, <2>2 DEF ShapeOK
<1> QED
  BY <1>7, <1>9

\* Where a thread is: in the array of its conversation, at the place of its
\* start among the starts of the conversation.
Located(p, L, n, c, t, a, i) ==
  /\ c \in DOMAIN p.conversations
  /\ p.conversations[c].array = a
  /\ a \in 1..Len(p.arrays)
  /\ i \in 1..p.conversations[c].len
  /\ i \in 1..Len(p.arrays[a])
  /\ p.arrays[a][i].id = t
  /\ L[InOrder(n, StartsIn(L, c))[i]].event.thread = t

\* A slot in use belongs to the thread whose start is there.
Slot(p, L, n, c, i) ==
  LET a == p.conversations[c].array
      s == InOrder(n, StartsIn(L, c))[i]
  IN  /\ p.conversations[c].len = Len(InOrder(n, StartsIn(L, c)))
      /\ SlotOK(p, L, n, c, s, p.arrays[a][i])
      /\ p.arrays[a][i].id = L[s].event.thread
      /\ a \in 1..Len(p.arrays)
      /\ p.conversations[c].len \in 1..Len(p.arrays[a])
      /\ i \in 1..Len(p.arrays[a])
      /\ s \in 1..n /\ s \in 1..Len(L)
      /\ Starts(L, s, c, L[s].event.thread)

\* Every place of a conversation's view is such a slot.
LEMMA SlotFacts ==
  ASSUME NEW p, NEW L, Causal(L), NEW n \in Nat, n <= Len(L), Projected(p, L, n),
         NEW c \in DOMAIN p.conversations, NEW i \in 1..p.conversations[c].len
  PROVE  Slot(p, L, n, c, i)
<1> DEFINE v == p.conversations[c]
           a == v.array
           starts == InOrder(n, StartsIn(L, c))
           s == starts[i]
<1>1. ListOK(p, L, n, c) /\ ViewOK(p, v) /\ ShapeOK(p)
  BY DEF Projected, ShapeOK
<1>2. v.len = Len(starts) /\ SlotOK(p, L, n, c, s, p.arrays[a][i])
  BY <1>1 DEF ListOK
<1>3. p.arrays[a][i].id = L[s].event.thread
  BY <1>2 DEF SlotOK
<1>4. a \in 1..Len(p.arrays) /\ v.len \in 1..Len(p.arrays[a])
  BY <1>1 DEF ViewOK, NoThreads
<1>5. i \in 1..Len(p.arrays[a])
  <2>1. IsList(p.arrays[a])
    BY <1>1, <1>4 DEF ShapeOK
  <2>2. Len(p.arrays[a]) \in Nat
    BY <2>1, ListFacts
  <2> QED
    BY <1>4, <2>2
<1>6. s \in StartsIn(L, c) /\ s \in 1..n
  <2>1. Ascends(starts, n, StartsIn(L, c))
    BY InOrderAscends
  <2> HIDE DEF starts
  <2> QED
    BY <1>2, <2>1 DEF Ascends
<1>7. s \in 1..Len(L)
  BY <1>6, LogFacts
<1>8. Starts(L, s, c, L[s].event.thread)
  BY <1>6, Zenon DEF StartsIn, Starts
<1> QED
  BY <1>2, <1>3, <1>4, <1>5, <1>6, <1>7, <1>8 DEF Slot

\* Two slots in use are of different threads.
Occupies(p, c, i, t) ==
  /\ c \in DOMAIN p.conversations
  /\ i \in 1..p.conversations[c].len
  /\ p.arrays[p.conversations[c].array][i].id = t

\* A thread is in one conversation, at one place.
LEMMA SlotsDiffer ==
  ASSUME NEW p, NEW L, Causal(L), NEW n \in Nat, n <= Len(L), Projected(p, L, n),
         NEW c, NEW i, NEW d, NEW j, NEW t, Occupies(p, c, i, t), Occupies(p, d, j, t)
  PROVE  c = d /\ i = j
<1> DEFINE s == InOrder(n, StartsIn(L, c))[i]
           r == InOrder(n, StartsIn(L, d))[j]
<1>1. /\ s \in 1..Len(L)
      /\ Starts(L, s, c, L[s].event.thread)
      /\ p.arrays[p.conversations[c].array][i].id = L[s].event.thread
      /\ p.conversations[c].len = Len(InOrder(n, StartsIn(L, c)))
  <2>1. Slot(p, L, n, c, i)
    BY SlotFacts DEF Occupies
  <2> QED
    BY <2>1 DEF Slot
<1>2. /\ r \in 1..Len(L)
      /\ Starts(L, r, d, L[r].event.thread)
      /\ p.arrays[p.conversations[d].array][j].id = L[r].event.thread
      /\ p.conversations[d].len = Len(InOrder(n, StartsIn(L, d)))
  <2>1. Slot(p, L, n, d, j)
    BY SlotFacts DEF Occupies
  <2> QED
    BY <2>1 DEF Slot
<1>3. s = r
  <2> HIDE DEF s, r
  <2> QED
    BY <1>1, <1>2, StartedOnce DEF Starts, Occupies
<1>4. c = d
  BY <1>1, <1>2, <1>3 DEF Starts
<1>5. i = j
  <2> DEFINE starts == InOrder(n, StartsIn(L, c))
  <2>1. Ascends(starts, n, StartsIn(L, c))
    BY InOrderAscends
  <2>2. i \in 1..Len(starts) /\ j \in 1..Len(starts) /\ starts[i] = starts[j]
    BY <1>1, <1>2, <1>3, <1>4 DEF Occupies
  <2> HIDE DEF starts
  <2>3. Len(starts) \in Nat /\ starts[i] \in Nat /\ starts[j] \in Nat
    BY <2>1, <2>2 DEF Ascends
  <2>4. ~ (i < j) /\ ~ (j < i)
    BY <2>1, <2>2, <2>3 DEF Ascends
  <2> QED
    BY <2>2, <2>3, <2>4
<1> QED
  BY <1>4, <1>5

\* The loop over the threads finds the one that was started.
LEMMA FindsThread ==
  ASSUME NEW p, NEW L, Causal(L), NEW n \in Nat, n <= Len(L), Projected(p, L, n),
         NEW e, NEW s \in 1..n, Starts(L, s, e.conversation, e.thread)
  PROVE  Located(p, L, n, e.conversation, e.thread, ViewOf(p, e.conversation).array, IndexOf(p, e))
<1> DEFINE c == e.conversation
           t == e.thread
           v == p.conversations[c]
           starts == InOrder(n, StartsIn(L, c))
           threads == ThreadsIn(p, v)
           found == {i \in 1..Len(threads) : threads[i].id = t}
<1>1. s \in 1..Len(L)
  BY LogFacts
<1>2. c \in DOMAIN p.conversations
  <2>1. Rooted(L, s)
    BY <1>1 DEF Causal
  <2>2. PICK r \in 1..(s - 1) : Creates(L, r, c)
    BY <2>1 DEF Rooted, Starts
  <2>3. r \in 1..n
    OBVIOUS
  <2>4. c \in {L[w].event.conversation : w \in {q \in 1..n : L[q].event.type = "ConversationCreated"}}
    BY <2>2, <2>3 DEF Creates
  <2> QED
    BY <2>4 DEF Projected, ConversationsOK
<1>3. ViewOf(p, c) = v
  BY <1>2 DEF ViewOf
<1>4. ShapeOK(p) /\ ViewOK(p, v) /\ ListOK(p, L, n, c)
  BY <1>2 DEF Projected, ShapeOK
<1>5. /\ v.len \in Nat /\ Len(threads) = v.len
      /\ \A i \in 1..v.len : threads[i] = p.arrays[v.array][i]
  <2> HIDE DEF v
  <2> QED
    BY <1>4, ViewShows
<1>6. PICK k \in 1..Len(starts) : starts[k] = s
  <2>1. Ascends(starts, n, StartsIn(L, c))
    BY InOrderAscends
  <2>2. s \in StartsIn(L, c)
    BY <1>1, LogFacts DEF Starts, StartsIn
  <2> HIDE DEF starts
  <2> QED
    BY <2>1, <2>2 DEF Ascends
<1>7. k \in 1..v.len
  BY <1>4, <1>6 DEF ListOK
<1>8. p.arrays[v.array][k].id = t
  <2>1. p.arrays[v.array][k].id = L[starts[k]].event.thread
    <3>1. Slot(p, L, n, c, k)
      BY <1>2, <1>7, SlotFacts
    <3> QED
      BY <3>1, Zenon DEF Slot
  <2>2. L[s].event.thread = t
    BY DEF Starts
  <2> QED
    BY <1>6, <2>1, <2>2
<1>9. k \in found
  BY <1>5, <1>7, <1>8
<1>10. IndexOf(p, e) = Min(found)
  <2>1. found # {}
    BY <1>9
  <2> QED
    BY <1>3, <2>1 DEF IndexOf, SelectInSeq
<1>11. Min(found) \in found
  <2>1. found \subseteq Nat /\ found # {}
    BY <1>5, <1>9
  <2> HIDE DEF found
  <2>2. \E m \in found : \A x \in found : m <= x
    BY <2>1, LeastNumber
  <2> QED
    BY <2>2 DEF Min
<1> DEFINE i == Min(found)
<1>12. i \in 1..v.len /\ p.arrays[v.array][i].id = t
  <2>1. i \in 1..Len(threads) /\ threads[i].id = t
    BY <1>11, Zenon
  <2> HIDE DEF i, threads
  <2> QED
    BY <2>1, <1>5
<1> HIDE DEF found, threads
<1> HIDE DEF i
<1>13. /\ v.array \in 1..Len(p.arrays) /\ i \in 1..Len(p.arrays[v.array])
       /\ p.arrays[v.array][i].id = L[starts[i]].event.thread
  <2>1. Slot(p, L, n, c, i)
    BY <1>2, <1>12, SlotFacts
  <2> QED
    BY <2>1, Zenon DEF Slot
<1>14. Located(p, L, n, c, t, v.array, i)
  BY <1>2, <1>12, <1>13 DEF Located
<1>15. ViewOf(p, c).array = v.array /\ IndexOf(p, e) = i
  BY <1>3, <1>10 DEF i
<1> QED
  BY <1>14, <1>15

-----------------------------------------------------------------------------
\* The events of one type, one number later.
LEMMA OfTypeLater ==
  ASSUME NEW L, NEW n \in Nat, NEW type
  PROVE  /\ L[n + 1].event.type # type =>
              {r \in 1..(n + 1) : L[r].event.type = type} = {r \in 1..n : L[r].event.type = type}
         /\ L[n + 1].event.type = type =>
              {r \in 1..(n + 1) : L[r].event.type = type}
                = {r \in 1..n : L[r].event.type = type} \cup {n + 1}
<1>1. 1..(n + 1) = (1..n) \cup {n + 1}
  OBVIOUS
<1> QED
  BY <1>1, Zenon

\* A slot stays right if the next event is no message to its thread.
LEMMA SlotLater ==
  ASSUME NEW p, NEW q, NEW L, NEW n \in Nat, NEW c, NEW s, NEW thread,
         SlotOK(p, L, n, c, s, thread), q.threadSequences = p.threadSequences,
         n + 1 \notin PostsIn(L, c, L[s].event.thread)
  PROVE  SlotOK(q, L, n + 1, c, s, thread)
<1>1. InOrder(n + 1, PostsIn(L, c, L[s].event.thread)) = InOrder(n, PostsIn(L, c, L[s].event.thread))
  BY InOrderStep
<1> QED
  BY <1>1 DEF SlotOK

\* A list in order only grows.
LEMMA InOrderExtends ==
  ASSUME NEW n \in Nat, NEW S
  PROVE  Extends(InOrder(n, S), InOrder(n + 1, S))
<1> DEFINE s == InOrder(n, S)
           t == InOrder(n + 1, S)
<1>1. IsList(s) /\ IsList(t)
  <2>1. Ascends(s, n, S) /\ Ascends(t, n + 1, S)
    BY InOrderAscends, n + 1 \in Nat
  <2> HIDE DEF s, t
  <2> QED
    BY <2>1, SeqIsList DEF Ascends
<1>2. t = s \/ t = Append(s, n + 1)
  BY InOrderStep
<1> HIDE DEF s, t
<1>3. CASE t = s
  <2>1. Len(s) \in Nat
    BY <1>1, ListFacts
  <2> QED
    BY <1>1, <1>3, <2>1 DEF Extends, s, t
<1>4. CASE t = Append(s, n + 1)
  <2>1. Len(s) \in Nat
    BY <1>1, ListFacts
  <2>2. Len(t) = Len(s) + 1 /\ \A j \in 1..Len(s) : t[j] = s[j]
    BY <1>1, <1>4, ListAppend
  <2>3. Extends(s, t)
    BY <1>1, <2>1, <2>2 DEF Extends
  <2> QED
    BY <2>3 DEF s, t
<1> QED
  BY <1>2, <1>3, <1>4

\* An event about a thread rewrites the slot of the thread.
LEMMA WriteStep ==
  ASSUME NEW L, Causal(L), NEW n \in Nat, n + 1 \in 1..Len(L), NEW p, Projected(p, L, n),
         L[n + 1].event.type \notin {"ConversationCreated", "ThreadStarted"},
         NEW a, NEW i,
         Located(p, L, n, L[n + 1].event.conversation, L[n + 1].event.thread, a, i),
         NEW q, NEW x, Writes(p, q, a, i, x), LatestOK(q, L, n + 1),
         x.id = L[n + 1].event.thread,
         x.messages = InOrder(n + 1, PostsIn(L, L[n + 1].event.conversation, L[n + 1].event.thread)),
         x = [id |-> x.id, participants |-> x.participants, messages |-> x.messages]
  PROVE  Projected(q, L, n + 1) /\ Advances(p, q)
<1> DEFINE c == L[n + 1].event.conversation
           t == L[n + 1].event.thread
           old == p.arrays[a][i]
<1>1. n <= Len(L) /\ Len(L) \in Nat /\ n + 1 \in Nat
  BY LogFacts
<1>2. /\ c \in DOMAIN p.conversations
      /\ p.conversations[c].array = a
      /\ a \in 1..Len(p.arrays)
      /\ i \in 1..p.conversations[c].len
      /\ i \in 1..Len(p.arrays[a])
      /\ old.id = t
  BY DEF Located
<1>3. ShapeOK(p) /\ ConversationsOK(p, L, n) /\ \A d \in DOMAIN p.conversations : ListOK(p, L, n, d)
  BY DEF Projected
<1>4. ShapeOK(q) /\ Rewritten(p, q, a, i, x)
  BY <1>2, <1>3, WriteFacts
<1>5. ConversationsOK(q, L, n + 1)
  <2>1. {r \in 1..(n + 1) : L[r].event.type = "ConversationCreated"}
          = {r \in 1..n : L[r].event.type = "ConversationCreated"}
    BY OfTypeLater
  <2> QED
    BY <1>3, <1>4, <2>1 DEF ConversationsOK, Rewritten
<1>6. Slot(p, L, n, c, i)
  BY <1>1, <1>2, SlotFacts
<1>7. ASSUME NEW d \in DOMAIN p.conversations
      PROVE  ListOK(q, L, n + 1, d)
  <2> DEFINE starts == InOrder(n, StartsIn(L, d))
             b == p.conversations[d].array
  <2>1. InOrder(n + 1, StartsIn(L, d)) = starts
    <3>1. n + 1 \notin StartsIn(L, d)
      BY DEF StartsIn
    <3> QED
      BY <3>1, InOrderStep
  <2>2. p.conversations[d].len = Len(starts)
    BY <1>3 DEF ListOK
  <2>3. ASSUME NEW j \in 1..Len(starts)
        PROVE  SlotOK(q, L, n + 1, d, starts[j], q.arrays[b][j])
    <3>1. j \in 1..p.conversations[d].len
      BY <2>2
    <3>2. Slot(p, L, n, d, j)
      BY <1>1, <3>1, SlotFacts
    <3>3. /\ SlotOK(p, L, n, d, starts[j], p.arrays[b][j])
          /\ b \in 1..Len(p.arrays) /\ j \in 1..Len(p.arrays[b])
          /\ p.arrays[b][j].id = L[starts[j]].event.thread
      BY <3>2, Zenon DEF Slot
    <3>4. CASE d = c /\ j = i
      <4>1. q.arrays[b][j] = x
        BY <1>2, <1>4, <3>3, <3>4, Zenon DEF Rewritten
      <4>2. L[starts[j]].event.thread = t
        BY <1>2, <3>3, <3>4, Zenon
      <4>3. q.threadSequences = p.threadSequences
        BY <1>4 DEF Rewritten
      <4>4. x = [id |-> t, participants |-> x.participants,
                 messages |-> InOrder(n + 1, PostsIn(L, c, t))]
        OBVIOUS
      <4> HIDE DEF starts, b, t
      <4> QED
        BY <3>3, <3>4, <4>1, <4>2, <4>3, <4>4 DEF SlotOK
    <3>5. CASE ~ (d = c /\ j = i)
      <4>1. p.arrays[b][j].id # t
        <5> SUFFICES ASSUME p.arrays[b][j].id = t PROVE FALSE
          OBVIOUS
        <5>1. Occupies(p, d, j, t) /\ Occupies(p, c, i, t)
          BY <1>2, <3>1 DEF Occupies
        <5> HIDE DEF c, t, b, old
        <5>3. d = c /\ j = i
          BY <1>1, <5>1, SlotsDiffer
        <5> QED
          BY <3>5, <5>3
      <4>2. b # a \/ j # i
        BY <1>2, <4>1
      <4>3. q.arrays[b][j] = p.arrays[b][j]
        BY <1>4, <3>3, <4>2 DEF Rewritten
      <4>4. n + 1 \notin PostsIn(L, d, L[starts[j]].event.thread)
        BY <3>3, <4>1, Zenon DEF PostsIn
      <4>5. q.threadSequences = p.threadSequences
        BY <1>4 DEF Rewritten
      <4> HIDE DEF starts, b
      <4> QED
        BY <3>3, <4>3, <4>4, <4>5, SlotLater
    <3> QED
      BY <3>4, <3>5
  <2>4. q.conversations = p.conversations
    BY <1>4 DEF Rewritten
  <2> QED
    BY <2>1, <2>2, <2>3, <2>4 DEF ListOK
<1>8. Projected(q, L, n + 1)
  BY <1>4, <1>5, <1>7 DEF Projected, Rewritten
<1>9. Extends(old.messages, x.messages)
  <2>1. old.messages = InOrder(n, PostsIn(L, c, t))
    <3>1. SlotOK(p, L, n, c, InOrder(n, StartsIn(L, c))[i], old)
      BY <1>2, <1>6, Zenon DEF Slot
    <3>2. L[InOrder(n, StartsIn(L, c))[i]].event.thread = t
      BY DEF Located
    <3> HIDE DEF old
    <3> QED
      BY <3>1, <3>2 DEF SlotOK
  <2> QED
    BY <2>1, InOrderExtends
<1>10. Advances(p, q)
  <2>1. Len(p.arrays) \in Nat
    BY <1>3, ListFacts DEF ShapeOK
  <2>2. ASSUME NEW b \in 1..Len(p.arrays), NEW j \in 1..Len(p.arrays[b])
        PROVE  \/ q.arrays[b][j] = p.arrays[b][j]
               \/ /\ q.arrays[b][j].id = p.arrays[b][j].id
                  /\ Extends(p.arrays[b][j].messages, q.arrays[b][j].messages)
    BY <1>2, <1>4, <1>9 DEF Rewritten
  <2>3. ASSUME NEW d \in DOMAIN q.conversations
        PROVE  /\ d \in DOMAIN p.conversations
               /\ p.conversations[d].array = q.conversations[d].array
               /\ p.conversations[d].len <= q.conversations[d].len
    <3>1. d \in DOMAIN p.conversations /\ q.conversations = p.conversations
      BY <1>4 DEF Rewritten
    <3>2. ViewOK(p, p.conversations[d])
      BY <1>3, <3>1 DEF ShapeOK
    <3>3. p.conversations[d].len \in Nat
      BY <1>3, <3>2, ViewShows
    <3> QED
      BY <3>1, <3>3
  <2>4. Len(q.arrays) = Len(p.arrays) /\ \A b \in 1..Len(p.arrays) : Len(q.arrays[b]) = Len(p.arrays[b])
    BY <1>4 DEF Rewritten
  <2> QED
    BY <2>1, <2>2, <2>3, <2>4 DEF Advances
<1> QED
  BY <1>8, <1>10

-----------------------------------------------------------------------------
\* applyMessagePosted, field by field.
LEMMA PostedFields ==
  ASSUME NEW p, ShapeOK(p), NEW e, NEW seq, NEW at, NEW a, NEW i,
         a = ViewOf(p, e.conversation).array, i = IndexOf(p, e)
  PROVE  LET q == ApplyMessagePosted(p, e, seq, at)
             old == p.arrays[a][i]
         IN  /\ Writes(p, q, a, i, [old EXCEPT !.messages = Append(old.messages, seq)])
             /\ q.latestMessageAt = Put(p.latestMessageAt, e.thread,
                                        LatestAt(Entry(p.latestMessageAt, e.thread, 0), at))
<1> DEFINE old == p.arrays[a][i]
           x == [old EXCEPT !.messages = Append(old.messages, seq)]
           arrays == [p.arrays EXCEPT ![a] = [p.arrays[a] EXCEPT ![i] = x]]
           latest == Put(p.latestMessageAt, e.thread,
                         LatestAt(Entry(p.latestMessageAt, e.thread, 0), at))
           q == ApplyMessagePosted(p, e, seq, at)
<1>1. q = [p EXCEPT !.arrays = arrays, !.latestMessageAt = latest]
  BY DEF ApplyMessagePosted, ShapeOK
<1>2. p = [conversations |-> p.conversations, arrays |-> p.arrays,
           threadSequences |-> p.threadSequences, latestMessageAt |-> p.latestMessageAt]
  BY DEF ShapeOK
<1> HIDE DEF q, arrays, latest
<1>3. q = [conversations |-> p.conversations, arrays |-> arrays,
           threadSequences |-> p.threadSequences, latestMessageAt |-> latest]
  BY <1>1, <1>2
<1>4. /\ q = [conversations |-> p.conversations, arrays |-> q.arrays,
              threadSequences |-> p.threadSequences, latestMessageAt |-> q.latestMessageAt]
      /\ q.arrays = arrays
      /\ q.latestMessageAt = latest
  BY <1>3
<1> QED
  BY <1>4, Zenon DEF Writes, arrays, latest, q

\* changeParticipant, field by field.
LEMMA ChangedFields ==
  ASSUME NEW p, ShapeOK(p), NEW e, NEW a, NEW i,
         a = ViewOf(p, e.conversation).array, i = IndexOf(p, e)
  PROVE  LET q == ChangeParticipant(p, e)
             old == p.arrays[a][i]
         IN  /\ Writes(p, q, a, i, [old EXCEPT !.participants =
                  IF e.type = "ParticipantAdded" THEN Append(old.participants, e.participant)
                  ELSE Without(old.participants, e.participant)])
             /\ q.latestMessageAt = p.latestMessageAt
<1> DEFINE old == p.arrays[a][i]
           x == [old EXCEPT !.participants =
                  IF e.type = "ParticipantAdded" THEN Append(old.participants, e.participant)
                  ELSE Without(old.participants, e.participant)]
           arrays == [p.arrays EXCEPT ![a] = [p.arrays[a] EXCEPT ![i] = x]]
           q == ChangeParticipant(p, e)
<1>1. q = [p EXCEPT !.arrays = arrays]
  BY DEF ChangeParticipant, ShapeOK
<1>2. p = [conversations |-> p.conversations, arrays |-> p.arrays,
           threadSequences |-> p.threadSequences, latestMessageAt |-> p.latestMessageAt]
  BY DEF ShapeOK
<1> HIDE DEF q, arrays
<1>3. q = [conversations |-> p.conversations, arrays |-> arrays,
           threadSequences |-> p.threadSequences, latestMessageAt |-> p.latestMessageAt]
  BY <1>1, <1>2
<1>4. /\ q = [conversations |-> p.conversations, arrays |-> q.arrays,
              threadSequences |-> p.threadSequences, latestMessageAt |-> q.latestMessageAt]
      /\ q.arrays = arrays
      /\ q.latestMessageAt = p.latestMessageAt
  BY <1>3
<1> QED
  BY <1>4, Zenon DEF Writes, arrays, q

-----------------------------------------------------------------------------
\* Other events leave the times as they are.
LEMMA LatestLater ==
  ASSUME NEW L, NEW n \in Nat, NEW p, NEW q, LatestOK(p, L, n),
         q.latestMessageAt = p.latestMessageAt, L[n + 1].event.type # "MessagePosted"
  PROVE  LatestOK(q, L, n + 1)
<1>1. ASSUME NEW s \in 1..(n + 1), L[s].event.type = "MessagePosted"
      PROVE  s \in 1..n
  BY <1>1
<1>2. 1..n \subseteq 1..(n + 1)
  OBVIOUS
<1>3. \A s \in 1..(n + 1) :
       L[s].event.type = "MessagePosted" =>
         /\ L[s].event.thread \in DOMAIN p.latestMessageAt
         /\ p.latestMessageAt[L[s].event.thread] >= L[s].at
  BY <1>1 DEF LatestOK
<1>4. \A t \in DOMAIN p.latestMessageAt :
       \E s \in 1..(n + 1) : /\ L[s].event.type = "MessagePosted"
                             /\ L[s].event.thread = t
                             /\ p.latestMessageAt[t] = L[s].at
  BY <1>2 DEF LatestOK
<1> QED
  BY <1>3, <1>4 DEF LatestOK

\* A message moves its thread's time forward, or leaves it.
LEMMA LatestPosted ==
  ASSUME NEW L, Causal(L), NEW n \in Nat, n + 1 \in 1..Len(L), NEW p, NEW q, LatestOK(p, L, n),
         L[n + 1].event.type = "MessagePosted",
         q.latestMessageAt = Put(p.latestMessageAt, L[n + 1].event.thread,
                                 LatestAt(Entry(p.latestMessageAt, L[n + 1].event.thread, 0), L[n + 1].at))
  PROVE  LatestOK(q, L, n + 1)
<1> DEFINE m == p.latestMessageAt
           t == L[n + 1].event.thread
           at == L[n + 1].at
           z == LatestAt(Entry(m, t, 0), at)
<1>1. \A s \in 1..(n + 1) : L[s].at \in Nat
  <2>1. \A s \in 1..(n + 1) : s \in 1..Len(L)
    BY LogFacts
  <2> QED
    BY <2>1 DEF Causal, Rooted
<1>2. n + 1 \in 1..(n + 1) /\ at \in Nat /\ 1..n \subseteq 1..(n + 1)
  BY <1>1
<1>3. \A u \in DOMAIN m :
        \E s \in 1..n : L[s].event.type = "MessagePosted" /\ L[s].event.thread = u /\ m[u] = L[s].at
  BY DEF LatestOK
<1>4. \A u \in DOMAIN m : m[u] \in Nat
  BY <1>1, <1>2, <1>3
<1> HIDE DEF m, t, at
<1>5. /\ z \in Nat
      /\ z >= at
      /\ t \in DOMAIN m => z >= m[t] /\ z \in {m[t], at}
      /\ t \notin DOMAIN m => z = at
  BY <1>2, <1>4 DEF LatestAt, Entry
<1> HIDE DEF z
<1>6. q.latestMessageAt = Put(m, t, z)
  BY DEF m, t, at, z
<1>7. /\ DOMAIN q.latestMessageAt = DOMAIN m \cup {t}
      /\ q.latestMessageAt[t] = z
      /\ \A u \in DOMAIN m : u # t => q.latestMessageAt[u] = m[u]
  BY <1>6 DEF Put
<1>8. ASSUME NEW s \in 1..(n + 1), L[s].event.type = "MessagePosted"
      PROVE  /\ L[s].event.thread \in DOMAIN q.latestMessageAt
             /\ q.latestMessageAt[L[s].event.thread] >= L[s].at
  <2>1. CASE s = n + 1
    BY <2>1, <1>5, <1>7 DEF t, at
  <2>2. CASE s # n + 1
    <3>1. s \in 1..n
      BY <2>2
    <3>2. L[s].event.thread \in DOMAIN m /\ m[L[s].event.thread] >= L[s].at /\ L[s].at \in Nat
      BY <1>1, <1>8, <3>1 DEF LatestOK, m
    <3>3. CASE L[s].event.thread = t
      <4>1. m[t] >= L[s].at /\ m[t] \in Nat /\ z >= m[t] /\ L[s].at \in Nat
        BY <1>4, <1>5, <3>2, <3>3
      <4>2. z >= L[s].at
        BY <1>5, <4>1
      <4> QED
        BY <3>2, <3>3, <1>7, <4>2
    <3>4. CASE L[s].event.thread # t
      BY <3>2, <3>4, <1>7
    <3> QED
      BY <3>3, <3>4
  <2> QED
    BY <2>1, <2>2
<1>9. ASSUME NEW u \in DOMAIN q.latestMessageAt
      PROVE  \E s \in 1..(n + 1) : /\ L[s].event.type = "MessagePosted"
                                   /\ L[s].event.thread = u
                                   /\ q.latestMessageAt[u] = L[s].at
  <2>1. CASE u # t
    <3>1. u \in DOMAIN m /\ q.latestMessageAt[u] = m[u]
      BY <2>1, <1>7
    <3> QED
      BY <3>1, <1>2, <1>3
  <2>2. CASE u = t /\ z = at
    BY <2>2, <1>2, <1>7 DEF t, at
  <2>3. CASE u = t /\ z # at
    <3>1. t \in DOMAIN m /\ z = m[t]
      BY <2>3, <1>5
    <3> QED
      BY <2>3, <3>1, <1>2, <1>3, <1>7
  <2> QED
    BY <2>1, <2>2, <2>3
<1> QED
  BY <1>8, <1>9 DEF LatestOK

\* What one event does to the projection.
Proceeds(p, q, L, n) ==
  /\ Applicable(p, L[n + 1].event)
  /\ Projected(q, L, n + 1)
  /\ Advances(p, q)

\* An event about a thread finds it in the projection.
LEMMA ThreadIsThere ==
  ASSUME NEW L, Causal(L), NEW n \in Nat, n + 1 \in 1..Len(L), NEW p, Projected(p, L, n),
         L[n + 1].event.type \notin {"ConversationCreated", "ThreadStarted"}
  PROVE  LET e == L[n + 1].event IN
         /\ Located(p, L, n, e.conversation, e.thread, ViewOf(p, e.conversation).array, IndexOf(p, e))
         /\ Applicable(p, e)
<1> DEFINE e == L[n + 1].event
           i == IndexOf(p, e)
           a == ViewOf(p, e.conversation).array
<1>1. n <= Len(L)
  BY LogFacts
<1>2. PICK s \in 1..n : Starts(L, s, e.conversation, e.thread)
  <2>1. (n + 1) - 1 = n
    OBVIOUS
  <2>2. \E s \in 1..((n + 1) - 1) : Starts(L, s, e.conversation, e.thread)
    BY StartedBefore
  <2> QED
    BY <2>1, <2>2
<1>3. Located(p, L, n, e.conversation, e.thread, a, i)
  <2> HIDE DEF e
  <2> QED
    BY <1>1, <1>2, FindsThread
<1>4. i # 0
  <2> HIDE DEF i, a, e
  <2> QED
    BY <1>3 DEF Located
<1>5. Applicable(p, e)
  BY <1>4 DEF Applicable
<1> QED
  BY <1>3, <1>5

\* Apply of MessagePosted takes the projection one event on.
LEMMA PostedStep ==
  ASSUME NEW L, Causal(L), NEW n \in Nat, n + 1 \in 1..Len(L), NEW p, Projected(p, L, n),
         L[n + 1].event.type = "MessagePosted"
  PROVE  Proceeds(p, ApplyMessagePosted(p, L[n + 1].event, n + 1, L[n + 1].at), L, n)
<1> DEFINE e == L[n + 1].event
           c == e.conversation
           t == e.thread
           i == IndexOf(p, e)
           a == ViewOf(p, c).array
           q == ApplyMessagePosted(p, e, n + 1, L[n + 1].at)
           old == p.arrays[a][i]
           x == [old EXCEPT !.messages = Append(old.messages, n + 1)]
<1>1. Located(p, L, n, c, t, a, i) /\ Applicable(p, e)
  BY ThreadIsThere
<1>2. ShapeOK(p) /\ LatestOK(p, L, n) /\ n <= Len(L)
  BY LogFacts DEF Projected
<1>3. /\ Writes(p, q, a, i, x)
      /\ q.latestMessageAt = Put(p.latestMessageAt, t,
                                 LatestAt(Entry(p.latestMessageAt, t, 0), L[n + 1].at))
  <2> DEFINE seq == n + 1
             at == L[n + 1].at
  <2> HIDE DEF seq, at, e
  <2>1. LET r == ApplyMessagePosted(p, e, seq, at) IN
        /\ Writes(p, r, a, i, [old EXCEPT !.messages = Append(old.messages, seq)])
        /\ r.latestMessageAt = Put(p.latestMessageAt, e.thread,
                                   LatestAt(Entry(p.latestMessageAt, e.thread, 0), at))
    BY <1>2, PostedFields
  <2> QED
    BY <2>1, Zenon DEF seq, at
<1>4. LatestOK(q, L, n + 1)
  <2> HIDE DEF q
  <2> QED
    BY <1>2, <1>3, LatestPosted, Zenon
<1>5. old = [id |-> t, participants |-> old.participants, messages |-> InOrder(n, PostsIn(L, c, t))]
  <2> HIDE DEF a, i
  <2>1. Slot(p, L, n, c, i)
    BY <1>1, <1>2, SlotFacts DEF Located
  <2>2. SlotOK(p, L, n, c, InOrder(n, StartsIn(L, c))[i], old)
    BY <1>1, <2>1, Zenon DEF Slot, Located
  <2>3. L[InOrder(n, StartsIn(L, c))[i]].event.thread = t
    BY <1>1 DEF Located
  <2> HIDE DEF old, c, t
  <2> QED
    BY <2>2, <2>3 DEF SlotOK
<1>6. InOrder(n + 1, PostsIn(L, c, t)) = Append(InOrder(n, PostsIn(L, c, t)), n + 1)
  <2>1. n + 1 \in PostsIn(L, c, t)
    BY LogFacts DEF PostsIn
  <2> HIDE DEF c, t
  <2> QED
    BY <2>1, InOrderStep
<1> HIDE DEF old
<1>7. x = [id |-> t, participants |-> old.participants, messages |-> InOrder(n + 1, PostsIn(L, c, t))]
  <2> HIDE DEF c, t
  <2> QED
    BY <1>5, <1>6, SMTT(30)
<1> HIDE DEF x
<1>8. /\ x.id = t
      /\ x.messages = InOrder(n + 1, PostsIn(L, c, t))
      /\ x = [id |-> x.id, participants |-> x.participants, messages |-> x.messages]
  BY <1>7
<1>9. Projected(q, L, n + 1) /\ Advances(p, q)
  <2> HIDE DEF q, a, i
  <2> QED
    BY <1>1, <1>3, <1>4, <1>8, WriteStep
<1> QED
  BY <1>1, <1>9 DEF Proceeds

\* Apply of ParticipantAdded and ParticipantRemoved does, too.
LEMMA ChangedStep ==
  ASSUME NEW L, Causal(L), NEW n \in Nat, n + 1 \in 1..Len(L), NEW p, Projected(p, L, n),
         L[n + 1].event.type \in {"ParticipantAdded", "ParticipantRemoved"}
  PROVE  Proceeds(p, ChangeParticipant(p, L[n + 1].event), L, n)
<1> DEFINE e == L[n + 1].event
           c == e.conversation
           t == e.thread
           i == IndexOf(p, e)
           a == ViewOf(p, c).array
           q == ChangeParticipant(p, e)
           old == p.arrays[a][i]
           members == IF e.type = "ParticipantAdded" THEN Append(old.participants, e.participant)
                      ELSE Without(old.participants, e.participant)
           x == [old EXCEPT !.participants = members]
<1>1. Located(p, L, n, c, t, a, i) /\ Applicable(p, e)
  BY ThreadIsThere
<1>2. ShapeOK(p) /\ LatestOK(p, L, n) /\ n <= Len(L)
  BY LogFacts DEF Projected
<1>3. Writes(p, q, a, i, x) /\ q.latestMessageAt = p.latestMessageAt
  BY <1>2, ChangedFields, Zenon
<1>4. LatestOK(q, L, n + 1)
  <2> HIDE DEF q
  <2> QED
    BY <1>2, <1>3, LatestLater, Zenon
<1>5. old = [id |-> t, participants |-> old.participants, messages |-> InOrder(n, PostsIn(L, c, t))]
  <2> HIDE DEF a, i
  <2>1. Slot(p, L, n, c, i)
    BY <1>1, <1>2, SlotFacts DEF Located
  <2>2. SlotOK(p, L, n, c, InOrder(n, StartsIn(L, c))[i], old)
    BY <1>1, <2>1, Zenon DEF Slot, Located
  <2>3. L[InOrder(n, StartsIn(L, c))[i]].event.thread = t
    BY <1>1 DEF Located
  <2> HIDE DEF old, c, t
  <2> QED
    BY <2>2, <2>3 DEF SlotOK
<1>6. InOrder(n + 1, PostsIn(L, c, t)) = InOrder(n, PostsIn(L, c, t))
  <2>1. n + 1 \notin PostsIn(L, c, t)
    BY DEF PostsIn
  <2> HIDE DEF c, t
  <2> QED
    BY <2>1, InOrderStep
<1> HIDE DEF old, members
<1>7. x = [id |-> t, participants |-> members, messages |-> InOrder(n + 1, PostsIn(L, c, t))]
  <2> HIDE DEF c, t
  <2> QED
    BY <1>5, <1>6
<1> HIDE DEF x
<1>8. /\ x.id = t
      /\ x.messages = InOrder(n + 1, PostsIn(L, c, t))
      /\ x = [id |-> x.id, participants |-> x.participants, messages |-> x.messages]
  BY <1>7
<1>9. Projected(q, L, n + 1) /\ Advances(p, q)
  <2> HIDE DEF q, a, i
  <2> QED
    BY <1>1, <1>3, <1>4, <1>8, WriteStep
<1> QED
  BY <1>1, <1>9 DEF Proceeds

-----------------------------------------------------------------------------
\* Which conversations there are.
LEMMA KnownIsCreated ==
  ASSUME NEW p, NEW L, NEW n, ConversationsOK(p, L, n), NEW c
  PROVE  c \in DOMAIN p.conversations <=> \E s \in 1..n : Creates(L, s, c)
BY DEF ConversationsOK, Creates

\* A conversation that is created now has no thread yet.
LEMMA NothingBefore ==
  ASSUME NEW L, Causal(L), NEW n \in Nat, n + 1 \in 1..Len(L),
         L[n + 1].event.type = "ConversationCreated"
  PROVE  /\ \A s \in 1..n : ~ Creates(L, s, L[n + 1].event.conversation)
         /\ InOrder(n + 1, StartsIn(L, L[n + 1].event.conversation)) = <<>>
<1> DEFINE c == L[n + 1].event.conversation
           starts == InOrder(n + 1, StartsIn(L, c))
<1>1. \A s \in 1..n : ~ Creates(L, s, c)
  <2>1. Rooted(L, n + 1)
    BY DEF Causal
  <2>2. (n + 1) - 1 = n
    OBVIOUS
  <2> QED
    BY <2>1, <2>2 DEF Rooted
<1>2. Ascends(starts, n + 1, StartsIn(L, c))
  BY InOrderAscends, n + 1 \in Nat
<1>3. ASSUME NEW s \in StartsIn(L, c), s \in 1..(n + 1)
      PROVE  FALSE
  <2>1. s \in 1..Len(L) /\ L[s].event.type = "ThreadStarted" /\ L[s].event.conversation = c
    BY LogFacts DEF StartsIn
  <2>2. Rooted(L, s)
    BY <2>1 DEF Causal
  <2>3. PICK r \in 1..(s - 1) : Creates(L, r, c)
    BY <2>1, <2>2 DEF Rooted
  <2>4. r \in 1..n
    BY <1>3
  <2> QED
    BY <1>1, <2>3, <2>4
<1> HIDE DEF starts, c
<1>4. starts \in Seq(Nat) /\ Len(starts) \in Nat
  BY <1>2 DEF Ascends
<1>5. ~ (1 \in 1..Len(starts))
  BY <1>2, <1>3 DEF Ascends
<1>6. starts = <<>>
  BY <1>4, <1>5
<1> QED
  BY <1>1, <1>6 DEF starts, c

\* A slot that an event does not concern, one event later.
LEMMA SlotMoves ==
  ASSUME NEW p, NEW q, NEW L, NEW n \in Nat, NEW c, NEW s, NEW thread,
         SlotOK(p, L, n, c, s, thread),
         n + 1 \notin PostsIn(L, c, L[s].event.thread),
         c \in DOMAIN q.threadSequences,
         L[s].event.thread \in DOMAIN q.threadSequences[c],
         q.threadSequences[c][L[s].event.thread] = p.threadSequences[c][L[s].event.thread]
  PROVE  SlotOK(q, L, n + 1, c, s, thread)
<1>1. InOrder(n + 1, PostsIn(L, c, L[s].event.thread)) = InOrder(n, PostsIn(L, c, L[s].event.thread))
  BY InOrderStep
<1> QED
  BY <1>1 DEF SlotOK

\* Apply of ConversationCreated does: there was no such conversation.
LEMMA CreatedStep ==
  ASSUME NEW L, Causal(L), NEW n \in Nat, n + 1 \in 1..Len(L), NEW p, Projected(p, L, n),
         L[n + 1].event.type = "ConversationCreated"
  PROVE  Proceeds(p, ApplyConversationCreated(p, L[n + 1].event), L, n)
<1> DEFINE c == L[n + 1].event.conversation
           q == ApplyConversationCreated(p, L[n + 1].event)
<1>1. /\ ShapeOK(p) /\ LatestOK(p, L, n) /\ n <= Len(L)
      /\ ConversationsOK(p, L, n) /\ \A d \in DOMAIN p.conversations : ListOK(p, L, n, d)
  BY LogFacts DEF Projected
<1>2. c \notin DOMAIN p.conversations /\ InOrder(n + 1, StartsIn(L, c)) = <<>>
  BY <1>1, KnownIsCreated, NothingBefore
<1>3. q = [conversations |-> Put(p.conversations, c, NoThreads), arrays |-> p.arrays,
           threadSequences |-> p.threadSequences, latestMessageAt |-> p.latestMessageAt]
  BY <1>1 DEF ApplyConversationCreated, ShapeOK
<1> HIDE DEF q
<1>4. /\ q.arrays = p.arrays
      /\ q.threadSequences = p.threadSequences
      /\ q.latestMessageAt = p.latestMessageAt
      /\ q = [conversations |-> q.conversations, arrays |-> q.arrays,
              threadSequences |-> q.threadSequences, latestMessageAt |-> q.latestMessageAt]
      /\ q.conversations = Put(p.conversations, c, NoThreads)
  BY <1>3
<1>5. /\ DOMAIN q.conversations = DOMAIN p.conversations \cup {c}
      /\ q.conversations[c] = NoThreads
      /\ \A d \in DOMAIN p.conversations : q.conversations[d] = p.conversations[d]
  BY <1>2, <1>4 DEF Put
<1>6. ShapeOK(q)
  <2>1. \A d \in DOMAIN q.conversations : ViewOK(q, q.conversations[d])
    <3> SUFFICES ASSUME NEW d \in DOMAIN q.conversations
                 PROVE  ViewOK(q, q.conversations[d])
      OBVIOUS
    <3>1. CASE d = c
      BY <3>1, <1>5 DEF ViewOK
    <3>2. CASE d \in DOMAIN p.conversations
      BY <3>2, <1>1, <1>4, <1>5, Zenon DEF ShapeOK, ViewOK
    <3> QED
      BY <3>1, <3>2, <1>5
  <2>2. NoThreads.array = 0
    BY DEF NoThreads
  <2>3. \A d, f \in DOMAIN q.conversations :
          q.conversations[d].array = q.conversations[f].array => d = f \/ q.conversations[d].array = 0
    <3> SUFFICES ASSUME NEW d \in DOMAIN q.conversations, NEW f \in DOMAIN q.conversations,
                        q.conversations[d].array = q.conversations[f].array
                 PROVE  d = f \/ q.conversations[d].array = 0
      OBVIOUS
    <3>1. CASE d = c \/ f = c
      BY <3>1, <2>2, <1>5
    <3>2. CASE d \in DOMAIN p.conversations /\ f \in DOMAIN p.conversations
      BY <3>2, <1>1, <1>5 DEF ShapeOK
    <3> QED
      BY <3>1, <3>2, <1>5
  <2>4. IsList(q.arrays) /\ \A a \in 1..Len(q.arrays) : IsList(q.arrays[a])
    BY <1>1, <1>4 DEF ShapeOK
  <2> QED
    BY <1>4, <2>1, <2>3, <2>4 DEF ShapeOK
<1>7. ConversationsOK(q, L, n + 1)
  <2>1. {r \in 1..(n + 1) : L[r].event.type = "ConversationCreated"}
          = {r \in 1..n : L[r].event.type = "ConversationCreated"} \cup {n + 1}
    BY OfTypeLater
  <2>2. {L[s].event.conversation : s \in {r \in 1..(n + 1) : L[r].event.type = "ConversationCreated"}}
          = {L[s].event.conversation : s \in {r \in 1..n : L[r].event.type = "ConversationCreated"}}
              \cup {c}
    BY <2>1
  <2> QED
    BY <1>1, <1>5, <2>2 DEF ConversationsOK
<1>8. ASSUME NEW d \in DOMAIN q.conversations
      PROVE  ListOK(q, L, n + 1, d)
  <2>1. CASE d = c
    <3>1. Len(<<>>) = 0 /\ NoThreads.len = 0
      BY DEF NoThreads
    <3>2. \A j \in 1..0 : FALSE
      OBVIOUS
    <3> QED
      BY <2>1, <3>1, <3>2, <1>2, <1>5 DEF ListOK
  <2>2. CASE d \in DOMAIN p.conversations
    <3> DEFINE starts == InOrder(n, StartsIn(L, d))
               v == p.conversations[d]
    <3>1. InOrder(n + 1, StartsIn(L, d)) = starts
      <4>1. n + 1 \notin StartsIn(L, d)
        BY DEF StartsIn
      <4> QED
        BY <4>1, InOrderStep
    <3>2. v.len = Len(starts) /\ \A j \in 1..Len(starts) : SlotOK(p, L, n, d, starts[j], p.arrays[v.array][j])
      BY <1>1, <2>2 DEF ListOK
    <3>3. ASSUME NEW j \in 1..Len(starts)
          PROVE  SlotOK(q, L, n + 1, d, starts[j], p.arrays[v.array][j])
      <4>1. n + 1 \notin PostsIn(L, d, L[starts[j]].event.thread)
        BY DEF PostsIn
      <4> HIDE DEF starts, v
      <4> QED
        BY <1>4, <3>2, <4>1, SlotLater
    <3>4. q.conversations[d] = v /\ q.arrays = p.arrays
      BY <1>4, <1>5, <2>2
    <3> QED
      BY <3>1, <3>2, <3>3, <3>4 DEF ListOK
  <2> QED
    BY <2>1, <2>2, <1>5
<1>9. LatestOK(q, L, n + 1)
  BY <1>1, <1>4, LatestLater
<1>10. Projected(q, L, n + 1)
  BY <1>6, <1>7, <1>8, <1>9 DEF Projected
<1>11. Advances(p, q)
  <2>1. Len(p.arrays) \in Nat
    BY <1>1, ListFacts DEF ShapeOK
  <2>2. ASSUME NEW d \in DOMAIN q.conversations, q.conversations[d].array \in 1..Len(p.arrays)
        PROVE  /\ d \in DOMAIN p.conversations
               /\ p.conversations[d].array = q.conversations[d].array
               /\ p.conversations[d].len <= q.conversations[d].len
    <3>1. d # c
      BY <2>1, <2>2, <1>5 DEF NoThreads
    <3>2. d \in DOMAIN p.conversations /\ q.conversations[d] = p.conversations[d]
      BY <3>1, <1>5
    <3>3. ViewOK(p, p.conversations[d])
      BY <1>1, <3>2 DEF ShapeOK
    <3>4. p.conversations[d].len \in Nat
      BY <1>1, <3>3, ViewShows
    <3> QED
      BY <3>2, <3>4
  <2> QED
    BY <1>4, <2>1, <2>2 DEF Advances
<1>12. Applicable(p, L[n + 1].event)
  BY DEF Applicable
<1> QED
  BY <1>10, <1>11, <1>12 DEF Proceeds, q

-----------------------------------------------------------------------------
\* The threads of a conversation are in array a now, its own or a new one.
Stored(p, q, c, a, threads) ==
  /\ q = [conversations |-> q.conversations, arrays |-> q.arrays,
          threadSequences |-> p.threadSequences, latestMessageAt |-> p.latestMessageAt]
  /\ q.conversations = [p.conversations EXCEPT ![c] = [array |-> a, len |-> Len(threads)]]
  /\ IsList(q.arrays)
  /\ \A b \in 1..Len(q.arrays) : IsList(q.arrays[b])
  /\ Len(p.arrays) <= Len(q.arrays)
  /\ \A b \in 1..Len(p.arrays) :
       /\ Len(q.arrays[b]) = Len(p.arrays[b])
       /\ b # a => q.arrays[b] = p.arrays[b]
  /\ a \in 1..Len(q.arrays)
  /\ Len(threads) \in 1..Len(q.arrays[a])
  /\ \A j \in 1..Len(threads) : q.arrays[a][j] = threads[j]
  /\ \/ a \in 1..Len(p.arrays) /\ p.conversations[c].array = a
     \/ a = Len(p.arrays) + 1

\* append writes into the array of the view ...
LEMMA StoredInPlace ==
  ASSUME NEW p, ShapeOK(p), NEW c \in DOMAIN p.conversations, NEW threads, IsList(threads),
         Len(threads) # 0, Len(threads) <= Capacity(p, p.conversations[c])
  PROVE  Stored(p, StoreThreads(p, c, p.conversations[c], threads), c,
                p.conversations[c].array, threads)
<1> DEFINE v == p.conversations[c]
           a == v.array
           n == Len(threads)
           row == [i \in DOMAIN p.arrays[a] |-> IF i <= n THEN threads[i] ELSE p.arrays[a][i]]
           arrays == [p.arrays EXCEPT ![a] = row]
           views == [p.conversations EXCEPT ![c] = [array |-> a, len |-> n]]
           q == StoreThreads(p, c, v, threads)
<1>1. n \in Nat /\ n # 0
  BY ListFacts
<1>2. ViewOK(p, v)
  BY DEF ShapeOK
<1>3. a # 0 /\ Capacity(p, v) = Len(p.arrays[a])
  BY <1>1 DEF Capacity
<1>4. v = [array |-> a, len |-> v.len] /\ a \in 1..Len(p.arrays)
  BY <1>2, <1>3 DEF ViewOK, NoThreads
<1>5. q = [p EXCEPT !.arrays = arrays, !.conversations = views]
  <2>1. [v EXCEPT !.len = n] = [array |-> a, len |-> n]
    <3> HIDE DEF a, n
    <3>1. v = [array |-> a, len |-> v.len]
      BY <1>4
    <3> HIDE DEF v
    <3> QED
      BY <3>1
  <2>2. q = [p EXCEPT !.arrays = arrays, !.conversations = [p.conversations EXCEPT ![c] = [v EXCEPT !.len = n]]]
    BY <1>3 DEF StoreThreads, ShapeOK
  <2> QED
    BY <2>1, <2>2
<1>6. p = [conversations |-> p.conversations, arrays |-> p.arrays,
           threadSequences |-> p.threadSequences, latestMessageAt |-> p.latestMessageAt]
  BY DEF ShapeOK
<1>7. IsList(p.arrays) /\ \A b \in 1..Len(p.arrays) : IsList(p.arrays[b])
  BY DEF ShapeOK
<1>8. IsList(row) /\ Len(row) = Len(p.arrays[a])
      /\ \A j \in 1..Len(p.arrays[a]) : row[j] = IF j <= n THEN threads[j] ELSE p.arrays[a][j]
  <2>1. Len(p.arrays[a]) \in Nat /\ DOMAIN p.arrays[a] = 1..Len(p.arrays[a])
    BY <1>4, <1>7, ListFacts
  <2>2. DOMAIN row = 1..Len(p.arrays[a]) /\ row = [j \in 1..Len(p.arrays[a]) |-> row[j]]
    BY <2>1
  <2>3. \A j \in 1..Len(p.arrays[a]) : row[j] = IF j <= n THEN threads[j] ELSE p.arrays[a][j]
    BY <2>1
  <2> HIDE DEF row
  <2> QED
    BY <2>1, <2>2, <2>3, FunctionIsList, Zenon
<1> HIDE DEF row
<1>9. Overwritten(p.arrays, a, row, arrays)
  <2> DEFINE all == p.arrays
  <2>1. IsList(all) /\ a \in 1..Len(all)
    BY <1>4, <1>7
  <2> HIDE DEF all, a
  <2>2. Overwritten(all, a, row, [all EXCEPT ![a] = row])
    BY <2>1, ListWrite
  <2> QED
    BY <2>2 DEF all
<1> HIDE DEF q, arrays, views
<1>10. q = [conversations |-> views, arrays |-> arrays,
            threadSequences |-> p.threadSequences, latestMessageAt |-> p.latestMessageAt]
  BY <1>5, <1>6
<1>11. q.conversations = views /\ q.arrays = arrays
       /\ q = [conversations |-> q.conversations, arrays |-> q.arrays,
               threadSequences |-> p.threadSequences, latestMessageAt |-> p.latestMessageAt]
  BY <1>10
<1>12. /\ IsList(arrays) /\ Len(arrays) = Len(p.arrays) /\ Len(p.arrays) \in Nat
       /\ arrays[a] = row
       /\ \A b \in 1..Len(p.arrays) : b # a => arrays[b] = p.arrays[b]
  BY <1>4, <1>7, <1>9, ListFacts DEF Overwritten
<1>13. \A b \in 1..Len(arrays) : IsList(arrays[b])
  BY <1>7, <1>8, <1>12
<1>14. \A b \in 1..Len(p.arrays) : Len(arrays[b]) = Len(p.arrays[b])
  BY <1>8, <1>12
<1>15. n \in 1..Len(arrays[a]) /\ \A j \in 1..n : arrays[a][j] = threads[j]
  <2>1. Len(p.arrays[a]) \in Nat /\ n <= Len(p.arrays[a])
    BY <1>3, <1>4, <1>7, ListFacts
  <2> QED
    BY <1>1, <1>8, <1>12, <2>1
<1>16. Stored(p, q, c, a, threads)
  BY <1>4, <1>11, <1>12, <1>13, <1>14, <1>15 DEF Stored, views
<1> QED
  BY <1>16 DEF q

\* ... or into a new one.
LEMMA StoredAnew ==
  ASSUME NEW p, ShapeOK(p), NEW c \in DOMAIN p.conversations, NEW threads, IsList(threads),
         Len(threads) # 0, ~ (Len(threads) <= Capacity(p, p.conversations[c]))
  PROVE  Stored(p, StoreThreads(p, c, p.conversations[c], threads), c,
                Len(p.arrays) + 1, threads)
<1> DEFINE v == p.conversations[c]
           a == Len(p.arrays) + 1
           n == Len(threads)
           room == IF n = 1 THEN 1 ELSE 2 * (n - 1)
           row == [i \in 1..room |-> IF i <= n THEN threads[i] ELSE Nil]
           arrays == Append(p.arrays, row)
           views == [p.conversations EXCEPT ![c] = [array |-> a, len |-> n]]
           q == StoreThreads(p, c, v, threads)
<1>1. n \in Nat /\ n # 0
  BY ListFacts
<1>2. q = [p EXCEPT !.arrays = arrays, !.conversations = views]
  BY DEF StoreThreads
<1>3. p = [conversations |-> p.conversations, arrays |-> p.arrays,
           threadSequences |-> p.threadSequences, latestMessageAt |-> p.latestMessageAt]
  BY DEF ShapeOK
<1>4. IsList(p.arrays) /\ \A b \in 1..Len(p.arrays) : IsList(p.arrays[b])
  BY DEF ShapeOK
<1>5. room \in Nat /\ n <= room
  <2>1. ASSUME NEW m \in Nat, m # 0, m # 1
        PROVE  2 * (m - 1) \in Nat /\ m <= 2 * (m - 1)
    BY <2>1
  <2> HIDE DEF n
  <2>2. CASE n = 1
    BY <2>2
  <2>3. CASE n # 1
    BY <1>1, <2>1, <2>3
  <2> QED
    BY <2>2, <2>3
<1>6. IsList(row) /\ Len(row) = room /\ \A j \in 1..n : row[j] = threads[j]
  <2> HIDE DEF room
  <2>1. DOMAIN row = 1..room /\ row = [i \in 1..room |-> row[i]]
    OBVIOUS
  <2>2. \A j \in 1..n : row[j] = threads[j]
    BY <1>1, <1>5
  <2> HIDE DEF row
  <2> QED
    BY <1>5, <2>1, <2>2, FunctionIsList
<1> HIDE DEF row, room
<1>7. /\ IsList(arrays) /\ Len(arrays) = Len(p.arrays) + 1 /\ Len(p.arrays) \in Nat
      /\ arrays[a] = row
      /\ \A b \in 1..Len(p.arrays) : arrays[b] = p.arrays[b]
  BY <1>4, ListAppend, ListFacts
<1> HIDE DEF q, arrays, views
<1>8. q = [conversations |-> views, arrays |-> arrays,
           threadSequences |-> p.threadSequences, latestMessageAt |-> p.latestMessageAt]
  BY <1>2, <1>3
<1>9. q.conversations = views /\ q.arrays = arrays
      /\ q = [conversations |-> q.conversations, arrays |-> q.arrays,
              threadSequences |-> p.threadSequences, latestMessageAt |-> p.latestMessageAt]
  BY <1>8
<1>10. \A b \in 1..Len(arrays) : IsList(arrays[b])
  <2> SUFFICES ASSUME NEW b \in 1..Len(arrays) PROVE IsList(arrays[b])
    OBVIOUS
  <2>1. b = a \/ b \in 1..Len(p.arrays)
    BY <1>7
  <2> QED
    BY <1>4, <1>6, <1>7, <2>1
<1>11. /\ Len(p.arrays) <= Len(arrays) /\ a \in 1..Len(arrays)
       /\ n \in 1..Len(arrays[a])
  BY <1>1, <1>5, <1>6, <1>7
<1>12. \A j \in 1..n : arrays[a][j] = threads[j]
  BY <1>6, <1>7
<1>13. Stored(p, q, c, a, threads)
  BY <1>7, <1>9, <1>10, <1>11, <1>12 DEF Stored, views
<1> QED
  BY <1>13 DEF q

-----------------------------------------------------------------------------
\* A thread that is started now has neither been started nor posted to.
LEMMA FreshThread ==
  ASSUME NEW L, Causal(L), NEW n \in Nat, n + 1 \in 1..Len(L),
         L[n + 1].event.type = "ThreadStarted"
  PROVE  /\ \A s \in 1..n : L[s].event.type = "ThreadStarted" => L[s].event.thread # L[n + 1].event.thread
         /\ \E s \in 1..n : Creates(L, s, L[n + 1].event.conversation)
         /\ \A c : InOrder(n + 1, PostsIn(L, c, L[n + 1].event.thread)) = <<>>
<1> DEFINE t == L[n + 1].event.thread
<1>1. /\ \A s \in 1..n : L[s].event.type = "ThreadStarted" => L[s].event.thread # t
      /\ \E s \in 1..n : Creates(L, s, L[n + 1].event.conversation)
  <2>1. Rooted(L, n + 1)
    BY DEF Causal
  <2>2. (n + 1) - 1 = n
    OBVIOUS
  <2> QED
    BY <2>1, <2>2 DEF Rooted
<1>2. ASSUME NEW c
      PROVE  InOrder(n + 1, PostsIn(L, c, t)) = <<>>
  <2> DEFINE posts == InOrder(n + 1, PostsIn(L, c, t))
  <2>1. Ascends(posts, n + 1, PostsIn(L, c, t))
    BY InOrderAscends, n + 1 \in Nat
  <2>2. ASSUME NEW s \in PostsIn(L, c, t), s \in 1..(n + 1)
        PROVE  FALSE
    <3>1. /\ s \in 1..Len(L) /\ L[s].event.type = "MessagePosted"
          /\ L[s].event.thread = t
      BY LogFacts DEF PostsIn
    <3>2. PICK r \in 1..(s - 1) : Starts(L, r, L[s].event.conversation, L[s].event.thread)
      BY <3>1, StartedBefore
    <3>3. r \in 1..n
      BY <2>2
    <3> QED
      BY <1>1, <3>1, <3>2, <3>3 DEF Starts
  <2> HIDE DEF posts, t
  <2>3. posts \in Seq(Nat) /\ Len(posts) \in Nat
    BY <2>1 DEF Ascends
  <2>4. ~ (1 \in 1..Len(posts))
    BY <2>1, <2>2 DEF Ascends
  <2>5. posts = <<>>
    BY <2>3, <2>4
  <2> QED
    BY <2>5 DEF posts
<1> QED
  BY <1>1, <1>2

\* The map of sequences that the new thread is entered into.
NewSequences(p, c, t, seq) == Put(Entry(p.threadSequences, c, <<>>), t, seq)

NewThreads(p, e) ==
  Append(ThreadsIn(p, p.conversations[e.conversation]),
         [id |-> e.thread, participants |-> Participants(e), messages |-> <<>>])

Sequenced(p, c, sequences) == [p EXCEPT !.threadSequences = Put(p.threadSequences, c, sequences)]

\* The threads that were there, in their order, and the new one behind them.
ListGrows(p, L, n, e) ==
  LET c == e.conversation
      k == p.conversations[c].len
      threads == NewThreads(p, e)
      starts == InOrder(n + 1, StartsIn(L, c))
      sequences == NewSequences(p, c, e.thread, n + 1)
  IN  /\ c \in DOMAIN p.conversations
      /\ k \in Nat /\ IsList(threads) /\ Len(threads) = k + 1
      /\ Len(starts) = k + 1
      /\ threads[k + 1] = [id |-> e.thread, participants |-> Participants(e), messages |-> <<>>]
      /\ starts[k + 1] = n + 1
      /\ \A i \in 1..k : /\ threads[i] = p.arrays[p.conversations[c].array][i]
                         /\ starts[i] = InOrder(n, StartsIn(L, c))[i]
      /\ \A i \in 1..(k + 1) : /\ threads[i].id \in DOMAIN sequences
                               /\ sequences[threads[i].id] = starts[i]
                               /\ starts[i] \in Nat
      /\ \A i, j \in 1..(k + 1) : i < j => starts[i] < starts[j]

\* A new thread goes to the end of its conversation, and is in order there.
LEMMA NewThreadsFacts ==
  ASSUME NEW L, Causal(L), NEW n \in Nat, n + 1 \in 1..Len(L), NEW p, Projected(p, L, n),
         NEW e, e = L[n + 1].event, e.type = "ThreadStarted"
  PROVE  ListGrows(p, L, n, e)
<1> DEFINE c == e.conversation
           t == e.thread
           v == p.conversations[c]
           k == v.len
           list == ThreadsIn(p, v)
           new == [id |-> t, participants |-> Participants(e), messages |-> <<>>]
           threads == NewThreads(p, e)
           old == InOrder(n, StartsIn(L, c))
           starts == InOrder(n + 1, StartsIn(L, c))
           sequences == NewSequences(p, c, t, n + 1)
<1>1. n <= Len(L) /\ n + 1 \in Nat /\ n + 1 \in DOMAIN L /\ Len(L) \in Nat
  BY LogFacts
<1>2. c \in DOMAIN p.conversations
  BY FreshThread, KnownIsCreated DEF Projected
<1>3. ShapeOK(p) /\ ViewOK(p, v) /\ ListOK(p, L, n, c)
  BY <1>2 DEF Projected, ShapeOK
<1>4. /\ k \in Nat /\ IsList(list) /\ Len(list) = k
      /\ \A i \in 1..k : list[i] = p.arrays[v.array][i]
  <2> HIDE DEF v
  <2> QED
    BY <1>3, ViewShows
<1>5. threads = Append(list, new)
  BY DEF NewThreads
<1>6. /\ IsList(threads) /\ Len(threads) = k + 1 /\ threads[k + 1] = new
      /\ \A i \in 1..k : threads[i] = list[i]
  <2> HIDE DEF list, new, k, threads
  <2>1. IsList(list) /\ Len(list) = k
    BY <1>4, Zenon
  <2>2. /\ IsList(threads) /\ Len(threads) = Len(list) + 1 /\ threads[Len(list) + 1] = new
        /\ \A i \in 1..Len(list) : threads[i] = list[i]
    BY <2>1, <1>5, ListAppend, Zenon
  <2> QED
    BY <2>1, <2>2, Zenon
<1>7. k = Len(old)
  BY <1>3 DEF ListOK
<1>8. starts = Append(old, n + 1)
  <2>1. n + 1 \in StartsIn(L, c)
    BY <1>1 DEF StartsIn
  <2> HIDE DEF c
  <2> QED
    BY <2>1, InOrderStep
<1>9. Ascends(starts, n + 1, StartsIn(L, c)) /\ Ascends(old, n, StartsIn(L, c))
  BY <1>1, InOrderAscends
<1>10. /\ Len(starts) = k + 1 /\ starts[k + 1] = n + 1
       /\ \A i \in 1..k : starts[i] = old[i]
  <2>1. old \in Seq(Nat)
    BY <1>9 DEF Ascends
  <2> HIDE DEF old, starts, k
  <2> QED
    BY <1>1, <1>7, <1>8, <2>1
<1>11. \A i, j \in 1..(k + 1) : i < j => starts[i] < starts[j]
  <2> HIDE DEF starts, k
  <2> QED
    BY <1>9, <1>10 DEF Ascends
<1>12. \A i \in 1..(k + 1) : starts[i] \in Nat
  <2> HIDE DEF starts, k
  <2> QED
    BY <1>9, <1>10 DEF Ascends
<1>13. ASSUME NEW i \in 1..k
       PROVE  threads[i].id \in DOMAIN sequences /\ sequences[threads[i].id] = starts[i]
  <2>1. Slot(p, L, n, c, i)
    BY <1>1, <1>2, SlotFacts
  <2>2. /\ SlotOK(p, L, n, c, old[i], p.arrays[v.array][i])
        /\ p.arrays[v.array][i].id = L[old[i]].event.thread
        /\ old[i] \in 1..n
        /\ L[old[i]].event.type = "ThreadStarted"
    BY <2>1, Zenon DEF Slot, Starts
  <2>3. threads[i].id = L[old[i]].event.thread
    BY <1>4, <1>6, <2>2, Zenon
  <2>4. threads[i].id # t
    BY <2>2, <2>3, FreshThread, Zenon
  <2>5. /\ c \in DOMAIN p.threadSequences
        /\ threads[i].id \in DOMAIN p.threadSequences[c]
        /\ p.threadSequences[c][threads[i].id] = old[i]
    BY <2>2, <2>3, Zenon DEF SlotOK
  <2> HIDE DEF threads, old, starts, c, t
  <2>6. Entry(p.threadSequences, c, <<>>) = p.threadSequences[c]
    BY <2>5 DEF Entry
  <2>7. /\ threads[i].id \in DOMAIN sequences
        /\ sequences[threads[i].id] = p.threadSequences[c][threads[i].id]
    BY <2>4, <2>5, <2>6 DEF NewSequences, Put
  <2> QED
    BY <2>5, <2>7, <1>10
<1>14. threads[k + 1].id \in DOMAIN sequences /\ sequences[threads[k + 1].id] = starts[k + 1]
  <2>1. threads[k + 1].id = t
    <3>1. threads[k + 1] = new
      BY <1>6, Zenon
    <3> HIDE DEF threads, k, t
    <3> QED
      BY <3>1
  <2>2. t \in DOMAIN sequences /\ sequences[t] = n + 1
    BY DEF NewSequences, Put
  <2> QED
    BY <2>1, <2>2, <1>10, Zenon
<1>15. ASSUME NEW i \in 1..(k + 1)
       PROVE  threads[i].id \in DOMAIN sequences /\ sequences[threads[i].id] = starts[i]
  <2>0. k \in Nat
    BY <1>4, Zenon
  <2> HIDE DEF threads, starts, k, sequences
  <2>1. i = k + 1 \/ i \in 1..k
    BY <2>0
  <2> QED
    BY <2>1, <1>13, <1>14
<1> HIDE DEF threads, starts, sequences, old
<1> QED
  BY <1>2, <1>4, <1>6, <1>10, <1>11, <1>12, <1>15, Zenon DEF ListGrows, threads, starts, sequences, old

-----------------------------------------------------------------------------
\* applyThreadStarted puts the new list into an array, the sort having nothing
\* to do.
LEMMA StartedFields ==
  ASSUME NEW L, Causal(L), NEW n \in Nat, n + 1 \in 1..Len(L), NEW p, Projected(p, L, n),
         NEW e, e = L[n + 1].event, e.type = "ThreadStarted"
  PROVE  \E a : Stored(Sequenced(p, e.conversation, NewSequences(p, e.conversation, e.thread, n + 1)),
                       ApplyThreadStarted(p, e, n + 1), e.conversation, a, NewThreads(p, e))
<1> DEFINE c == e.conversation
           v == p.conversations[c]
           k == v.len
           threads == NewThreads(p, e)
           sequences == NewSequences(p, c, e.thread, n + 1)
           starts == InOrder(n + 1, StartsIn(L, c))
           s == Sequenced(p, c, sequences)
           q == ApplyThreadStarted(p, e, n + 1)
<1>1. ListGrows(p, L, n, e)
  BY NewThreadsFacts
<1>2. /\ c \in DOMAIN p.conversations
      /\ k \in Nat /\ IsList(threads) /\ Len(threads) = k + 1
      /\ \A i \in 1..(k + 1) : sequences[threads[i].id] = starts[i] /\ starts[i] \in Nat
      /\ \A i, j \in 1..(k + 1) : i < j => starts[i] < starts[j]
  BY <1>1, Zenon DEF ListGrows
<1>3. StableSort(threads, sequences) = threads
  <2> HIDE DEF threads, sequences, k, starts
  <2>1. DOMAIN threads = 1..(k + 1) /\ k + 1 \in Nat
    BY <1>2, ListFacts
  <2>2. \A i \in 1..(k + 1) : sequences[threads[i].id] \in Nat
    BY <1>2
  <2>3. \A i, j \in 1..(k + 1) : i < j => sequences[threads[i].id] < sequences[threads[j].id]
    BY <1>2
  <2>4. StableSort(threads, sequences) = [i \in 1..(k + 1) |-> threads[i]]
    BY <2>1, <2>2, <2>3, SortOfSorted
  <2>5. threads = [i \in 1..(k + 1) |-> threads[i]]
    BY <1>2, <2>1 DEF IsList
  <2> QED
    BY <2>4, <2>5
<1>4. ViewOf(p, c) = v
  BY <1>2, Zenon DEF ViewOf
<1>5. q = StoreThreads(s, c, v, StableSort(threads, sequences))
  BY <1>4 DEF ApplyThreadStarted, Sequenced, NewSequences, NewThreads
<1>6. ShapeOK(p)
  BY DEF Projected
<1>7. /\ s = [conversations |-> p.conversations, arrays |-> p.arrays,
              threadSequences |-> s.threadSequences, latestMessageAt |-> p.latestMessageAt]
  BY <1>6 DEF Sequenced, ShapeOK
<1> HIDE DEF s, sequences, threads, q
<1>8. /\ s.conversations = p.conversations
      /\ s.arrays = p.arrays
      /\ s = [conversations |-> s.conversations, arrays |-> s.arrays,
              threadSequences |-> s.threadSequences, latestMessageAt |-> s.latestMessageAt]
  BY <1>7
<1>9. ShapeOK(s)
  <2>1. \A d \in DOMAIN s.conversations : ViewOK(s, s.conversations[d])
    BY <1>6, <1>8 DEF ShapeOK, ViewOK
  <2>2. /\ IsList(s.arrays) /\ \A a \in 1..Len(s.arrays) : IsList(s.arrays[a])
        /\ \A d, f \in DOMAIN s.conversations :
             s.conversations[d].array = s.conversations[f].array => d = f \/ s.conversations[d].array = 0
    BY <1>6, <1>8 DEF ShapeOK
  <2> QED
    BY <1>8, <2>1, <2>2 DEF ShapeOK
<1>10. q = StoreThreads(s, c, s.conversations[c], threads)
  BY <1>3, <1>5, <1>8
<1>11. c \in DOMAIN s.conversations /\ Len(threads) # 0
  <2> HIDE DEF k
  <2> QED
    BY <1>2, <1>8
<1>12. \E a : Stored(s, q, c, a, threads)
  <2> HIDE DEF c
  <2> QED
    BY <1>2, <1>9, <1>10, <1>11, StoredInPlace, StoredAnew
<1> QED
  BY <1>12 DEF s, q, sequences, threads

\* Apply of ThreadStarted does, into the array there is or a larger one.
LEMMA StartedStep ==
  ASSUME NEW L, Causal(L), NEW n \in Nat, n + 1 \in 1..Len(L), NEW p, Projected(p, L, n),
         L[n + 1].event.type = "ThreadStarted"
  PROVE  Proceeds(p, ApplyThreadStarted(p, L[n + 1].event, n + 1), L, n)
<1> DEFINE e == L[n + 1].event
           c == e.conversation
           t == e.thread
           v == p.conversations[c]
           k == v.len
           threads == NewThreads(p, e)
           sequences == NewSequences(p, c, t, n + 1)
           starts == InOrder(n + 1, StartsIn(L, c))
           s == Sequenced(p, c, sequences)
           q == ApplyThreadStarted(p, e, n + 1)
<1>1. ListGrows(p, L, n, e)
  BY NewThreadsFacts
<1>2. /\ c \in DOMAIN p.conversations
      /\ k \in Nat /\ IsList(threads) /\ Len(threads) = k + 1
      /\ Len(starts) = k + 1
      /\ threads[k + 1] = [id |-> t, participants |-> Participants(e), messages |-> <<>>]
      /\ starts[k + 1] = n + 1
      /\ \A i \in 1..k : /\ threads[i] = p.arrays[v.array][i]
                         /\ starts[i] = InOrder(n, StartsIn(L, c))[i]
      /\ \A i \in 1..(k + 1) : threads[i].id \in DOMAIN sequences /\ sequences[threads[i].id] = starts[i]
  BY <1>1, Zenon DEF ListGrows
<1>3. PICK a : Stored(s, q, c, a, threads)
  BY StartedFields
<1>4. /\ ShapeOK(p) /\ LatestOK(p, L, n) /\ n <= Len(L) /\ n + 1 \in Nat
      /\ ConversationsOK(p, L, n) /\ \A d \in DOMAIN p.conversations : ListOK(p, L, n, d)
  BY LogFacts DEF Projected
<1>5. /\ s.conversations = p.conversations
      /\ s.arrays = p.arrays
      /\ s.latestMessageAt = p.latestMessageAt
      /\ s.threadSequences = Put(p.threadSequences, c, sequences)
  BY <1>4 DEF Sequenced, ShapeOK
<1> HIDE DEF s, q, sequences, threads
<1>6. /\ q = [conversations |-> q.conversations, arrays |-> q.arrays,
              threadSequences |-> q.threadSequences, latestMessageAt |-> q.latestMessageAt]
      /\ q.threadSequences = s.threadSequences
      /\ q.latestMessageAt = s.latestMessageAt
  BY <1>3 DEF Stored
<1>7. /\ q.conversations = [p.conversations EXCEPT ![c] = [array |-> a, len |-> k + 1]]
      /\ IsList(q.arrays)
      /\ \A b \in 1..Len(q.arrays) : IsList(q.arrays[b])
      /\ Len(p.arrays) <= Len(q.arrays)
      /\ \A b \in 1..Len(p.arrays) :
           /\ Len(q.arrays[b]) = Len(p.arrays[b])
           /\ b # a => q.arrays[b] = p.arrays[b]
      /\ a \in 1..Len(q.arrays)
      /\ k + 1 \in 1..Len(q.arrays[a])
      /\ \A j \in 1..(k + 1) : q.arrays[a][j] = threads[j]
      /\ \/ a \in 1..Len(p.arrays) /\ v.array = a
         \/ a = Len(p.arrays) + 1
  BY <1>2, <1>3, <1>5, Zenon DEF Stored
<1>8. /\ DOMAIN q.conversations = DOMAIN p.conversations
      /\ q.conversations[c] = [array |-> a, len |-> k + 1]
      /\ \A d \in DOMAIN p.conversations : d # c => q.conversations[d] = p.conversations[d]
  <2> HIDE DEF c, k
  <2> QED
    BY <1>2, <1>7
<1>9. q.conversations[c].array = a /\ q.conversations[c].len = k + 1
  <2> HIDE DEF c, k
  <2> QED
    BY <1>8
<1>10. Len(p.arrays) \in Nat /\ Len(q.arrays) \in Nat
  BY <1>4, <1>7, ListFacts, Zenon DEF ShapeOK
<1>place. a # 0 /\ (a \in 1..Len(p.arrays) => v.array = a) /\ Len(p.arrays) <= Len(q.arrays)
  <2>1. /\ a \in 1..Len(q.arrays) /\ Len(p.arrays) <= Len(q.arrays)
        /\ v.array = a \/ a = Len(p.arrays) + 1
    BY <1>7, Zenon
  <2> HIDE DEF v
  <2> QED
    BY <2>1, <1>10
\* The other conversations use other arrays.
<1>11. ASSUME NEW d \in DOMAIN p.conversations, d # c
       PROVE  /\ p.conversations[d].array # a
              /\ ViewOK(p, p.conversations[d])
              /\ p.conversations[d] = NoThreads \/ p.conversations[d].array \in 1..Len(p.arrays)
  <2>1. ViewOK(p, p.conversations[d])
    BY <1>4 DEF ShapeOK
  <2>2. p.conversations[d] = NoThreads \/ p.conversations[d].array \in 1..Len(p.arrays)
    BY <2>1 DEF ViewOK
  <2>3. p.conversations[d].array = 0 \/ p.conversations[d].array \in 1..Len(p.arrays)
    BY <2>2 DEF NoThreads
  <2>4. a # 0
    BY <1>place
  <2>5. p.conversations[d].array # a
    <3>1. CASE a = Len(p.arrays) + 1
      BY <3>1, <2>3, <2>4, <1>10
    <3>2. CASE a \in 1..Len(p.arrays) /\ v.array = a
      BY <3>2, <2>4, <1>2, <1>4, <1>11 DEF ShapeOK
    <3> QED
      BY <3>1, <3>2, <1>7, Zenon
  <2> QED
    BY <2>1, <2>2, <2>5
<1>12. ShapeOK(q)
  <2>1. ASSUME NEW d \in DOMAIN q.conversations
        PROVE  ViewOK(q, q.conversations[d])
    <3>1. CASE d = c
      <4>1. ViewOK(q, [array |-> a, len |-> k + 1])
        <5> HIDE DEF k
        <5> QED
          BY <1>7 DEF ViewOK
      <4> QED
        BY <3>1, <4>1, <1>8
    <3>2. CASE d # c
      <4> DEFINE w == p.conversations[d]
      <4>1. q.conversations[d] = w /\ ViewOK(p, w) /\ w.array # a
        BY <1>8, <1>11, <3>2
      <4> HIDE DEF w
      <4>2. CASE w = NoThreads
        BY <4>1, <4>2 DEF ViewOK
      <4>3. CASE w # NoThreads
        <5>1. /\ w = [array |-> w.array, len |-> w.len]
              /\ w.array \in 1..Len(p.arrays)
              /\ w.len \in 1..Len(p.arrays[w.array])
          BY <4>1, <4>3 DEF ViewOK
        <5>2. w.array \in 1..Len(q.arrays) /\ q.arrays[w.array] = p.arrays[w.array]
          <6>1. w.array \in 1..Len(q.arrays)
            BY <5>1, <1>10, <1>place
          <6>2. q.arrays[w.array] = p.arrays[w.array]
            BY <5>1, <4>1, <1>7, Zenon
          <6> QED
            BY <6>1, <6>2
        <5>3. ViewOK(q, w)
          BY <5>1, <5>2 DEF ViewOK
        <5> QED
          BY <5>3, <4>1
      <4> QED
        BY <4>2, <4>3
    <3> QED
      BY <3>1, <3>2
  <2>2. ASSUME NEW d \in DOMAIN q.conversations, NEW f \in DOMAIN q.conversations,
               q.conversations[d].array = q.conversations[f].array
        PROVE  d = f \/ q.conversations[d].array = 0
    <3>1. CASE d # c /\ f # c
      <4>1. /\ d \in DOMAIN p.conversations /\ f \in DOMAIN p.conversations
            /\ q.conversations[d] = p.conversations[d] /\ q.conversations[f] = p.conversations[f]
        BY <3>1, <1>8
      <4> QED
        BY <4>1, <2>2, <1>4 DEF ShapeOK
    <3>2. CASE d = c /\ f # c
      <4>1. f \in DOMAIN p.conversations /\ q.conversations[f] = p.conversations[f]
        BY <3>2, <1>8
      <4>2. p.conversations[f].array # a
        BY <3>2, <4>1, <1>11
      <4> QED
        BY <3>2, <4>1, <4>2, <2>2, <1>9
    <3>3. CASE d # c /\ f = c
      <4>1. d \in DOMAIN p.conversations /\ q.conversations[d] = p.conversations[d]
        BY <3>3, <1>8
      <4>2. p.conversations[d].array # a
        BY <3>3, <4>1, <1>11
      <4> QED
        BY <3>3, <4>1, <4>2, <2>2, <1>9
    <3>4. CASE d = c /\ f = c
      BY <3>4
    <3> QED
      BY <3>1, <3>2, <3>3, <3>4
  <2> QED
    BY <1>6, <1>7, <2>1, <2>2, Zenon DEF ShapeOK
<1>13. ConversationsOK(q, L, n + 1)
  <2>1. {r \in 1..(n + 1) : L[r].event.type = "ConversationCreated"}
          = {r \in 1..n : L[r].event.type = "ConversationCreated"}
    BY OfTypeLater
  <2> QED
    BY <1>4, <1>8, <2>1 DEF ConversationsOK
<1>14. /\ c \in DOMAIN q.threadSequences
       /\ q.threadSequences[c] = sequences
       /\ \A d \in DOMAIN p.threadSequences :
            d \in DOMAIN q.threadSequences /\ (d # c => q.threadSequences[d] = p.threadSequences[d])
  BY <1>5, <1>6 DEF Put
\* The list of the conversation has the new thread at its end.
<1>15. ListOK(q, L, n + 1, c)
  <2>1. ASSUME NEW i \in 1..k
        PROVE  SlotOK(q, L, n + 1, c, starts[i], q.arrays[a][i])
    <3>1. Slot(p, L, n, c, i)
      BY <1>2, <1>4, SlotFacts, Zenon
    <3>2. i \in 1..(k + 1)
      <4>1. k \in Nat
        BY <1>2, Zenon
      <4> HIDE DEF k
      <4> QED
        BY <4>1
    <3>3. /\ q.arrays[a][i] = p.arrays[v.array][i]
          /\ starts[i] = InOrder(n, StartsIn(L, c))[i]
      BY <3>2, <1>2, <1>7, Zenon
    <3>4. /\ SlotOK(p, L, n, c, starts[i], p.arrays[v.array][i])
          /\ p.arrays[v.array][i].id = L[starts[i]].event.thread
      BY <3>1, <3>3, Zenon DEF Slot
    <3>5. threads[i].id = L[starts[i]].event.thread
      BY <1>2, <3>4, Zenon
    <3>6. /\ L[starts[i]].event.thread \in DOMAIN q.threadSequences[c]
          /\ q.threadSequences[c][L[starts[i]].event.thread] = starts[i]
      BY <1>2, <1>14, <3>2, <3>5, Zenon
    <3>7. p.threadSequences[c][L[starts[i]].event.thread] = starts[i]
      BY <3>4, Zenon DEF SlotOK
    <3>8. n + 1 \notin PostsIn(L, c, L[starts[i]].event.thread)
      BY DEF PostsIn
    <3> HIDE DEF starts, v, c
    <3>9. SlotOK(q, L, n + 1, c, starts[i], p.arrays[v.array][i])
      BY <1>14, <3>4, <3>6, <3>7, <3>8, SlotMoves
    <3> QED
      BY <3>3, <3>9
  <2>2. SlotOK(q, L, n + 1, c, n + 1, q.arrays[a][k + 1])
    <3>1. q.arrays[a][k + 1] = [id |-> t, participants |-> Participants(e), messages |-> <<>>]
      <4> HIDE DEF k, e, t
      <4>1. k + 1 \in 1..(k + 1)
        BY <1>2
      <4> QED
        BY <4>1, <1>2, <1>7
    <3>2. InOrder(n + 1, PostsIn(L, c, t)) = <<>>
      BY FreshThread
    <3>3. t \in DOMAIN sequences /\ sequences[t] = n + 1
      BY DEF sequences, NewSequences, Put
    <3> DEFINE x == q.arrays[a][k + 1]
    <3>4. x = [id |-> t, participants |-> x.participants, messages |-> InOrder(n + 1, PostsIn(L, c, t))]
      <4> HIDE DEF c, t, k
      <4> QED
        BY <3>1, <3>2
    <3> HIDE DEF x
    <3>5. SlotOK(q, L, n + 1, c, n + 1, x)
      BY <3>3, <3>4, <1>14 DEF SlotOK
    <3> QED
      BY <3>5, Zenon DEF x
  <2>3. ASSUME NEW i \in 1..(k + 1)
        PROVE  SlotOK(q, L, n + 1, c, starts[i], q.arrays[a][i])
    <3>1. k \in Nat /\ starts[k + 1] = n + 1
      BY <1>2, Zenon
    <3> HIDE DEF k, starts
    <3>2. i \in 1..k \/ i = k + 1
      BY <3>1
    <3> QED
      BY <2>1, <2>2, <3>1, <3>2
  <2> HIDE DEF c, starts, k
  <2> QED
    BY <1>2, <1>9, <2>3 DEF ListOK, starts
<1>16. ASSUME NEW d \in DOMAIN p.conversations, d # c
       PROVE  ListOK(q, L, n + 1, d)
  <2> DEFINE others == InOrder(n, StartsIn(L, d))
             w == p.conversations[d]
  <2>1. InOrder(n + 1, StartsIn(L, d)) = others
    <3>1. n + 1 \notin StartsIn(L, d)
      BY <1>16 DEF StartsIn
    <3> QED
      BY <3>1, InOrderStep
  <2>2. w.len = Len(others) /\ \A j \in 1..Len(others) : SlotOK(p, L, n, d, others[j], p.arrays[w.array][j])
    BY <1>4 DEF ListOK
  <2>3. ASSUME NEW j \in 1..Len(others)
        PROVE  SlotOK(q, L, n + 1, d, others[j], q.arrays[w.array][j])
    <3>1. Slot(p, L, n, d, j)
      BY <1>4, <2>2, SlotFacts
    <3>2. w.array \in 1..Len(p.arrays)
      BY <3>1 DEF Slot
    <3>3. q.arrays[w.array] = p.arrays[w.array]
      BY <3>2, <1>7, <1>11, <1>16
    <3>4. n + 1 \notin PostsIn(L, d, L[others[j]].event.thread)
      BY DEF PostsIn
    <3> HIDE DEF others, w
    <3>5. d \in DOMAIN p.threadSequences /\ L[others[j]].event.thread \in DOMAIN p.threadSequences[d]
      BY <2>2 DEF SlotOK
    <3>6. d \in DOMAIN q.threadSequences /\ q.threadSequences[d] = p.threadSequences[d]
      BY <1>14, <1>16, <3>5
    <3>7. SlotOK(q, L, n + 1, d, others[j], p.arrays[w.array][j])
      BY <2>2, <3>4, <3>5, <3>6, SlotMoves
    <3> QED
      BY <3>3, <3>7
  <2>4. q.conversations[d] = w
    BY <1>8, <1>16
  <2> QED
    BY <2>1, <2>2, <2>3, <2>4 DEF ListOK
<1>17. LatestOK(q, L, n + 1)
  <2>1. q.latestMessageAt = p.latestMessageAt
    BY <1>5, <1>6
  <2> QED
    BY <1>4, <2>1, LatestLater
<1>18. Projected(q, L, n + 1)
  BY <1>8, <1>12, <1>13, <1>15, <1>16, <1>17 DEF Projected
<1>19. Advances(p, q)
  <2>1. ASSUME NEW b \in 1..Len(p.arrays), NEW j \in 1..Len(p.arrays[b])
        PROVE  \/ q.arrays[b][j] = p.arrays[b][j]
               \/ \E d \in DOMAIN p.conversations :
                    p.conversations[d].array = b /\ p.conversations[d].len < j
    <3>1. CASE b # a
      BY <3>1, <1>7
    <3>2. CASE b = a
      <4>1. v.array = a
        BY <3>2, <1>place, Zenon
      <4>2. CASE j <= k
        <5>1. IsList(p.arrays[b])
          BY <1>4 DEF ShapeOK
        <5>2. Len(p.arrays[b]) \in Nat /\ k \in Nat
          BY <5>1, <1>2, ListFacts, Zenon
        <5> HIDE DEF k, v
        <5>3. j \in 1..k /\ j \in 1..(k + 1)
          BY <4>2, <5>2
        <5>4. q.arrays[a][j] = threads[j] /\ threads[j] = p.arrays[v.array][j]
          BY <5>3, <1>2, <1>7
        <5> QED
          BY <3>2, <4>1, <5>4
      <4>3. CASE ~ (j <= k)
        <5>1. IsList(p.arrays[b])
          BY <1>4 DEF ShapeOK
        <5>2. Len(p.arrays[b]) \in Nat /\ k \in Nat
          BY <5>1, <1>2, ListFacts
        <5>3. k < j
          <6> HIDE DEF k
          <6> QED
            BY <4>3, <5>2
        <5> QED
          BY <3>2, <4>1, <5>3, <1>2, Zenon
      <4> QED
        BY <4>2, <4>3
    <3> QED
      BY <3>1, <3>2
  <2>2. ASSUME NEW d \in DOMAIN q.conversations, q.conversations[d].array \in 1..Len(p.arrays)
        PROVE  /\ d \in DOMAIN p.conversations
               /\ p.conversations[d].array = q.conversations[d].array
               /\ p.conversations[d].len <= q.conversations[d].len
    <3>1. CASE d = c
      <4>1. v.array = a
        BY <3>1, <2>2, <1>9, <1>place, Zenon
      <4>2. k <= k + 1
        <5>1. k \in Nat
          BY <1>2, Zenon
        <5> HIDE DEF k
        <5> QED
          BY <5>1
      <4> QED
        BY <3>1, <4>1, <4>2, <1>2, <1>9, Zenon
    <3>2. CASE d # c
      <4>1. d \in DOMAIN p.conversations /\ q.conversations[d] = p.conversations[d]
        BY <3>2, <1>8
      <4>2. p.conversations[d].len \in Nat
        BY <4>1, <3>2, <1>4, <1>11, ViewShows
      <4> QED
        BY <4>1, <4>2
    <3> QED
      BY <3>1, <3>2
  <2>3. Len(p.arrays) <= Len(q.arrays) /\ \A b \in 1..Len(p.arrays) : Len(q.arrays[b]) = Len(p.arrays[b])
    BY <1>7, Zenon
  <2> QED
    BY <2>1, <2>2, <2>3 DEF Advances
<1>20. Applicable(p, e)
  BY <1>2, Zenon DEF Applicable
<1> QED
  BY <1>18, <1>19, <1>20 DEF Proceeds, q

-----------------------------------------------------------------------------
\* One event of any type.
LEMMA EventStep ==
  ASSUME NEW L, Causal(L), NEW n \in Nat, n + 1 \in 1..Len(L), NEW p, Projected(p, L, n)
  PROVE  Proceeds(p, ApplyEvent(p, L[n + 1].event, n + 1, L[n + 1].at), L, n)
<1> DEFINE e == L[n + 1].event
           q == ApplyEvent(p, e, n + 1, L[n + 1].at)
<1>1. e.type \in Types
  BY DEF Causal, Rooted
<1>2. CASE e.type = "ConversationCreated"
  <2>1. q = ApplyConversationCreated(p, e)
    BY <1>2 DEF ApplyEvent
  <2> HIDE DEF q
  <2> QED
    BY <1>2, <2>1, CreatedStep DEF q
<1>3. CASE e.type = "ThreadStarted"
  <2>1. q = ApplyThreadStarted(p, e, n + 1)
    BY <1>3 DEF ApplyEvent
  <2> HIDE DEF q
  <2> QED
    BY <1>3, <2>1, StartedStep DEF q
<1>4. CASE e.type = "MessagePosted"
  <2>1. q = ApplyMessagePosted(p, e, n + 1, L[n + 1].at)
    BY <1>4 DEF ApplyEvent
  <2> HIDE DEF q
  <2> QED
    BY <1>4, <2>1, PostedStep DEF q
<1>5. CASE e.type \in {"ParticipantAdded", "ParticipantRemoved"}
  <2>1. q = ChangeParticipant(p, e)
    BY <1>5 DEF ApplyEvent
  <2> HIDE DEF q
  <2> QED
    BY <1>5, <2>1, ChangedStep DEF q
<1> QED
  BY <1>1, <1>2, <1>3, <1>4, <1>5 DEF Types

-----------------------------------------------------------------------------
(***************************************************************************)
(* The tables.                                                             *)
(***************************************************************************)
\* A row for every thread that was started.
LEMMA RowOfThread ==
  ASSUME NEW tb, NEW L, NEW n, TablesOK(tb, L, n), NEW c, NEW t,
         NEW s \in 1..n, Starts(L, s, c, t)
  PROVE  /\ <<c, t>> \in DOMAIN tb.threads
         /\ tb.threads[<<c, t>>] = [sequence |-> s, participants |-> tb.threads[<<c, t>>].participants]
<1>1. L[s].event.type = "ThreadStarted" /\ KeyAt(L, s) = <<c, t>>
  BY DEF Starts, KeyAt
<1> QED
  BY <1>1 DEF TablesOK

\* What the statement for an event does.
TablesMove(tb, ub, e, seq) ==
  LET key == <<e.conversation, e.thread>> IN
  /\ ub = [conversations |-> ub.conversations, threads |-> ub.threads, messages |-> ub.messages]
  /\ e.type = "ConversationCreated" =>
       /\ ub.conversations = tb.conversations \cup {e.conversation}
       /\ ub.threads = tb.threads
  /\ e.type # "ConversationCreated" => ub.conversations = tb.conversations
  /\ e.type = "ThreadStarted" =>
       ub.threads = Put(tb.threads, key, [sequence |-> seq, participants |-> Participants(e)])
  /\ e.type = "MessagePosted" =>
       /\ ub.threads = tb.threads
       /\ ub.messages = tb.messages \cup {[conversation |-> e.conversation, thread |-> e.thread,
                                           sequence |-> seq, author |-> e.author]}
  /\ e.type # "MessagePosted" => ub.messages = tb.messages
  /\ e.type = "ParticipantAdded" =>
       ub.threads = [tb.threads EXCEPT ![key] =
                       [tb.threads[key] EXCEPT !.participants =
                          Append(tb.threads[key].participants, e.participant)]]
  /\ e.type = "ParticipantRemoved" =>
       ub.threads = [tb.threads EXCEPT ![key] =
                       [tb.threads[key] EXCEPT !.participants =
                          Without(tb.threads[key].participants, e.participant)]]

\* Postgres refuses no event of the log, and makes of it what it says.
LEMMA TablesAccept ==
  ASSUME NEW L, Causal(L), NEW n \in Nat, n + 1 \in 1..Len(L), NEW tb, TablesOK(tb, L, n),
         NEW entry, entry.event = L[n + 1].event, entry.sequence = n + 1
  PROVE  /\ Postgres!Accepts(tb, entry)
         /\ TablesMove(tb, Postgres!ApplyEntry(tb, entry), L[n + 1].event, n + 1)
<1> DEFINE e == L[n + 1].event
           key == <<e.conversation, e.thread>>
           ub == Postgres!ApplyEntry(tb, entry)
<1>1. e.type \in Types
  BY DEF Causal, Rooted
<1>2. Postgres!ThreadKey(e) = key
  BY DEF Postgres!ThreadKey
<1>3. tb = [conversations |-> tb.conversations, threads |-> tb.threads, messages |-> tb.messages]
  BY DEF TablesOK
<1>4. CASE e.type = "ConversationCreated"
  <2>1. ub = [conversations |-> tb.conversations \cup {e.conversation},
              threads |-> tb.threads, messages |-> tb.messages]
    BY <1>3, <1>4 DEF Postgres!ApplyEntry
  <2>2. Postgres!Accepts(tb, entry)
    BY <1>4 DEF Postgres!Accepts
  <2> HIDE DEF ub
  <2> QED
    BY <1>4, <2>1, <2>2 DEF TablesMove, ub
<1>5. CASE e.type = "ThreadStarted"
  <2>1. ub = [conversations |-> tb.conversations,
              threads |-> Put(tb.threads, key, [sequence |-> n + 1, participants |-> Participants(e)]),
              messages |-> tb.messages]
    BY <1>2, <1>3, <1>5 DEF Postgres!ApplyEntry, Postgres!Put, Put, Postgres!Participants, Participants
  <2>2. e.conversation \in tb.conversations
    BY <1>5, FreshThread DEF TablesOK, Creates
  <2>3. key \notin DOMAIN tb.threads
    <3> SUFFICES ASSUME key \in DOMAIN tb.threads PROVE FALSE
      OBVIOUS
    <3>1. PICK s \in 1..n : L[s].event.type = "ThreadStarted" /\ key = KeyAt(L, s)
      BY DEF TablesOK
    <3>2. L[s].event.thread = e.thread
      BY <3>1 DEF KeyAt
    <3> QED
      BY <1>5, <3>1, <3>2, FreshThread
  <2>4. Postgres!Accepts(tb, entry)
    BY <1>2, <1>5, <2>2, <2>3 DEF Postgres!Accepts
  <2> HIDE DEF ub
  <2> QED
    BY <1>5, <2>1, <2>4 DEF TablesMove, ub
<1>6. CASE e.type = "MessagePosted"
  <2>1. ~ Postgres!MessageConflict(tb, entry)
    <3> SUFFICES ASSUME NEW m \in tb.messages, m.sequence = n + 1 PROVE FALSE
      BY DEF Postgres!MessageConflict
    <3>1. PICK s \in 1..n : m = RowAt(L, s)
      BY DEF TablesOK
    <3>2. m.sequence = s
      BY <3>1 DEF RowAt
    <3> QED
      BY <3>2
  <2>2. ub = [conversations |-> tb.conversations, threads |-> tb.threads,
              messages |-> tb.messages \cup {[conversation |-> e.conversation, thread |-> e.thread,
                                              sequence |-> n + 1, author |-> e.author]}]
    BY <1>3, <1>6, <2>1 DEF Postgres!ApplyEntry, Postgres!MessageRow
  <2>3. key \in DOMAIN tb.threads
    <3>1. PICK s \in 1..((n + 1) - 1) : Starts(L, s, e.conversation, e.thread)
      BY <1>6, StartedBefore
    <3>2. s \in 1..n
      OBVIOUS
    <3> QED
      BY <3>1, <3>2, RowOfThread
  <2>4. Postgres!Accepts(tb, entry)
    BY <1>2, <1>6, <2>3 DEF Postgres!Accepts
  <2> HIDE DEF ub
  <2> QED
    BY <1>6, <2>2, <2>4 DEF TablesMove, ub
<1>7. CASE e.type \in {"ParticipantAdded", "ParticipantRemoved"}
  <2>1. key \in DOMAIN tb.threads
    <3>1. PICK s \in 1..((n + 1) - 1) : Starts(L, s, e.conversation, e.thread)
      BY <1>7, StartedBefore
    <3>2. s \in 1..n
      OBVIOUS
    <3> QED
      BY <3>1, <3>2, RowOfThread
  <2>2. Postgres!Accepts(tb, entry)
    BY <1>7 DEF Postgres!Accepts
  <2> DEFINE old == tb.threads[key].participants
             new == IF e.type = "ParticipantAdded" THEN Append(old, e.participant)
                    ELSE Without(old, e.participant)
  <2>3. Postgres!ParticipantsRow(tb, key) = old
    BY <2>1 DEF Postgres!ParticipantsRow
  <2>4. Postgres!ArrayRemove(old, e.participant) = Without(old, e.participant)
    BY DEF Postgres!ArrayRemove, Without, Postgres!Pick, Pick
  <2>5. ub = Postgres!UpdateParticipants(tb, key, new)
    <3> HIDE DEF old
    <3> QED
      BY <1>2, <1>7, <2>3, <2>4 DEF Postgres!ApplyEntry
  <2> HIDE DEF new, ub
  <2>6. ub = [tb EXCEPT !.threads = [tb.threads EXCEPT ![key] =
                                       [tb.threads[key] EXCEPT !.participants = new]]]
    BY <2>1, <2>5 DEF Postgres!UpdateParticipants
  <2>7. ub = [conversations |-> tb.conversations,
              threads |-> [tb.threads EXCEPT ![key] = [tb.threads[key] EXCEPT !.participants = new]],
              messages |-> tb.messages]
    BY <1>3, <2>6
  <2>8. /\ ub = [conversations |-> ub.conversations, threads |-> ub.threads, messages |-> ub.messages]
        /\ ub.conversations = tb.conversations
        /\ ub.messages = tb.messages
        /\ ub.threads = [tb.threads EXCEPT ![key] = [tb.threads[key] EXCEPT !.participants = new]]
    BY <2>7
  <2>9. TablesMove(tb, ub, e, n + 1)
    BY <1>7, <2>8, Zenon DEF TablesMove, new
  <2> QED
    BY <2>2, <2>9 DEF ub
<1> QED
  BY <1>1, <1>4, <1>5, <1>6, <1>7 DEF Types

-----------------------------------------------------------------------------
\* A row keeps its number when its participants change.
LEMMA RowKeepsNumber ==
  ASSUME NEW f, NEW key \in DOMAIN f, NEW members, NEW g,
         g = [f EXCEPT ![key] = [f[key] EXCEPT !.participants = members]],
         NEW s, NEW k \in DOMAIN f, f[k] = [sequence |-> s, participants |-> f[k].participants]
  PROVE  /\ DOMAIN g = DOMAIN f
         /\ g[k] = [sequence |-> s, participants |-> g[k].participants]
         /\ k = key => g[k].participants = members
         /\ k # key => g[k] = f[k]
<1>1. CASE k = key
  <2>1. g[k] = [f[k] EXCEPT !.participants = members]
    BY <1>1
  <2>2. g[k] = [sequence |-> s, participants |-> members]
    BY <2>1
  <2> QED
    BY <1>1, <2>2
<1>2. CASE k # key
  BY <1>2
<1> QED
  BY <1>1, <1>2

\* The statement for an event takes the tables one event on.
LEMMA TablesStep ==
  ASSUME NEW L, Causal(L), NEW n \in Nat, n + 1 \in 1..Len(L), NEW tb, TablesOK(tb, L, n),
         NEW ub, TablesMove(tb, ub, L[n + 1].event, n + 1)
  PROVE  TablesOK(ub, L, n + 1)
<1> DEFINE e == L[n + 1].event
           key == <<e.conversation, e.thread>>
           of(m, type) == {r \in 1..m : L[r].event.type = type}
<1>1. e.type \in Types
  BY DEF Causal, Rooted
<1>2. /\ tb.conversations = {L[s].event.conversation : s \in of(n, "ConversationCreated")}
      /\ DOMAIN tb.threads = {KeyAt(L, s) : s \in of(n, "ThreadStarted")}
      /\ tb.messages = {RowAt(L, s) : s \in of(n, "MessagePosted")}
      /\ \A s \in 1..n : L[s].event.type = "ThreadStarted" =>
           tb.threads[KeyAt(L, s)] = [sequence |-> s, participants |-> tb.threads[KeyAt(L, s)].participants]
  BY DEF TablesOK
<1>3. \A type : /\ e.type # type => of(n + 1, type) = of(n, type)
                /\ e.type = type => of(n + 1, type) = of(n, type) \cup {n + 1}
  <2> TAKE type
  <2> QED
    BY OfTypeLater
<1>4. ub.conversations = {L[s].event.conversation : s \in of(n + 1, "ConversationCreated")}
  <2>1. CASE e.type = "ConversationCreated"
    <3>1. of(n + 1, "ConversationCreated") = of(n, "ConversationCreated") \cup {n + 1}
      BY <1>3, <2>1
    <3>2. ub.conversations = tb.conversations \cup {e.conversation}
      BY <2>1 DEF TablesMove
    <3> HIDE DEF of
    <3> QED
      BY <3>1, <3>2, <1>2
  <2>2. CASE e.type # "ConversationCreated"
    <3>1. of(n + 1, "ConversationCreated") = of(n, "ConversationCreated")
      BY <1>3, <2>2
    <3>2. ub.conversations = tb.conversations
      BY <2>2, Zenon DEF TablesMove
    <3> HIDE DEF of
    <3> QED
      BY <3>1, <3>2, <1>2
  <2> QED
    BY <2>1, <2>2
<1>5. ub.messages = {RowAt(L, s) : s \in of(n + 1, "MessagePosted")}
  <2>1. CASE e.type = "MessagePosted"
    <3>1. of(n + 1, "MessagePosted") = of(n, "MessagePosted") \cup {n + 1}
      BY <1>3, <2>1
    <3>2. ub.messages = tb.messages \cup {RowAt(L, n + 1)}
      BY <2>1 DEF TablesMove, RowAt
    <3> HIDE DEF of
    <3> QED
      BY <3>1, <3>2, <1>2
  <2>2. CASE e.type # "MessagePosted"
    <3>1. of(n + 1, "MessagePosted") = of(n, "MessagePosted")
      BY <1>3, <2>2
    <3>2. ub.messages = tb.messages
      BY <2>2, Zenon DEF TablesMove
    <3> HIDE DEF of
    <3> QED
      BY <3>1, <3>2, <1>2
  <2> QED
    BY <2>1, <2>2
<1>6. /\ DOMAIN ub.threads = {KeyAt(L, s) : s \in of(n + 1, "ThreadStarted")}
      /\ \A s \in 1..(n + 1) : L[s].event.type = "ThreadStarted" =>
           ub.threads[KeyAt(L, s)] = [sequence |-> s, participants |-> ub.threads[KeyAt(L, s)].participants]
  <2>1. CASE e.type = "ThreadStarted"
    <3>1. of(n + 1, "ThreadStarted") = of(n, "ThreadStarted") \cup {n + 1}
      BY <1>3, <2>1
    <3>2. ub.threads = Put(tb.threads, key, [sequence |-> n + 1, participants |-> Participants(e)])
      BY <2>1 DEF TablesMove
    <3>3. KeyAt(L, n + 1) = key
      BY DEF KeyAt
    <3>4. /\ DOMAIN ub.threads = DOMAIN tb.threads \cup {key}
          /\ ub.threads[key] = [sequence |-> n + 1, participants |-> Participants(e)]
          /\ \A k \in DOMAIN tb.threads : k # key => ub.threads[k] = tb.threads[k]
      BY <3>2 DEF Put
    <3>5. DOMAIN ub.threads = {KeyAt(L, s) : s \in of(n + 1, "ThreadStarted")}
      <4> HIDE DEF of, key
      <4> QED
        BY <3>1, <3>3, <3>4, <1>2
    <3>6. ASSUME NEW s \in 1..(n + 1), L[s].event.type = "ThreadStarted"
          PROVE  ub.threads[KeyAt(L, s)]
                   = [sequence |-> s, participants |-> ub.threads[KeyAt(L, s)].participants]
      <4>1. CASE s = n + 1
        BY <3>3, <3>4, <4>1
      <4>2. CASE s # n + 1
        <5>1. s \in 1..n
          BY <4>2
        <5>2. KeyAt(L, s) # key
          <6>1. L[s].event.thread # e.thread
            BY <2>1, <3>6, <5>1, FreshThread
          <6> QED
            BY <6>1 DEF KeyAt
        <5>3. KeyAt(L, s) \in DOMAIN tb.threads
          BY <1>2, <3>6, <5>1
        <5> QED
          BY <1>2, <3>4, <3>6, <5>1, <5>2, <5>3
      <4> QED
        BY <4>1, <4>2
    <3> QED
      BY <3>5, <3>6
  <2>2. CASE e.type # "ThreadStarted"
    <3>1. of(n + 1, "ThreadStarted") = of(n, "ThreadStarted")
      BY <1>3, <2>2
    <3>2. \A s \in 1..(n + 1) : L[s].event.type = "ThreadStarted" => s \in 1..n
      BY <2>2
    <3>3. CASE e.type \in {"ConversationCreated", "MessagePosted"}
      <4>1. ub.threads = tb.threads
        BY <3>3, Zenon DEF TablesMove
      <4> HIDE DEF of
      <4> QED
        BY <3>1, <3>2, <4>1, <1>2
    <3>4. CASE e.type \in {"ParticipantAdded", "ParticipantRemoved"}
      <4>1. PICK members : ub.threads = [tb.threads EXCEPT ![key] =
                                           [tb.threads[key] EXCEPT !.participants = members]]
        BY <3>4, Zenon DEF TablesMove
      <4>2. key \in DOMAIN tb.threads
        <5>1. PICK s \in 1..((n + 1) - 1) : Starts(L, s, e.conversation, e.thread)
          BY <3>4, StartedBefore
        <5>2. s \in 1..n
          OBVIOUS
        <5> QED
          BY <5>1, <5>2, RowOfThread
      <4> DEFINE f == tb.threads
                 g == ub.threads
      <4>3. g = [f EXCEPT ![key] = [f[key] EXCEPT !.participants = members]] /\ key \in DOMAIN f
        BY <4>1, <4>2
      <4> HIDE DEF key, g, f
      <4>4. DOMAIN g = DOMAIN f
        BY <4>3
      <4>5. ASSUME NEW s \in 1..(n + 1), L[s].event.type = "ThreadStarted"
            PROVE  g[KeyAt(L, s)] = [sequence |-> s, participants |-> g[KeyAt(L, s)].participants]
        <5>1. s \in 1..n
          BY <3>2, <4>5
        <5> DEFINE k == KeyAt(L, s)
        <5>2. k \in DOMAIN f /\ f[k] = [sequence |-> s, participants |-> f[k].participants]
          BY <1>2, <4>5, <5>1 DEF f
        <5> HIDE DEF k
        <5>3. g[k] = [sequence |-> s, participants |-> g[k].participants]
          BY <4>3, <5>2, RowKeepsNumber
        <5> QED
          BY <5>3 DEF k
      <4>6. DOMAIN ub.threads = {KeyAt(L, s) : s \in of(n + 1, "ThreadStarted")}
        BY <3>1, <4>4, <1>2 DEF f, g
      <4> QED
        BY <4>5, <4>6 DEF g
    <3> QED
      BY <1>1, <2>2, <3>3, <3>4 DEF Types
  <2> QED
    BY <2>1, <2>2
<1>7. ub = [conversations |-> ub.conversations, threads |-> ub.threads, messages |-> ub.messages]
  BY Zenon DEF TablesMove
<1> QED
  BY <1>4, <1>5, <1>6, <1>7 DEF TablesOK

-----------------------------------------------------------------------------
\* The row of the thread in a slot.
HasRow(tb, L, n, c, t) ==
  /\ <<c, t>> \in DOMAIN tb.threads
  /\ \E s : tb.threads[<<c, t>>] = [sequence |-> s, participants |-> tb.threads[<<c, t>>].participants]
  /\ \E s \in 1..n : Starts(L, s, c, t)

\* Every thread that the projection shows has a row.
LEMMA SlotRow ==
  ASSUME NEW L, Causal(L), NEW n \in Nat, n <= Len(L), NEW p, Projected(p, L, n),
         NEW tb, TablesOK(tb, L, n),
         NEW c \in DOMAIN p.conversations, NEW i \in 1..p.conversations[c].len
  PROVE  HasRow(tb, L, n, c, p.arrays[p.conversations[c].array][i].id)
<1> DEFINE t == p.arrays[p.conversations[c].array][i].id
<1>1. PICK s \in 1..n : Starts(L, s, c, t)
  <2>1. Slot(p, L, n, c, i)
    BY SlotFacts
  <2> QED
    BY <2>1 DEF Slot
<1> HIDE DEF t
<1>2. /\ <<c, t>> \in DOMAIN tb.threads
      /\ tb.threads[<<c, t>>] = [sequence |-> s, participants |-> tb.threads[<<c, t>>].participants]
  BY <1>1, RowOfThread
<1> QED
  BY <1>1, <1>2, Zenon DEF HasRow, t

\* A slot that is written to: the row changes with it, the others stay.
LEMMA MembersWritten ==
  ASSUME NEW L, Causal(L), NEW n \in Nat, n <= Len(L), NEW p, Projected(p, L, n),
         NEW tb, TablesOK(tb, L, n), SameMembers(p, tb),
         NEW c, NEW t, NEW a, NEW i, Located(p, L, n, c, t, a, i),
         NEW q, NEW x, Writes(p, q, a, i, x), x.id = t,
         NEW ub, ub.threads[<<c, t>>].participants = x.participants,
         \A key \in DOMAIN tb.threads :
           key # <<c, t>> => ub.threads[key].participants = tb.threads[key].participants
  PROVE  SameMembers(q, ub)
<1>1. /\ c \in DOMAIN p.conversations
      /\ p.conversations[c].array = a
      /\ a \in 1..Len(p.arrays)
      /\ i \in 1..p.conversations[c].len
      /\ i \in 1..Len(p.arrays[a])
      /\ p.arrays[a][i].id = t
  BY DEF Located
<1>2. ShapeOK(p)
  BY DEF Projected
<1>3. Rewritten(p, q, a, i, x)
  BY <1>1, <1>2, WriteFacts
<1>4. q.conversations = p.conversations
  BY <1>3 DEF Rewritten
<1>5. ASSUME NEW d \in DOMAIN p.conversations, NEW j \in 1..p.conversations[d].len
      PROVE  LET thread == q.arrays[p.conversations[d].array][j]
             IN  thread.participants = ub.threads[<<d, thread.id>>].participants
  <2> DEFINE b == p.conversations[d].array
             old == p.arrays[b][j]
             thread == q.arrays[b][j]
  <2>1. b \in 1..Len(p.arrays) /\ j \in 1..Len(p.arrays[b])
    <3>1. Slot(p, L, n, d, j)
      BY SlotFacts
    <3> QED
      BY <3>1 DEF Slot
  <2>2. CASE d = c /\ j = i
    <3>1. thread = x
      BY <1>1, <1>3, <2>1, <2>2 DEF Rewritten
    <3> HIDE DEF thread
    <3>2. thread.participants = ub.threads[<<d, thread.id>>].participants
      BY <2>2, <3>1
    <3> QED
      BY <3>2, Zenon DEF thread
  <2>3. CASE ~ (d = c /\ j = i)
    <3>1. b # a \/ j # i
      BY <1>1, <1>2, <2>1, <2>3 DEF ShapeOK
    <3>2. thread = old
      BY <1>3, <2>1, <3>1 DEF Rewritten
    <3>3. <<d, old.id>> # <<c, t>>
      <4> SUFFICES ASSUME d = c, old.id = t PROVE FALSE
        OBVIOUS
      <4>1. Occupies(p, c, i, t) /\ Occupies(p, d, j, t)
        BY <1>1 DEF Occupies
      <4> QED
        BY <2>3, <4>1, SlotsDiffer
    <3>4. <<d, old.id>> \in DOMAIN tb.threads
      <4>1. HasRow(tb, L, n, d, old.id)
        BY SlotRow
      <4> QED
        BY <4>1, Zenon DEF HasRow
    <3>5. old.participants = tb.threads[<<d, old.id>>].participants
      BY Zenon DEF SameMembers
    <3> HIDE DEF thread, old
    <3>6. thread.participants = ub.threads[<<d, thread.id>>].participants
      BY <3>2, <3>3, <3>4, <3>5
    <3> QED
      BY <3>6 DEF thread
  <2> QED
    BY <2>2, <2>3, Zenon
<1>6. ASSUME NEW d \in DOMAIN q.conversations, NEW j \in 1..q.conversations[d].len, NEW thread,
             thread = q.arrays[q.conversations[d].array][j]
      PROVE  thread.participants = ub.threads[<<d, thread.id>>].participants
  <2>1. /\ d \in DOMAIN p.conversations /\ j \in 1..p.conversations[d].len
        /\ q.arrays[p.conversations[d].array][j] = thread
    BY <1>4, <1>6, Zenon
  <2> QED
    BY <1>5, <2>1, Zenon
<1> QED
  BY <1>6, Zenon DEF SameMembers

\* A new thread has the same participants on both sides.
LEMMA MembersStarted ==
  ASSUME NEW L, Causal(L), NEW n \in Nat, n + 1 \in 1..Len(L), NEW p, Projected(p, L, n),
         NEW tb, TablesOK(tb, L, n), SameMembers(p, tb),
         L[n + 1].event.type = "ThreadStarted",
         NEW ub, TablesMove(tb, ub, L[n + 1].event, n + 1)
  PROVE  SameMembers(ApplyThreadStarted(p, L[n + 1].event, n + 1), ub)
<1> DEFINE e == L[n + 1].event
           c == e.conversation
           t == e.thread
           v == p.conversations[c]
           k == v.len
           threads == NewThreads(p, e)
           sequences == NewSequences(p, c, t, n + 1)
           s == Sequenced(p, c, sequences)
           q == ApplyThreadStarted(p, e, n + 1)
           key == <<c, t>>
<1>1. ListGrows(p, L, n, e)
  BY NewThreadsFacts
<1>2. /\ c \in DOMAIN p.conversations
      /\ k \in Nat /\ Len(threads) = k + 1
      /\ threads[k + 1] = [id |-> t, participants |-> Participants(e), messages |-> <<>>]
      /\ \A i \in 1..k : threads[i] = p.arrays[v.array][i]
  BY <1>1, Zenon DEF ListGrows
<1>3. PICK a : Stored(s, q, c, a, threads)
  BY StartedFields
<1>4. ShapeOK(p) /\ n <= Len(L)
  BY LogFacts DEF Projected
<1>5. s.conversations = p.conversations /\ s.arrays = p.arrays
  BY <1>4 DEF Sequenced, ShapeOK
<1> HIDE DEF s, q, sequences, threads
<1>6. /\ q.conversations = [p.conversations EXCEPT ![c] = [array |-> a, len |-> k + 1]]
      /\ \A b \in 1..Len(p.arrays) : b # a => q.arrays[b] = p.arrays[b]
      /\ \A j \in 1..(k + 1) : q.arrays[a][j] = threads[j]
      /\ \/ a \in 1..Len(p.arrays) /\ v.array = a
         \/ a = Len(p.arrays) + 1
  BY <1>2, <1>3, <1>5, Zenon DEF Stored
<1>7. /\ DOMAIN q.conversations = DOMAIN p.conversations
      /\ q.conversations[c].array = a /\ q.conversations[c].len = k + 1
      /\ \A d \in DOMAIN p.conversations : d # c => q.conversations[d] = p.conversations[d]
  <2> HIDE DEF c, k
  <2> QED
    BY <1>2, <1>6
<1>8. ub.threads = Put(tb.threads, key, [sequence |-> n + 1, participants |-> Participants(e)])
  BY DEF TablesMove
<1>9. /\ ub.threads[key].participants = Participants(e)
      /\ \A r \in DOMAIN tb.threads : r # key => ub.threads[r] = tb.threads[r]
  <2>1. ub.threads[key] = [sequence |-> n + 1, participants |-> Participants(e)]
    BY <1>8 DEF Put
  <2>2. ub.threads[key].participants = Participants(e)
    <3> HIDE DEF key, e
    <3> QED
      BY <2>1
  <2>3. \A r \in DOMAIN tb.threads : r # key => ub.threads[r] = tb.threads[r]
    BY <1>8 DEF Put
  <2> QED
    BY <2>2, <2>3
\* A thread that was there is another one.
<1>10. ASSUME NEW d \in DOMAIN p.conversations, NEW j \in 1..p.conversations[d].len, NEW thread,
              thread = p.arrays[p.conversations[d].array][j]
       PROVE  thread.participants = ub.threads[<<d, thread.id>>].participants
  <2>1. /\ <<d, thread.id>> \in DOMAIN tb.threads
        /\ \E r \in 1..n : Starts(L, r, d, thread.id)
    <3>1. HasRow(tb, L, n, d, thread.id)
      BY <1>4, <1>10, SlotRow
    <3> QED
      BY <3>1 DEF HasRow
  <2>2. thread.id # t
    BY <2>1, FreshThread DEF Starts
  <2>3. thread.participants = tb.threads[<<d, thread.id>>].participants
    BY <1>10, Zenon DEF SameMembers
  <2>4. <<d, thread.id>> # key
    BY <2>2
  <2> HIDE DEF key
  <2> QED
    BY <1>9, <2>1, <2>3, <2>4
<1>11. ASSUME NEW d \in DOMAIN q.conversations, NEW j \in 1..q.conversations[d].len, NEW thread,
              thread = q.arrays[q.conversations[d].array][j]
       PROVE  thread.participants = ub.threads[<<d, thread.id>>].participants
  <2>1. CASE d # c
    <3>1. d \in DOMAIN p.conversations /\ q.conversations[d] = p.conversations[d]
      BY <1>7, <2>1
    <3>2. Slot(p, L, n, d, j)
      BY <1>4, <1>11, <3>1, SlotFacts
    <3>3. p.conversations[d].array \in 1..Len(p.arrays)
      BY <3>2 DEF Slot
    <3>4. p.conversations[d].array # a
      <4>1. Len(p.arrays) \in Nat
        BY <1>4, ListFacts DEF ShapeOK
      <4>2. CASE a = Len(p.arrays) + 1
        BY <3>3, <4>1, <4>2
      <4>3. CASE a \in 1..Len(p.arrays) /\ v.array = a
        <5>1. a # 0
          BY <4>1, <4>3
        <5> QED
          BY <1>2, <1>4, <2>1, <3>1, <4>3, <5>1, Zenon DEF ShapeOK
      <4> QED
        BY <1>6, <4>2, <4>3
    <3>5. thread = p.arrays[p.conversations[d].array][j] /\ j \in 1..p.conversations[d].len
      BY <1>6, <1>11, <3>1, <3>3, <3>4
    <3> QED
      BY <1>10, <3>1, <3>5, Zenon
  <2>2. CASE d = c
    <3>1. k \in Nat
      BY <1>2, Zenon
    <3>2. j \in 1..(k + 1) /\ thread = q.arrays[a][j]
      BY <1>7, <1>11, <2>2, Zenon
    <3>3. thread = threads[j]
      BY <1>6, <3>2
    <3>4. CASE j \in 1..k
      <4>1. thread = p.arrays[v.array][j]
        BY <1>2, <3>3, <3>4, Zenon
      <4> QED
        BY <1>2, <1>10, <2>2, <3>4, <4>1, Zenon
    <3>5. CASE j \notin 1..k
      <4>1. j = k + 1
        <5> HIDE DEF k
        <5> QED
          BY <3>1, <3>2, <3>5
      <4>2. thread = [id |-> t, participants |-> Participants(e), messages |-> <<>>]
        <5> HIDE DEF k, e, t
        <5> QED
          BY <1>2, <3>3, <4>1
      <4>3. thread.id = t /\ thread.participants = Participants(e)
        <5> HIDE DEF e, t
        <5> QED
          BY <4>2
      <4> QED
        BY <1>9, <2>2, <4>3
    <3> QED
      BY <3>4, <3>5
  <2> QED
    BY <2>1, <2>2
<1> QED
  BY <1>11, Zenon DEF SameMembers, q

-----------------------------------------------------------------------------
\* The participants of both stay the same.
LEMMA MembersStep ==
  ASSUME NEW L, Causal(L), NEW n \in Nat, n + 1 \in 1..Len(L), NEW p, Projected(p, L, n),
         NEW tb, TablesOK(tb, L, n), SameMembers(p, tb),
         NEW ub, TablesMove(tb, ub, L[n + 1].event, n + 1)
  PROVE  SameMembers(ApplyEvent(p, L[n + 1].event, n + 1, L[n + 1].at), ub)
<1> DEFINE e == L[n + 1].event
           c == e.conversation
           t == e.thread
           key == <<c, t>>
           q == ApplyEvent(p, e, n + 1, L[n + 1].at)
           i == IndexOf(p, e)
           a == ViewOf(p, c).array
           old == p.arrays[a][i]
<1>1. e.type \in Types
  BY DEF Causal, Rooted
<1>2. ShapeOK(p) /\ n <= Len(L)
  BY LogFacts DEF Projected
<1>3. CASE e.type = "ConversationCreated"
  <2>1. q = [conversations |-> Put(p.conversations, c, NoThreads), arrays |-> p.arrays,
             threadSequences |-> p.threadSequences, latestMessageAt |-> p.latestMessageAt]
    BY <1>2, <1>3 DEF ApplyEvent, ApplyConversationCreated, ShapeOK
  <2> HIDE DEF q
  <2>2. q.conversations = Put(p.conversations, c, NoThreads) /\ q.arrays = p.arrays
    BY <2>1
  <2>3. ub.threads = tb.threads
    BY <1>3 DEF TablesMove
  <2>4. ASSUME NEW d \in DOMAIN q.conversations, NEW j \in 1..q.conversations[d].len, NEW thread,
               thread = q.arrays[q.conversations[d].array][j]
        PROVE  thread.participants = ub.threads[<<d, thread.id>>].participants
    <3>1. d # c
      <4> SUFFICES ASSUME d = c PROVE FALSE
        OBVIOUS
      <4>1. q.conversations[d] = NoThreads
        BY <2>2 DEF Put
      <4>2. q.conversations[d].len = 0
        BY <4>1 DEF NoThreads
      <4>3. j \in 1..0
        BY <2>4, <4>2, Zenon
      <4> QED
        BY <4>3
    <3>2. d \in DOMAIN p.conversations /\ q.conversations[d] = p.conversations[d]
      BY <2>2, <3>1 DEF Put
    <3> QED
      BY <2>2, <2>3, <2>4, <3>2, Zenon DEF SameMembers
  <2> QED
    BY <2>4, ZenonT(40) DEF SameMembers, q
<1>4. CASE e.type = "ThreadStarted"
  <2>1. q = ApplyThreadStarted(p, e, n + 1)
    BY <1>4 DEF ApplyEvent
  <2> HIDE DEF q
  <2> QED
    BY <1>4, <2>1, MembersStarted DEF q
<1>5. ASSUME e.type \notin {"ConversationCreated", "ThreadStarted"}
      PROVE  /\ Located(p, L, n, c, t, a, i)
             /\ old.id = t
             /\ old = [id |-> old.id, participants |-> old.participants, messages |-> old.messages]
             /\ key \in DOMAIN tb.threads
             /\ old.participants = tb.threads[key].participants
             /\ \E s : tb.threads[key] = [sequence |-> s, participants |-> tb.threads[key].participants]
  <2>1. Located(p, L, n, c, t, a, i)
    BY <1>5, ThreadIsThere
  <2> HIDE DEF a, i
  <2>2. /\ c \in DOMAIN p.conversations /\ i \in 1..p.conversations[c].len
        /\ p.conversations[c].array = a /\ old.id = t
    BY <2>1 DEF Located
  <2>3. Slot(p, L, n, c, i)
    BY <1>2, <2>2, SlotFacts
  <2>4. SlotOK(p, L, n, c, InOrder(n, StartsIn(L, c))[i], old)
    BY <2>2, <2>3 DEF Slot
  <2>5. old.participants = tb.threads[<<c, old.id>>].participants
    BY <2>2, ZenonT(40) DEF SameMembers
  <2>6. /\ <<c, old.id>> \in DOMAIN tb.threads
        /\ \E s : tb.threads[<<c, old.id>>]
                    = [sequence |-> s, participants |-> tb.threads[<<c, old.id>>].participants]
    <3>1. HasRow(tb, L, n, c, p.arrays[p.conversations[c].array][i].id)
      BY <1>2, <2>2, SlotRow
    <3>2. p.arrays[p.conversations[c].array][i] = old
      BY <2>2
    <3> HIDE DEF old
    <3> QED
      BY <3>1, <3>2, ZenonT(40) DEF HasRow
  <2> HIDE DEF old
  <2>7. old = [id |-> old.id, participants |-> old.participants, messages |-> old.messages]
    BY <2>4, Zenon DEF SlotOK
  <2> QED
    BY <2>1, <2>2, <2>5, <2>6, <2>7
<1>6. CASE e.type = "MessagePosted"
  <2> DEFINE x == [old EXCEPT !.messages = Append(old.messages, n + 1)]
  <2>1. q = ApplyMessagePosted(p, e, n + 1, L[n + 1].at)
    BY <1>6 DEF ApplyEvent
  <2>2. Writes(p, q, a, i, x)
    <3> DEFINE seq == n + 1
               at == L[n + 1].at
    <3> HIDE DEF seq, at, e, q
    <3>1. LET r == ApplyMessagePosted(p, e, seq, at) IN
          Writes(p, r, a, i, [old EXCEPT !.messages = Append(old.messages, seq)])
      BY <1>2, PostedFields
    <3> QED
      BY <2>1, <3>1, Zenon DEF seq, at
  <2>3. /\ Located(p, L, n, c, t, a, i)
        /\ old.id = t
        /\ old = [id |-> old.id, participants |-> old.participants, messages |-> old.messages]
        /\ old.participants = tb.threads[key].participants
    BY <1>5, <1>6, Zenon
  <2> HIDE DEF old
  <2>4. x = [id |-> old.id, participants |-> old.participants, messages |-> Append(old.messages, n + 1)]
    <3>1. old = [id |-> old.id, participants |-> old.participants, messages |-> old.messages]
      BY <2>3
    <3> DEFINE more == Append(old.messages, n + 1)
    <3> HIDE DEF more
    <3>2. [old EXCEPT !.messages = more]
            = [id |-> old.id, participants |-> old.participants, messages |-> more]
      BY <3>1
    <3> QED
      BY <3>2 DEF more
  <2> HIDE DEF x
  <2>5. x.id = t /\ x.participants = tb.threads[key].participants
    <3>1. x.id = old.id /\ x.participants = old.participants
      BY <2>4
    <3> QED
      BY <2>3, <3>1
  <2>6. ub.threads = tb.threads
    BY <1>6 DEF TablesMove
  <2> HIDE DEF q, a, i
  <2> QED
    BY <1>2, <2>2, <2>3, <2>5, <2>6, MembersWritten DEF q
<1>7. CASE e.type \in {"ParticipantAdded", "ParticipantRemoved"}
  <2> DEFINE members == IF e.type = "ParticipantAdded" THEN Append(old.participants, e.participant)
                        ELSE Without(old.participants, e.participant)
             x == [old EXCEPT !.participants = members]
  <2>1. q = ChangeParticipant(p, e)
    BY <1>7 DEF ApplyEvent
  <2>2. Writes(p, q, a, i, x)
    <3> HIDE DEF q
    <3> QED
      BY <1>2, <2>1, ChangedFields, Zenon
  <2>3. /\ Located(p, L, n, c, t, a, i)
        /\ old.id = t
        /\ old = [id |-> old.id, participants |-> old.participants, messages |-> old.messages]
        /\ key \in DOMAIN tb.threads
        /\ old.participants = tb.threads[key].participants
    BY <1>5, <1>7, Zenon
  <2>4. PICK s : tb.threads[key] = [sequence |-> s, participants |-> tb.threads[key].participants]
    BY <1>5, <1>7, Zenon
  <2>5. ub.threads = [tb.threads EXCEPT ![key] = [tb.threads[key] EXCEPT !.participants = members]]
    BY <1>7, <2>3, Zenon DEF TablesMove
  <2> HIDE DEF old, members, key
  <2>6. x = [id |-> old.id, participants |-> members, messages |-> old.messages]
    BY <2>3
  <2> HIDE DEF x
  <2>7. x.id = old.id /\ x.participants = members
    BY <2>6
  <2> DEFINE f == tb.threads
             g == ub.threads
  <2>8. /\ key \in DOMAIN f
        /\ f[key] = [sequence |-> s, participants |-> f[key].participants]
        /\ g = [f EXCEPT ![key] = [f[key] EXCEPT !.participants = members]]
    BY <2>3, <2>4, <2>5
  <2> HIDE DEF f, g
  <2>9. g[key].participants = members
    BY <2>8, RowKeepsNumber
  <2>10. \A k \in DOMAIN f : k # key => g[k] = f[k]
    BY <2>8
  <2>11. /\ ub.threads[key].participants = x.participants
         /\ \A k \in DOMAIN tb.threads : k # key => ub.threads[k].participants = tb.threads[k].participants
    BY <2>7, <2>9, <2>10 DEF f, g
  <2> HIDE DEF q, a, i
  <2>12. x.id = t
    BY <2>3, <2>7
  <2>13. SameMembers(q, ub)
    BY <1>2, <2>2, <2>3, <2>11, <2>12, MembersWritten, SMTT(30) DEF key
  <2> QED
    BY <2>13 DEF q
<1> QED
  BY <1>1, <1>3, <1>4, <1>6, <1>7 DEF Types

-----------------------------------------------------------------------------
\* One list continues another that continues a third.
LEMMA ExtendsFurther ==
  ASSUME NEW s, NEW t, NEW u, Extends(s, t), Extends(t, u)
  PROVE  Extends(s, u)
<1>1. Len(s) \in Nat /\ Len(t) \in Nat /\ Len(u) \in Nat /\ Len(s) <= Len(t) /\ Len(t) <= Len(u)
  BY ListFacts DEF Extends
<1>2. ASSUME NEW i \in 1..Len(s)
      PROVE  u[i] = s[i]
  <2>1. i \in 1..Len(t)
    BY <1>1
  <2> QED
    BY <2>1 DEF Extends
<1>3. Len(s) <= Len(u)
  BY <1>1
<1> QED
  BY <1>2, <1>3 DEF Extends

\* Whoever holds a view holds it after an event.
LEMMA HoldsLater ==
  ASSUME NEW p, ShapeOK(p), NEW q, ShapeOK(q), Advances(p, q), NEW view, NEW seen, Holds(p, view, seen)
  PROVE  Holds(q, view, seen)
<1> DEFINE a == view.array
<1>1. CASE view = NoThreads /\ seen = <<>>
  BY <1>1 DEF Holds
<1>2. CASE ~ (view = NoThreads /\ seen = <<>>)
  <2>1. /\ a \in 1..Len(p.arrays)
        /\ view.len \in 1..Len(p.arrays[a])
        /\ IsList(seen) /\ Len(seen) = view.len
        /\ \A i \in 1..view.len :
             /\ p.arrays[a][i].id = seen[i].id
             /\ Extends(seen[i].messages, p.arrays[a][i].messages)
        /\ \A c \in DOMAIN p.conversations :
             p.conversations[c].array = a => view.len <= p.conversations[c].len
    BY <1>2 DEF Holds
  <2>2. /\ Len(p.arrays) \in Nat /\ Len(q.arrays) \in Nat
        /\ \A b \in 1..Len(p.arrays) : Len(p.arrays[b]) \in Nat
    BY ListFacts DEF ShapeOK
  <2>3. /\ Len(p.arrays) <= Len(q.arrays)
        /\ Len(q.arrays[a]) = Len(p.arrays[a])
        /\ \A i \in 1..Len(p.arrays[a]) :
             \/ q.arrays[a][i] = p.arrays[a][i]
             \/ /\ q.arrays[a][i].id = p.arrays[a][i].id
                /\ Extends(p.arrays[a][i].messages, q.arrays[a][i].messages)
             \/ \E c \in DOMAIN p.conversations :
                  p.conversations[c].array = a /\ p.conversations[c].len < i
    BY <2>1 DEF Advances
  <2> HIDE DEF a
  <2>4. a \in 1..Len(q.arrays) /\ view.len \in 1..Len(q.arrays[a]) /\ view.len \in Nat
    BY <2>1, <2>2, <2>3
  <2>5. ASSUME NEW i \in 1..view.len
        PROVE  /\ q.arrays[a][i].id = seen[i].id
               /\ Extends(seen[i].messages, q.arrays[a][i].messages)
    <3>1. i \in 1..Len(p.arrays[a])
      BY <2>1, <2>2, <2>4
    <3>2. ASSUME NEW c \in DOMAIN p.conversations, p.conversations[c].array = a, p.conversations[c].len < i
          PROVE  FALSE
      <4>1. view.len <= p.conversations[c].len
        BY <2>1, <3>2
      <4>2. p.conversations[c].len \in Nat
        <5>1. ViewOK(p, p.conversations[c])
          BY DEF ShapeOK
        <5> QED
          BY <5>1, ViewShows
      <4> QED
        BY <2>4, <3>2, <4>1, <4>2
    <3>3. CASE q.arrays[a][i] = p.arrays[a][i]
      BY <2>1, <3>3
    <3>4. CASE q.arrays[a][i].id = p.arrays[a][i].id
               /\ Extends(p.arrays[a][i].messages, q.arrays[a][i].messages)
      BY <2>1, <3>4, ExtendsFurther
    <3> QED
      BY <2>3, <3>1, <3>2, <3>3, <3>4
  <2>6. ASSUME NEW c \in DOMAIN q.conversations, q.conversations[c].array = a
        PROVE  view.len <= q.conversations[c].len
    <3>1. /\ c \in DOMAIN p.conversations
          /\ p.conversations[c].array = a
          /\ p.conversations[c].len <= q.conversations[c].len
      BY <2>1, <2>6 DEF Advances
    <3>2. view.len <= p.conversations[c].len
      BY <2>1, <3>1
    <3>3. p.conversations[c].len \in Nat /\ q.conversations[c].len \in Nat
      <4>1. ViewOK(p, p.conversations[c]) /\ ViewOK(q, q.conversations[c])
        BY <3>1 DEF ShapeOK
      <4> QED
        BY <4>1, ViewShows
    <3> QED
      BY <2>4, <3>1, <3>2, <3>3
  <2> QED
    BY <2>1, <2>4, <2>5, <2>6 DEF Holds, a
<1> QED
  BY <1>1, <1>2

-----------------------------------------------------------------------------
(***************************************************************************)
(* A run, entry by entry, on both.                                         *)
(***************************************************************************)
\* The step of the fold of Store.Apply.
StoreNext(tx, entry) == Postgres!ApplyNext(tx, entry)

Mem == INSTANCE FoldProofs WITH Op <- ApplyNext
Sql == INSTANCE FoldProofs WITH Op <- StoreNext

\* Held views are held on.
Kept(p, q) == \A view, seen : Holds(p, view, seen) => Holds(q, view, seen)

\* Both have applied the first m events; start is the projection at first.
InStep(start, p, tb, L, m) ==
  /\ Projected(p, L, m)
  /\ TablesOK(tb, L, m)
  /\ SameMembers(p, tb)
  /\ Kept(start, p)

IsEntry(entry, L, s) == entry = [sequence |-> s, event |-> L[s].event, at |-> L[s].at]

\* One entry is accepted by both, and takes both one event on.
LEMMA BothStep ==
  ASSUME NEW L, Causal(L), NEW m \in Nat, m + 1 \in 1..Len(L), NEW start, NEW p, NEW tb,
         InStep(start, p, tb, L, m), NEW entry, IsEntry(entry, L, m + 1)
  PROVE  /\ Applicable(p, entry.event)
         /\ Postgres!Accepts(tb, entry)
         /\ InStep(start, ApplyEvent(p, entry.event, entry.sequence, entry.at),
                   Postgres!ApplyEntry(tb, entry), L, m + 1)
<1> DEFINE seq == m + 1
<1>1. entry.event = L[m + 1].event /\ entry.sequence = m + 1 /\ entry.at = L[m + 1].at
  <2>1. entry = [sequence |-> seq, event |-> L[seq].event, at |-> L[seq].at]
    BY DEF IsEntry
  <2> HIDE DEF seq
  <2>2. entry.event = L[seq].event /\ entry.sequence = seq /\ entry.at = L[seq].at
    BY <2>1
  <2> QED
    BY <2>2 DEF seq
<1> DEFINE q == ApplyEvent(p, L[m + 1].event, m + 1, L[m + 1].at)
           ub == Postgres!ApplyEntry(tb, entry)
<1>2. Projected(p, L, m) /\ TablesOK(tb, L, m) /\ SameMembers(p, tb) /\ Kept(start, p)
  BY DEF InStep
<1>3. Proceeds(p, q, L, m)
  BY <1>2, EventStep
<1>4. Postgres!Accepts(tb, entry) /\ TablesMove(tb, ub, L[m + 1].event, m + 1)
  BY <1>1, <1>2, TablesAccept
<1> HIDE DEF ub
<1>5. TablesOK(ub, L, m + 1)
  BY <1>2, <1>4, TablesStep
<1>6. SameMembers(q, ub)
  BY <1>2, <1>4, MembersStep
<1> HIDE DEF q
<1>7. Applicable(p, L[m + 1].event) /\ Projected(q, L, m + 1) /\ Advances(p, q)
  BY <1>3 DEF Proceeds
<1>8. ShapeOK(p) /\ ShapeOK(q)
  BY <1>2, <1>7 DEF Projected
<1>9. Kept(start, q)
  BY <1>2, <1>7, <1>8, HoldsLater DEF Kept
<1>10. InStep(start, q, ub, L, m + 1)
  BY <1>5, <1>6, <1>7, <1>9 DEF InStep
<1>11. q = ApplyEvent(p, entry.event, entry.sequence, entry.at)
  BY <1>1 DEF q
<1> QED
  BY <1>1, <1>4, <1>7, <1>10, <1>11 DEF ub

\* The folds of both, after each entry.
TracesMem(trace, p, entries, n) ==
  /\ trace[0] = [ok |-> TRUE, projection |-> p]
  /\ \A k \in 0..(n - 1) : trace[k + 1] = ApplyNext(trace[k], entries[k + 1])
  /\ ApplyEntries(p, entries) = trace[n]

\* ApplyEntries of the projection goes through its entries one by one.
LEMMA MemTrace ==
  ASSUME NEW p, NEW entries, DOMAIN entries = 1..Len(entries), Len(entries) \in Nat
  PROVE  \E trace : TracesMem(trace, p, entries, Len(entries))
<1> DEFINE base == [ok |-> TRUE, projection |-> p]
<1>1. ApplyEntries(p, entries) = Mem!Fold(base, entries)
  BY DEF ApplyEntries, Mem!Fold, FoldLeft, Mem!FoldLeft, MapThenFoldSet, Mem!MapThenFoldSet,
         Max, Mem!Max
<1> HIDE DEF base
<1>2. \E trace : /\ trace[0] = base
                 /\ \A k \in 0..(Len(entries) - 1) : trace[k + 1] = ApplyNext(trace[k], entries[k + 1])
                 /\ Mem!Fold(base, entries) = trace[Len(entries)]
  BY Mem!FoldTrace, ZenonT(60)
<1> QED
  BY <1>1, <1>2, Zenon DEF base, TracesMem

\* So does Store.Apply; it rolls back unless every entry passed.
LEMMA SqlTrace ==
  ASSUME NEW tb, NEW entries, DOMAIN entries = 1..Len(entries), Len(entries) \in Nat
  PROVE  \E trace : /\ trace[0] = [ok |-> TRUE, tables |-> tb]
                    /\ \A k \in 0..(Len(entries) - 1) :
                         trace[k + 1] = Postgres!ApplyNext(trace[k], entries[k + 1])
                    /\ Postgres!ApplyEntries(tb, entries)
                         = IF trace[Len(entries)].ok THEN trace[Len(entries)]
                           ELSE [ok |-> FALSE, tables |-> tb]
<1> DEFINE base == [ok |-> TRUE, tables |-> tb]
           tx == Sql!Fold(base, entries)
<1>1. Postgres!ApplyEntries(tb, entries) = IF tx.ok THEN tx ELSE [ok |-> FALSE, tables |-> tb]
  BY DEF Postgres!ApplyEntries, Sql!Fold, Postgres!FoldLeft, Sql!FoldLeft, Postgres!MapThenFoldSet,
         Sql!MapThenFoldSet, Postgres!Max, Sql!Max, StoreNext
<1> HIDE DEF base
<1>2. \E trace : /\ trace[0] = base
                 /\ \A k \in 0..(Len(entries) - 1) : trace[k + 1] = StoreNext(trace[k], entries[k + 1])
                 /\ Sql!Fold(base, entries) = trace[Len(entries)]
  BY Sql!FoldTrace, ZenonT(60)
<1>3. PICK trace : /\ trace[0] = base
                   /\ \A k \in 0..(Len(entries) - 1) : trace[k + 1] = StoreNext(trace[k], entries[k + 1])
                   /\ tx = trace[Len(entries)]
  BY <1>2 DEF tx
<1> HIDE DEF tx
<1>4. \A k \in 0..(Len(entries) - 1) : trace[k + 1] = Postgres!ApplyNext(trace[k], entries[k + 1])
  BY <1>3, Zenon DEF StoreNext
<1>5. Postgres!ApplyEntries(tb, entries)
        = IF trace[Len(entries)].ok THEN trace[Len(entries)] ELSE [ok |-> FALSE, tables |-> tb]
  BY <1>1, <1>3
<1>6. trace[0] = [ok |-> TRUE, tables |-> tb]
  BY <1>3 DEF base
<1> QED
  BY <1>4, <1>5, <1>6, Zenon

\* A run that starts behind what both have applied passes on both.
LEMMA RunApplies ==
  ASSUME NEW L, Causal(L), NEW n \in Nat, NEW k \in Nat, n + k <= Len(L),
         NEW p, NEW tb, InStep(p, p, tb, L, n),
         NEW entries, DOMAIN entries = 1..Len(entries), Len(entries) = k,
         \A i \in 1..k : IsEntry(entries[i], L, n + i)
  PROVE  /\ ApplyEntries(p, entries).ok
         /\ InStep(p, ApplyEntries(p, entries).projection,
                   Postgres!ApplyEntries(tb, entries).tables, L, n + k)
<1>1. PICK mem : /\ mem[0] = [ok |-> TRUE, projection |-> p]
                 /\ \A i \in 0..(k - 1) : mem[i + 1] = ApplyNext(mem[i], entries[i + 1])
                 /\ ApplyEntries(p, entries) = mem[k]
  <2>1. PICK trace : TracesMem(trace, p, entries, Len(entries))
    BY MemTrace
  <2> QED
    BY <2>1, Zenon DEF TracesMem
<1>2. PICK sql : /\ sql[0] = [ok |-> TRUE, tables |-> tb]
                 /\ \A i \in 0..(k - 1) : sql[i + 1] = Postgres!ApplyNext(sql[i], entries[i + 1])
                 /\ Postgres!ApplyEntries(tb, entries)
                      = IF sql[k].ok THEN sql[k] ELSE [ok |-> FALSE, tables |-> tb]
  BY SqlTrace
<1>3. Len(L) \in Nat
  BY LogFacts
<1> DEFINE good(i) == /\ mem[i].ok /\ sql[i].ok
                      /\ InStep(p, mem[i].projection, sql[i].tables, L, n + i)
           P == {i \in Nat : i <= k => good(i)}
<1>4. 0 \in P
  <2>1. mem[0].ok /\ mem[0].projection = p /\ sql[0].ok /\ sql[0].tables = tb /\ n + 0 = n
    BY <1>1, <1>2
  <2> QED
    BY <2>1
<1>5. ASSUME NEW i \in Nat, i \in P
      PROVE  i + 1 \in P
  <2> SUFFICES ASSUME i + 1 <= k PROVE good(i + 1)
    OBVIOUS
  <2>1. i \in 0..(k - 1) /\ i + 1 \in 1..k /\ i <= k
    OBVIOUS
  <2> DEFINE m == n + i
             entry == entries[i + 1]
             r == mem[i].projection
             tx == sql[i].tables
  <2>2. m \in Nat /\ m + 1 \in 1..Len(L) /\ m + 1 = n + (i + 1)
    BY <1>3, <2>1
  <2>3. good(i)
    BY <1>5, <2>1
  <2>4. IsEntry(entry, L, m + 1)
    BY <2>1, <2>2
  <2>5. mem[i + 1] = ApplyNext(mem[i], entry) /\ sql[i + 1] = Postgres!ApplyNext(sql[i], entry)
    BY <1>1, <1>2, <2>1
  <2>6. mem[i].ok /\ sql[i].ok /\ InStep(p, r, tx, L, m)
    BY <2>3
  <2> HIDE DEF m, entry, r, tx
  <2>7. /\ Applicable(r, entry.event)
        /\ Postgres!Accepts(tx, entry)
        /\ InStep(p, ApplyEvent(r, entry.event, entry.sequence, entry.at),
                  Postgres!ApplyEntry(tx, entry), L, m + 1)
    BY <2>2, <2>4, <2>6, BothStep
  <2>8. mem[i + 1] = [ok |-> TRUE,
                      projection |-> ApplyEvent(r, entry.event, entry.sequence, entry.at)]
    BY <2>5, <2>6, <2>7 DEF ApplyNext, r
  <2>9. sql[i + 1] = [ok |-> TRUE, tables |-> Postgres!ApplyEntry(tx, entry)]
    BY <2>5, <2>6, <2>7 DEF Postgres!ApplyNext, tx
  <2>10. /\ mem[i + 1].ok /\ sql[i + 1].ok
         /\ mem[i + 1].projection = ApplyEvent(r, entry.event, entry.sequence, entry.at)
         /\ sql[i + 1].tables = Postgres!ApplyEntry(tx, entry)
    BY <2>8, <2>9
  <2> QED
    BY <2>2, <2>7, <2>10
<1>6. k \in P
  <2> HIDE DEF P
  <2> QED
    BY <1>4, <1>5, Induction
<1>7. good(k)
  BY <1>6
<1>8. Postgres!ApplyEntries(tb, entries) = sql[k]
  BY <1>2, <1>7
<1> QED
  BY <1>1, <1>7, <1>8

-----------------------------------------------------------------------------
(***************************************************************************)
(* The aggregate that a change of participants is decided on.              *)
(***************************************************************************)
Agg == INSTANCE FoldProofs WITH Op <- ApplyToAggregate

\* The id that the aggregate has after an event, and the threads it may gain.
IdAfter(id, e) == IF e.type = "ConversationCreated" THEN e.conversation ELSE id

Gains(e) == IF e.type \in {"ThreadStarted", "ParticipantAdded"} THEN {e.thread} ELSE {}

\* An event changes the id of the aggregate or adds at most its thread.
LEMMA AggregateStep ==
  ASSUME NEW id, NEW threads, NEW e
  PROVE  \E more : /\ ApplyToAggregate([id |-> id, threads |-> threads], e)
                        = [id |-> IdAfter(id, e), threads |-> more]
                   /\ DOMAIN more \subseteq DOMAIN threads \cup Gains(e)
<1> DEFINE conv == [id |-> id, threads |-> threads]
<1>1. CASE e.type = "ConversationCreated"
  <2>1. ApplyToAggregate(conv, e) = [id |-> e.conversation, threads |-> threads]
    BY <1>1 DEF ApplyToAggregate
  <2> QED
    BY <1>1, <2>1 DEF IdAfter
<1>2. CASE e.type = "ThreadStarted"
  <2> DEFINE more == Put(threads, e.thread, Participants(e))
  <2>1. ApplyToAggregate(conv, e) = [id |-> id, threads |-> more]
    BY <1>2 DEF ApplyToAggregate
  <2>2. DOMAIN more \subseteq DOMAIN threads \cup Gains(e)
    BY <1>2 DEF Put, Gains
  <2> HIDE DEF more
  <2> QED
    BY <1>2, <2>1, <2>2 DEF IdAfter
<1>3. CASE e.type = "ParticipantAdded"
  <2> DEFINE more == Put(threads, e.thread, Append(MembersOf(conv, e.thread), e.participant))
  <2>1. ApplyToAggregate(conv, e) = [id |-> id, threads |-> more]
    BY <1>3 DEF ApplyToAggregate
  <2>2. DOMAIN more \subseteq DOMAIN threads \cup Gains(e)
    BY <1>3 DEF Put, Gains
  <2> HIDE DEF more
  <2> QED
    BY <1>3, <2>1, <2>2 DEF IdAfter
<1>4. CASE e.type = "ParticipantRemoved" /\ e.thread \in DOMAIN threads
  <2> DEFINE more == [threads EXCEPT ![e.thread] = RemoveFirst(threads[e.thread], e.participant)]
  <2>1. ApplyToAggregate(conv, e) = [id |-> id, threads |-> more]
    BY <1>4 DEF ApplyToAggregate
  <2>2. DOMAIN more \subseteq DOMAIN threads \cup Gains(e)
    OBVIOUS
  <2> HIDE DEF more
  <2> QED
    BY <1>4, <2>1, <2>2 DEF IdAfter
<1>5. CASE /\ e.type \notin {"ConversationCreated", "ThreadStarted", "ParticipantAdded"}
           /\ ~ (e.type = "ParticipantRemoved" /\ e.thread \in DOMAIN threads)
  <2>1. ApplyToAggregate(conv, e) = conv
    BY <1>5 DEF ApplyToAggregate
  <2> QED
    BY <1>5, <2>1 DEF IdAfter
<1> QED
  BY <1>1, <1>2, <1>3, <1>4, <1>5

\* After the first n events: the id, if the conversation was created in them,
\* and no thread that no event is about.
Rehydrated(conv, events, n, c) ==
  \E id, threads :
    /\ conv = [id |-> id, threads |-> threads]
    /\ (\E i \in 1..n : events[i].type = "ConversationCreated") => id = c
    /\ \A t \in DOMAIN threads : \E i \in 1..n : t \in Gains(events[i])

\* One event more.
LEMMA RehydratedMore ==
  ASSUME NEW events, NEW n \in Nat, NEW c, NEW conv, Rehydrated(conv, events, n, c),
         events[n + 1].type = "ConversationCreated" => events[n + 1].conversation = c
  PROVE  Rehydrated(ApplyToAggregate(conv, events[n + 1]), events, n + 1, c)
<1> DEFINE e == events[n + 1]
           next == ApplyToAggregate(conv, e)
<1>1. PICK id, threads :
        /\ conv = [id |-> id, threads |-> threads]
        /\ (\E i \in 1..n : events[i].type = "ConversationCreated") => id = c
        /\ \A t \in DOMAIN threads : \E i \in 1..n : t \in Gains(events[i])
  BY DEF Rehydrated
<1>2. PICK more : next = [id |-> IdAfter(id, e), threads |-> more]
                  /\ DOMAIN more \subseteq DOMAIN threads \cup Gains(e)
  <2> HIDE DEF e
  <2> QED
    BY <1>1, AggregateStep
<1>3. \A i \in 1..(n + 1) : i \in 1..n \/ i = n + 1
  OBVIOUS
<1>4. n + 1 \in 1..(n + 1) /\ 1..n \subseteq 1..(n + 1)
  OBVIOUS
<1>5. (\E i \in 1..(n + 1) : events[i].type = "ConversationCreated") => IdAfter(id, e) = c
  BY <1>1, <1>3 DEF IdAfter
<1>6. \A t \in DOMAIN more : \E i \in 1..(n + 1) : t \in Gains(events[i])
  <2> TAKE t \in DOMAIN more
  <2>1. CASE t \in Gains(e)
    BY <1>4, <2>1
  <2>2. CASE t \in DOMAIN threads
    BY <1>1, <1>4, <2>2
  <2> QED
    BY <1>2, <2>1, <2>2
<1> HIDE DEF next
<1>7. Rehydrated(next, events, n + 1, c)
  BY <1>2, <1>5, <1>6 DEF Rehydrated
<1> QED
  BY <1>7 DEF next

AggTraces(trace, events, n) ==
  /\ trace[0] = [id |-> "", threads |-> <<>>]
  /\ \A k \in 0..(n - 1) : trace[k + 1] = ApplyToAggregate(trace[k], events[k + 1])
  /\ RehydrateConversation(events) = trace[n]

\* RehydrateConversation goes through the events one by one.
LEMMA AggTrace ==
  ASSUME NEW events, DOMAIN events = 1..Len(events), Len(events) \in Nat
  PROVE  \E trace : AggTraces(trace, events, Len(events))
<1> DEFINE base == [id |-> "", threads |-> <<>>]
<1>1. RehydrateConversation(events) = Agg!Fold(base, events)
  BY DEF RehydrateConversation, Agg!Fold, FoldLeft, Agg!FoldLeft, MapThenFoldSet,
         Agg!MapThenFoldSet, Max, Agg!Max
<1> HIDE DEF base
<1>2. \E trace : /\ trace[0] = base
                 /\ \A k \in 0..(Len(events) - 1) :
                      trace[k + 1] = ApplyToAggregate(trace[k], events[k + 1])
                 /\ Agg!Fold(base, events) = trace[Len(events)]
  BY Agg!FoldTrace, ZenonT(60)
<1> QED
  BY <1>1, <1>2, Zenon DEF base, AggTraces

\* What the aggregate knows comes from the events it was made of.
LEMMA AggregateFacts ==
  ASSUME NEW events, IsList(events), NEW c,
         \A i \in DOMAIN events : events[i].type = "ConversationCreated" => events[i].conversation = c
  PROVE  Rehydrated(RehydrateConversation(events), events, Len(events), c)
<1> DEFINE n == Len(events)
<1>1. n \in Nat /\ DOMAIN events = 1..n
  BY ListFacts
<1>2. PICK trace : AggTraces(trace, events, n)
  BY <1>1, AggTrace
<1> HIDE DEF n
<1>3. /\ trace[0] = [id |-> "", threads |-> <<>>]
      /\ \A k \in 0..(n - 1) : trace[k + 1] = ApplyToAggregate(trace[k], events[k + 1])
      /\ RehydrateConversation(events) = trace[n]
  BY <1>2, Zenon DEF AggTraces
<1> DEFINE P == {k \in Nat : k <= n => Rehydrated(trace[k], events, k, c)}
<1>4. 0 \in P
  <2> DEFINE none == <<>>
  <2>1. DOMAIN none = {} /\ 1..0 = {}
    OBVIOUS
  <2>2. trace[0] = [id |-> "", threads |-> none]
    BY <1>3, Zenon
  <2> HIDE DEF none
  <2>3. Rehydrated(trace[0], events, 0, c)
    BY <2>1, <2>2, Zenon DEF Rehydrated
  <2> QED
    BY <2>3
<1>5. ASSUME NEW k \in Nat, k \in P
      PROVE  k + 1 \in P
  <2> SUFFICES ASSUME k + 1 <= n PROVE Rehydrated(trace[k + 1], events, k + 1, c)
    OBVIOUS
  <2>1. k \in 0..(n - 1) /\ k + 1 \in 1..n /\ k <= n
    BY <1>1
  <2>2. Rehydrated(trace[k], events, k, c)
    BY <1>5, <2>1
  <2>3. trace[k + 1] = ApplyToAggregate(trace[k], events[k + 1])
    BY <1>3, <2>1, Zenon
  <2>4. events[k + 1].type = "ConversationCreated" => events[k + 1].conversation = c
    BY <1>1, <2>1
  <2> QED
    BY <2>2, <2>3, <2>4, RehydratedMore
<1>6. n \in P
  <2> HIDE DEF P
  <2> QED
    BY <1>1, <1>4, <1>5, Induction
<1>7. Rehydrated(trace[n], events, n, c)
  <2>1. n <= n
    BY <1>1
  <2> QED
    BY <1>6, <2>1
<1> QED
  BY <1>3, <1>7, Zenon DEF n

-----------------------------------------------------------------------------
(***************************************************************************)
(* Requests that have decided and not appended yet.                        *)
(***************************************************************************)
\* The events of a batch are founded on the log and on each other; id is the
\* one minted for the request.
Founded(batch, id, L) ==
  \/ /\ Len(batch) = 3
     /\ batch[1].type = "ConversationCreated" /\ batch[1].conversation = id
     /\ batch[2].type = "ThreadStarted" /\ batch[2].conversation = id /\ batch[2].thread = id
     /\ batch[3].type = "MessagePosted" /\ batch[3].conversation = id /\ batch[3].thread = id
  \/ /\ Len(batch) = 2
     /\ batch[1].type = "ThreadStarted" /\ batch[1].thread = id
     /\ batch[2].type = "MessagePosted" /\ batch[2].thread = id
     /\ batch[2].conversation = batch[1].conversation
     /\ \E q \in 1..Len(L) : Creates(L, q, batch[1].conversation)
  \/ /\ Len(batch) = 1
     /\ batch[1].type \in {"MessagePosted", "ParticipantAdded", "ParticipantRemoved"}
     /\ \E q \in 1..Len(L) : Starts(L, q, batch[1].conversation, batch[1].thread)

\* An id that a request has not used yet is in no event that mints one.
IdsOK ==
  \A s \in 1..Len(records) :
    LET e == records[s].event IN
    /\ e.type = "ConversationCreated" =>
         e.conversation \in Request /\ appended[e.conversation].last # 0
    /\ e.type = "ThreadStarted" => e.thread \in Request /\ appended[e.thread].last # 0

DecisionsOK ==
  \A r \in Request :
    decision[r].status = "append" /\ appended[r].last = 0 => Founded(decision[r].batch, r, records)

\* A thread's first message follows it, in the same batch.
FirstMessageOK ==
  \A s \in 1..Len(records) :
    records[s].event.type = "ThreadStarted" =>
      /\ \E r \in Request : appended[r].first <= s /\ s + 1 <= appended[r].last
      /\ s + 1 \in 1..Len(records)
      /\ s + 1 \in PostsIn(records, records[s].event.conversation, records[s].event.thread)

\* Every reader holds a view that only grew since it got it.
HeldOK ==
  /\ DOMAIN held = Reader
  /\ \A k \in Reader : Holds(projection, held[k].view, held[k].seen)

\* All of it, with the log of the store and up to the checkpoint.
ReadModelInv ==
  /\ MemoryInv
  /\ Causal(records)
  /\ IdsOK
  /\ DecisionsOK
  /\ FirstMessageOK
  /\ Projected(projection, records, checkpoint)
  /\ TablesOK(tables, records, checkpoint)
  /\ SameMembers(projection, tables)
  /\ HeldOK

-----------------------------------------------------------------------------
\* ListByConversation returns the events of the conversation and no others.
LEMMA ListedEvents ==
  ASSUME Causal(records), NEW c
  PROVE  LET events == ListByConversation(c) IN
         /\ IsList(events)
         /\ \A i \in DOMAIN events : \E s \in 1..Len(records) :
              events[i] = records[s].event /\ records[s].event.conversation = c
         /\ \A s \in 1..Len(records) : records[s].event.conversation = c =>
              \E i \in 1..Len(events) : events[i] = records[s].event
<1> DEFINE positions == {s \in DOMAIN records : records[s].event.conversation = c}
           found == Pick(records, positions)
           events == ListByConversation(c)
<1>1. IsList(records) /\ DOMAIN records = 1..Len(records)
  BY LogFacts DEF Causal
<1>2. IsList(found) /\ Range(found) = {records[i] : i \in DOMAIN records \cap positions}
  BY <1>1, PickFacts
<1>3. events = [i \in DOMAIN found |-> found[i].event]
  BY DEF ListByConversation
<1>4. DOMAIN found = 1..Len(found) /\ Len(found) \in Nat
  BY <1>2, ListFacts
<1> HIDE DEF found, events
<1>5. DOMAIN events = 1..Len(found) /\ events = [i \in 1..Len(found) |-> events[i]]
  BY <1>3, <1>4
<1>6. IsList(events) /\ Len(events) = Len(found)
  BY <1>4, <1>5, FunctionIsList
<1>7. ASSUME NEW i \in DOMAIN events
      PROVE  \E s \in 1..Len(records) : events[i] = records[s].event /\ records[s].event.conversation = c
  <2>1. found[i] \in Range(found) /\ events[i] = found[i].event
    BY <1>3 DEF Range
  <2> QED
    BY <1>1, <1>2, <2>1
<1>8. ASSUME NEW s \in 1..Len(records), records[s].event.conversation = c
      PROVE  \E i \in 1..Len(events) : events[i] = records[s].event
  <2>1. records[s] \in Range(found)
    BY <1>1, <1>2, <1>8
  <2>2. PICK i \in DOMAIN found : found[i] = records[s]
    BY <2>1 DEF Range
  <2> QED
    BY <1>3, <1>4, <1>6, <2>2
<1> QED
  BY <1>6, <1>7, <1>8 DEF events

\* A thread that has been started is in a conversation that has been created.
LEMMA CreatedBefore ==
  ASSUME NEW L, Causal(L), NEW s \in 1..Len(L), NEW c, NEW t, Starts(L, s, c, t)
  PROVE  \E q \in 1..Len(L) : Creates(L, q, c)
<1>1. Rooted(L, s) /\ Len(L) \in Nat
  BY LogFacts DEF Causal
<1>2. PICK q \in 1..(s - 1) : Creates(L, q, c)
  BY <1>1 DEF Rooted, Starts
<1>3. q \in 1..Len(L)
  BY <1>1
<1> QED
  BY <1>2, <1>3

\* The aggregate's threads were started, and then it has its id.
LEMMA KnownToAggregate ==
  ASSUME Causal(records), NEW c, NEW t,
         t \in DOMAIN RehydrateConversation(ListByConversation(c)).threads
  PROVE  /\ RehydrateConversation(ListByConversation(c)).id = c
         /\ \E q \in 1..Len(records) : Starts(records, q, c, t)
<1> DEFINE events == ListByConversation(c)
           conv == RehydrateConversation(events)
<1>1. /\ IsList(events)
      /\ \A i \in DOMAIN events : \E s \in 1..Len(records) :
           events[i] = records[s].event /\ records[s].event.conversation = c
      /\ \A s \in 1..Len(records) : records[s].event.conversation = c =>
           \E i \in 1..Len(events) : events[i] = records[s].event
  BY ListedEvents
<1>2. t \in DOMAIN conv.threads
  OBVIOUS
<1> HIDE DEF events
<1>3. Rehydrated(conv, events, Len(events), c)
  BY <1>1, AggregateFacts
<1>4. DOMAIN events = 1..Len(events) /\ Len(records) \in Nat
  BY <1>1, ListFacts, LogFacts
<1> HIDE DEF conv
<1>5. PICK id, threads :
        /\ conv = [id |-> id, threads |-> threads]
        /\ (\E i \in 1..Len(events) : events[i].type = "ConversationCreated") => id = c
        /\ \A u \in DOMAIN threads : \E i \in 1..Len(events) : u \in Gains(events[i])
  BY <1>3 DEF Rehydrated
<1>6. conv.id = id /\ conv.threads = threads
  BY <1>5
<1>7. PICK i \in 1..Len(events) : t \in Gains(events[i])
  BY <1>2, <1>5, <1>6
<1>8. PICK s \in 1..Len(records) : events[i] = records[s].event /\ records[s].event.conversation = c
  BY <1>1, <1>4
<1>9. records[s].event.type \in {"ThreadStarted", "ParticipantAdded"} /\ records[s].event.thread = t
  BY <1>7, <1>8 DEF Gains
<1>10. \E q \in 1..Len(records) : Starts(records, q, c, t)
  <2>1. CASE records[s].event.type = "ThreadStarted"
    BY <1>8, <1>9, <2>1 DEF Starts
  <2>2. CASE records[s].event.type = "ParticipantAdded"
    <3>1. PICK q \in 1..(s - 1) : Starts(records, q, c, t)
      BY <1>8, <1>9, <2>2, StartedBefore
    <3>2. q \in 1..Len(records)
      BY <1>4
    <3> QED
      BY <3>1, <3>2
  <2> QED
    BY <1>9, <2>1, <2>2
<1>11. PICK q \in 1..Len(records) : Creates(records, q, c)
  BY <1>10, CreatedBefore
<1>12. \E j \in 1..Len(events) : events[j].type = "ConversationCreated"
  BY <1>1, <1>11 DEF Creates
<1>13. conv.id = c
  BY <1>5, <1>6, <1>12
<1> QED
  BY <1>10, <1>13 DEF conv, events

\* What an outcome appends is founded.
Sound(outcome, id) == outcome.status = "append" => Founded(outcome.batch, id, records)

\* A refusal appends nothing.
LEMMA AnswerSound ==
  ASSUME NEW code, code # "append", NEW id
  PROVE  Sound(Answer(code), id)
BY DEF Sound, Answer

\* A change of participants is about a thread that the aggregate knows, and
\* that the log has started.
LEMMA ManageSound ==
  ASSUME Causal(records), NEW cmd, NEW id
  PROVE  Sound(ManageThreadParticipant(cmd, ListByConversation(cmd.conversation)), id)
<1> DEFINE c == cmd.conversation
           events == ListByConversation(c)
           conv == RehydrateConversation(events)
           outcome == ManageThreadParticipant(cmd, events)
           added == ToAppend(<<ParticipantAdded(conv.id, cmd.thread, cmd.participant)>>)
           removed == ToAppend(<<ParticipantRemoved(conv.id, cmd.thread, cmd.participant)>>)
<1>1. \/ outcome \in {Answer("400"), Answer("404"), Answer("204")}
      \/ outcome \in {added, removed} /\ cmd.thread \in DOMAIN conv.threads
  BY DEF ManageThreadParticipant, AddParticipant, RemoveParticipant
<1>2. CASE outcome \in {Answer("400"), Answer("404"), Answer("204")}
  BY <1>2, AnswerSound
<1>3. CASE outcome \in {added, removed} /\ cmd.thread \in DOMAIN conv.threads
  <2>1. conv.id = c /\ \E q \in 1..Len(records) : Starts(records, q, c, cmd.thread)
    BY <1>3, KnownToAggregate
  <2> HIDE DEF conv, c
  <2>2. outcome.batch \in {<<ParticipantAdded(c, cmd.thread, cmd.participant)>>,
                           <<ParticipantRemoved(c, cmd.thread, cmd.participant)>>}
    BY <1>3, <2>1 DEF ToAppend
  <2> DEFINE batch == outcome.batch
  <2> HIDE DEF batch
  <2>3. /\ Len(batch) = 1
        /\ batch[1].type \in {"ParticipantAdded", "ParticipantRemoved"}
        /\ batch[1].conversation = c /\ batch[1].thread = cmd.thread
    BY <2>2 DEF batch, ParticipantAdded, ParticipantRemoved
  <2>4. Founded(batch, id, records)
    BY <2>1, <2>3 DEF Founded
  <2> QED
    BY <2>4 DEF batch, Sound, c
<1> QED
  BY <1>1, <1>2, <1>3

-----------------------------------------------------------------------------
\* One list behind another.
Joined(s, t, u) ==
  /\ IsList(u)
  /\ Len(u) = Len(s) + Len(t)
  /\ \A i \in 1..Len(s) : u[i] = s[i]
  /\ \A i \in 1..Len(t) : u[Len(s) + i] = t[i]

\* Concatenation is one list behind another.
LEMMA ListConcat ==
  ASSUME NEW s, IsList(s), NEW t, IsList(t)
  PROVE  Joined(s, t, s \o t)
<1> DEFINE S == Range(s) \cup Range(t)
<1>1. s \in Seq(S) /\ t \in Seq(S)
  BY DEF IsList
<1> HIDE DEF S
<1>2. /\ s \o t \in Seq(S)
      /\ Len(s \o t) = Len(s) + Len(t)
      /\ \A i \in 1..Len(s) : (s \o t)[i] = s[i]
      /\ \A i \in 1..Len(t) : (s \o t)[Len(s) + i] = t[i]
  BY <1>1
<1>3. IsList(s \o t)
  BY <1>2, SeqIsList
<1> QED
  BY <1>2, <1>3 DEF Joined

\* A new conversation is founded on its own id.
LEMMA StartSound ==
  ASSUME NEW cmd, NEW id
  PROVE  Sound(StartConversation(cmd, id), id)
<1> DEFINE outcome == StartConversation(cmd, id)
           created == ConversationCreated(id)
           started == ThreadStarted(id, id, cmd.author, cmd.recipients)
           posted == MessagePosted(id, id, cmd.author)
           batch == <<created>> \o <<started, posted>>
<1>1. outcome \in {Answer("400"), ToAppend(batch)}
  BY DEF StartConversation, NewThread
<1>2. Len(batch) = 3 /\ batch[1] = created /\ batch[2] = started /\ batch[3] = posted
  <2> DEFINE one == <<created>>
             two == <<started, posted>>
             S == {created, started, posted}
  <2> HIDE DEF created, started, posted
  <2>1. /\ one \in Seq(S) /\ Len(one) = 1 /\ one[1] = created
        /\ two \in Seq(S) /\ Len(two) = 2 /\ two[1] = started /\ two[2] = posted
    OBVIOUS
  <2> HIDE DEF one, two, S
  <2>2. Joined(one, two, one \o two)
    BY <2>1, SeqIsList, ListConcat
  <2> DEFINE both == one \o two
  <2> HIDE DEF both
  <2>3. /\ Len(both) = 1 + 2
        /\ \A i \in 1..1 : both[i] = one[i]
        /\ \A i \in 1..2 : both[1 + i] = two[i]
    BY <2>1, <2>2 DEF Joined, both
  <2>4. Len(both) = 3 /\ both[1] = one[1] /\ both[2] = two[1] /\ both[3] = two[2]
    BY <2>3
  <2> QED
    BY <2>1, <2>4 DEF one, two, both
<1>3. /\ created.type = "ConversationCreated" /\ created.conversation = id
      /\ started.type = "ThreadStarted" /\ started.conversation = id /\ started.thread = id
      /\ posted.type = "MessagePosted" /\ posted.conversation = id /\ posted.thread = id
  BY DEF ConversationCreated, ThreadStarted, MessagePosted
<1> HIDE DEF created, started, posted, batch, outcome
<1>4. Founded(batch, id, records)
  BY <1>2, <1>3 DEF Founded
<1>5. Sound(ToAppend(batch), id)
  BY <1>4 DEF Sound, ToAppend
<1> QED
  BY <1>1, <1>5, AnswerSound DEF outcome

\* A conversation that exists in the projection was created.
LEMMA ExistingIsCreated ==
  ASSUME Causal(records), NEW n \in Nat, n <= Len(records), NEW p, Projected(p, records, n),
         NEW c, Exists(p, c)
  PROVE  c \in DOMAIN p.conversations /\ \E q \in 1..Len(records) : Creates(records, q, c)
<1>1. c \in DOMAIN p.conversations
  BY DEF Exists, ViewOf, NoThreads
<1>2. PICK q \in 1..n : Creates(records, q, c)
  BY <1>1, KnownIsCreated DEF Projected
<1>3. q \in 1..Len(records)
  BY LogFacts
<1> QED
  BY <1>1, <1>2, <1>3

\* A new thread is founded on a conversation that the projection shows.
LEMMA AddThreadSound ==
  ASSUME Causal(records), NEW n \in Nat, n <= Len(records), NEW p, Projected(p, records, n),
         NEW cmd, NEW id
  PROVE  Sound(AddThread(cmd, id, Exists(p, cmd.conversation)), id)
<1> DEFINE c == cmd.conversation
           outcome == AddThread(cmd, id, Exists(p, c))
           started == ThreadStarted(c, id, cmd.author, cmd.recipients)
           posted == MessagePosted(c, id, cmd.author)
           batch == <<started, posted>>
<1>1. \/ outcome \in {Answer("400"), Answer("404")}
      \/ outcome = ToAppend(batch) /\ Exists(p, c)
  BY DEF AddThread, NewThread
<1>2. /\ started.type = "ThreadStarted" /\ started.conversation = c /\ started.thread = id
      /\ posted.type = "MessagePosted" /\ posted.conversation = c /\ posted.thread = id
  BY DEF ThreadStarted, MessagePosted
<1> HIDE DEF started, posted, outcome
<1>3. Len(batch) = 2 /\ batch[1] = started /\ batch[2] = posted
  OBVIOUS
<1> HIDE DEF batch
<1>4. CASE outcome = ToAppend(batch) /\ Exists(p, c)
  <2>1. \E q \in 1..Len(records) : Creates(records, q, c)
    BY <1>4, ExistingIsCreated
  <2>2. Founded(batch, id, records)
    BY <1>2, <1>3, <2>1 DEF Founded
  <2>3. Sound(outcome, id)
    BY <1>4, <2>2 DEF Sound, ToAppend
  <2> QED
    BY <2>3 DEF outcome
<1> QED
  BY <1>1, <1>4, AnswerSound DEF outcome

\* A thread that Get returns was started.
LEMMA ShownIsStarted ==
  ASSUME Causal(records), NEW n \in Nat, n <= Len(records), NEW p, Projected(p, records, n),
         NEW c, NEW t \in DOMAIN ThreadsById(p, c)
  PROVE  \E q \in 1..Len(records) : Starts(records, q, c, t)
<1> DEFINE threads == ThreadsIn(p, ViewOf(p, c))
<1>1. PICK i \in DOMAIN threads : threads[i].id = t
  BY DEF ThreadsById
<1>2. c \in DOMAIN p.conversations
  <2> SUFFICES ASSUME c \notin DOMAIN p.conversations PROVE FALSE
    OBVIOUS
  <2>1. threads = <<>>
    BY DEF ViewOf, NoThreads, ThreadsIn
  <2> QED
    BY <1>1, <2>1
<1> DEFINE v == p.conversations[c]
<1>3. threads = ThreadsIn(p, v)
  BY <1>2 DEF ViewOf
<1>4. ShapeOK(p) /\ ViewOK(p, v)
  BY <1>2 DEF Projected, ShapeOK
<1>5. /\ v.len \in Nat /\ IsList(threads) /\ Len(threads) = v.len
      /\ \A j \in 1..v.len : threads[j] = p.arrays[v.array][j]
  BY <1>3, <1>4, ViewShows
<1> HIDE DEF threads
<1>6. i \in 1..v.len
  BY <1>1, <1>5, ListFacts
<1>7. Slot(p, records, n, c, i)
  BY <1>2, <1>6, SlotFacts
<1> DEFINE s == InOrder(n, StartsIn(records, c))[i]
<1>8. /\ s \in 1..Len(records)
      /\ Starts(records, s, c, records[s].event.thread)
      /\ p.arrays[v.array][i].id = records[s].event.thread
  BY <1>7 DEF Slot
<1>9. records[s].event.thread = t
  BY <1>1, <1>5, <1>6, <1>8
<1> HIDE DEF s
<1> QED
  BY <1>8, <1>9

\* A reply is founded on a thread that the projection shows.
LEMMA ReplySound ==
  ASSUME Causal(records), NEW n \in Nat, n <= Len(records), NEW p, Projected(p, records, n),
         NEW cmd, NEW id
  PROVE  Sound(ReplyToThread(cmd, ThreadsById(p, cmd.conversation)), id)
<1> DEFINE c == cmd.conversation
           threads == ThreadsById(p, c)
           outcome == ReplyToThread(cmd, threads)
           posted == MessagePosted(c, cmd.thread, cmd.author)
<1>1. \/ outcome \in {Answer("400"), Answer("404"), Answer("403")}
      \/ outcome = ToAppend(<<posted>>) /\ cmd.thread \in DOMAIN threads
  <2> HIDE DEF threads
  <2> QED
    BY DEF ReplyToThread, AuthorizeReply
<1>2. posted.type = "MessagePosted" /\ posted.conversation = c /\ posted.thread = cmd.thread
  BY DEF MessagePosted
<1> HIDE DEF posted
<1>3. CASE outcome = ToAppend(<<posted>>) /\ cmd.thread \in DOMAIN threads
  <2>1. \E q \in 1..Len(records) : Starts(records, q, c, cmd.thread)
    BY <1>3, ShownIsStarted
  <2>2. Len(<<posted>>) = 1 /\ <<posted>>[1] = posted
    OBVIOUS
  <2>3. Founded(<<posted>>, id, records)
    BY <1>2, <2>1, <2>2 DEF Founded
  <2> HIDE DEF outcome
  <2> QED
    BY <1>3, <2>3 DEF Sound, ToAppend, outcome
<1> HIDE DEF outcome
<1> QED
  BY <1>1, <1>3, AnswerSound DEF outcome

\* Whatever a use case decides to append is founded on the log.
LEMMA OutcomeSound ==
  ASSUME Causal(records), NEW n \in Nat, n <= Len(records), Projected(projection, records, n),
         NEW cmd, NEW id
  PROVE  Sound(Outcome(cmd, id), id)
<1>1. Outcome(cmd, id) \in {StartConversation(cmd, id),
                            AddThread(cmd, id, Exists(projection, cmd.conversation)),
                            ReplyToThread(cmd, ThreadsById(projection, cmd.conversation)),
                            ManageThreadParticipant(cmd, ListByConversation(cmd.conversation))}
  BY DEF Outcome
<1> QED
  BY <1>1, StartSound, AddThreadSound, ReplySound, ManageSound

-----------------------------------------------------------------------------
(***************************************************************************)
(* A longer log says the same of the first n events.                       *)
(***************************************************************************)
LEMMA SameEvents ==
  ASSUME NEW L, NEW M, Extends(L, M), NEW n \in Nat, n <= Len(L)
  PROVE  /\ \A s \in 1..n : s \in DOMAIN L /\ s \in DOMAIN M /\ M[s] = L[s]
         /\ \A c : InOrder(n, StartsIn(M, c)) = InOrder(n, StartsIn(L, c))
         /\ \A c, t : InOrder(n, PostsIn(M, c, t)) = InOrder(n, PostsIn(L, c, t))
<1>1. /\ Len(L) \in Nat /\ Len(M) \in Nat /\ Len(L) <= Len(M)
      /\ DOMAIN L = 1..Len(L) /\ DOMAIN M = 1..Len(M)
      /\ \A s \in 1..Len(L) : M[s] = L[s]
  BY ListFacts DEF Extends
<1>2. \A s \in 1..n : s \in 1..Len(L) /\ s \in 1..Len(M)
  BY <1>1
<1>3. \A s \in 1..n : s \in DOMAIN L /\ s \in DOMAIN M /\ M[s] = L[s]
  BY <1>1, <1>2
<1>4. ASSUME NEW c
      PROVE  InOrder(n, StartsIn(M, c)) = InOrder(n, StartsIn(L, c))
  <2>1. \A s \in 1..n : s \in StartsIn(M, c) <=> s \in StartsIn(L, c)
    BY <1>3 DEF StartsIn
  <2> QED
    BY <2>1, InOrderSame
<1>5. ASSUME NEW c, NEW t
      PROVE  InOrder(n, PostsIn(M, c, t)) = InOrder(n, PostsIn(L, c, t))
  <2>1. \A s \in 1..n : s \in PostsIn(M, c, t) <=> s \in PostsIn(L, c, t)
    BY <1>3 DEF PostsIn
  <2> QED
    BY <2>1, InOrderSame
<1> QED
  BY <1>3, <1>4, <1>5

\* The projection does not change when the log grows.
LEMMA ProjectedLonger ==
  ASSUME NEW L, Causal(L), NEW M, Extends(L, M), NEW n \in Nat, n <= Len(L),
         NEW p, Projected(p, L, n)
  PROVE  Projected(p, M, n)
<1>1. /\ \A s \in 1..n : M[s] = L[s]
      /\ \A c : InOrder(n, StartsIn(M, c)) = InOrder(n, StartsIn(L, c))
      /\ \A c, t : InOrder(n, PostsIn(M, c, t)) = InOrder(n, PostsIn(L, c, t))
  BY SameEvents
<1>2. ShapeOK(p) /\ ConversationsOK(p, L, n) /\ LatestOK(p, L, n)
  BY DEF Projected
<1>3. ConversationsOK(p, M, n)
  <2>1. {q \in 1..n : M[q].event.type = "ConversationCreated"}
          = {q \in 1..n : L[q].event.type = "ConversationCreated"}
    BY <1>1
  <2>2. {M[s].event.conversation : s \in {q \in 1..n : M[q].event.type = "ConversationCreated"}}
          = {L[s].event.conversation : s \in {q \in 1..n : L[q].event.type = "ConversationCreated"}}
    BY <1>1, <2>1
  <2> QED
    BY <1>2, <2>2 DEF ConversationsOK
<1>4. LatestOK(p, M, n)
  <2>1. \A s \in 1..n : M[s].event.type = "MessagePosted" =>
          /\ M[s].event.thread \in DOMAIN p.latestMessageAt
          /\ p.latestMessageAt[M[s].event.thread] >= M[s].at
    BY <1>1, <1>2 DEF LatestOK
  <2>2. \A t \in DOMAIN p.latestMessageAt :
          \E s \in 1..n : /\ M[s].event.type = "MessagePosted"
                          /\ M[s].event.thread = t
                          /\ p.latestMessageAt[t] = M[s].at
    BY <1>1, <1>2 DEF LatestOK
  <2> QED
    BY <2>1, <2>2 DEF LatestOK
<1>5. ASSUME NEW c \in DOMAIN p.conversations
      PROVE  ListOK(p, M, n, c)
  <2> DEFINE starts == InOrder(n, StartsIn(L, c))
             v == p.conversations[c]
  <2>1. /\ v.len = Len(starts)
        /\ \A i \in 1..Len(starts) : SlotOK(p, L, n, c, starts[i], p.arrays[v.array][i])
    BY DEF Projected, ListOK
  <2>2. InOrder(n, StartsIn(M, c)) = starts
    BY <1>1
  <2>3. Ascends(starts, n, StartsIn(L, c))
    BY InOrderAscends
  <2> HIDE DEF starts
  <2>4. ASSUME NEW i \in 1..Len(starts)
        PROVE  SlotOK(p, M, n, c, starts[i], p.arrays[v.array][i])
    <3>1. starts[i] \in 1..n
      BY <2>3 DEF Ascends
    <3>2. M[starts[i]] = L[starts[i]]
      BY <1>1, <3>1
    <3>3. SlotOK(p, L, n, c, starts[i], p.arrays[v.array][i])
      BY <2>1
    <3> QED
      BY <1>1, <3>2, <3>3 DEF SlotOK
  <2> QED
    BY <2>1, <2>2, <2>4 DEF ListOK
<1> QED
  BY <1>2, <1>3, <1>4, <1>5 DEF Projected

\* Nor do the tables.
LEMMA TablesLonger ==
  ASSUME NEW L, NEW M, Extends(L, M), NEW n \in Nat, n <= Len(L), NEW tb, TablesOK(tb, L, n)
  PROVE  TablesOK(tb, M, n)
<1>1. \A s \in 1..n : M[s] = L[s]
  BY SameEvents
<1>2. \A type : {q \in 1..n : M[q].event.type = type} = {q \in 1..n : L[q].event.type = type}
  BY <1>1
<1>3. \A s \in 1..n : KeyAt(M, s) = KeyAt(L, s) /\ RowAt(M, s) = RowAt(L, s)
  BY <1>1 DEF KeyAt, RowAt
<1>4. {M[s].event.conversation : s \in {q \in 1..n : M[q].event.type = "ConversationCreated"}}
        = {L[s].event.conversation : s \in {q \in 1..n : L[q].event.type = "ConversationCreated"}}
  BY <1>1, <1>2
<1>5. {KeyAt(M, s) : s \in {q \in 1..n : M[q].event.type = "ThreadStarted"}}
        = {KeyAt(L, s) : s \in {q \in 1..n : L[q].event.type = "ThreadStarted"}}
  BY <1>2, <1>3
<1>6. {RowAt(M, s) : s \in {q \in 1..n : M[q].event.type = "MessagePosted"}}
        = {RowAt(L, s) : s \in {q \in 1..n : L[q].event.type = "MessagePosted"}}
  BY <1>2, <1>3
<1>7. \A s \in 1..n : M[s].event.type = "ThreadStarted" =>
        tb.threads[KeyAt(M, s)] = [sequence |-> s, participants |-> tb.threads[KeyAt(M, s)].participants]
  <2> TAKE s \in 1..n
  <2>1. KeyAt(M, s) = KeyAt(L, s) /\ M[s].event.type = L[s].event.type
    BY <1>1, <1>3
  <2> QED
    BY <2>1 DEF TablesOK
<1> QED
  BY <1>4, <1>5, <1>6, <1>7 DEF TablesOK

\* What is in the log is founded on what comes before it.
LEMMA RootedLonger ==
  ASSUME NEW L, NEW M, Extends(L, M), NEW s \in 1..Len(L), Rooted(L, s)
  PROVE  Rooted(M, s)
<1>1. Len(L) \in Nat
  BY ListFacts DEF Extends
<1>2. M[s] = L[s]
  BY DEF Extends
<1>3. \A q \in 1..(s - 1) : M[q] = L[q]
  <2>1. \A q \in 1..(s - 1) : q \in 1..Len(L)
    BY <1>1
  <2> QED
    BY <2>1 DEF Extends
<1>4. \A q \in 1..(s - 1) : \A c, t : /\ Creates(M, q, c) <=> Creates(L, q, c)
                                      /\ Starts(M, q, c, t) <=> Starts(L, q, c, t)
  BY <1>3 DEF Creates, Starts
<1> QED
  BY <1>2, <1>3, <1>4 DEF Rooted

\* A batch that is founded stays so.
LEMMA FoundedLonger ==
  ASSUME NEW L, NEW M, Extends(L, M), NEW batch, NEW id, Founded(batch, id, L)
  PROVE  Founded(batch, id, M)
<1>1. Len(L) \in Nat /\ Len(M) \in Nat /\ Len(L) <= Len(M) /\ \A q \in 1..Len(L) : M[q] = L[q]
  BY ListFacts DEF Extends
<1>2. \A q \in 1..Len(L) : q \in 1..Len(M)
  BY <1>1
<1>3. \A c : (\E q \in 1..Len(L) : Creates(L, q, c)) => \E q \in 1..Len(M) : Creates(M, q, c)
  BY <1>1, <1>2 DEF Creates
<1>4. \A c, t : (\E q \in 1..Len(L) : Starts(L, q, c, t)) => \E q \in 1..Len(M) : Starts(M, q, c, t)
  BY <1>1, <1>2 DEF Starts
<1> QED
  BY <1>3, <1>4 DEF Founded

-----------------------------------------------------------------------------
\* The log M is L and behind it the events of a batch.
LogGrows(L, M, batch, now) ==
  /\ Extends(L, M)
  /\ Len(batch) \in 1..3
  /\ Len(M) = Len(L) + Len(batch)
  /\ \A i \in 1..Len(batch) : M[Len(L) + i].event = batch[i] /\ M[Len(L) + i].at = now

\* No event of the log has minted the id.
Unused(L, id) ==
  \A s \in 1..Len(L) :
    /\ L[s].event.type = "ConversationCreated" => L[s].event.conversation # id
    /\ L[s].event.type = "ThreadStarted" => L[s].event.thread # id

\* An event of a batch mints the batch's id, and a thread's first message
\* follows it.
Mints(M, s, id) ==
  /\ M[s].event.type = "ConversationCreated" => M[s].event.conversation = id
  /\ M[s].event.type = "ThreadStarted" =>
       /\ M[s].event.thread = id
       /\ s + 1 \in 1..Len(M)
       /\ s + 1 \in PostsIn(M, M[s].event.conversation, M[s].event.thread)

\* An event of the longer log is an old one or one of the batch.
LEMMA LogGrowsFacts ==
  ASSUME NEW L, NEW M, NEW batch, NEW now, LogGrows(L, M, batch, now)
  PROVE  /\ Len(L) \in Nat /\ Len(M) \in Nat /\ DOMAIN M = 1..Len(M)
         /\ Len(L) <= Len(M)
         /\ \A s \in 1..Len(L) : s \in 1..Len(M) /\ M[s] = L[s]
         /\ \A i \in 1..Len(batch) : Len(L) + i \in 1..Len(M)
         /\ \A s \in 1..Len(M) : s \in 1..Len(L) \/ \E i \in 1..Len(batch) : s = Len(L) + i
<1>1. /\ Len(L) \in Nat /\ Len(M) \in Nat /\ DOMAIN M = 1..Len(M)
      /\ Len(M) = Len(L) + Len(batch) /\ Len(batch) \in Nat
      /\ \A s \in 1..Len(L) : M[s] = L[s]
  BY ListFacts DEF LogGrows, Extends
<1>2. \A s \in 1..Len(L) : s \in 1..Len(M)
  BY <1>1
<1>3. \A i \in 1..Len(batch) : Len(L) + i \in 1..Len(M)
  BY <1>1
<1>4. ASSUME NEW s \in 1..Len(M), s \notin 1..Len(L)
      PROVE  \E i \in 1..Len(batch) : s = Len(L) + i
  <2>1. s - Len(L) \in 1..Len(batch) /\ s = Len(L) + (s - Len(L))
    BY <1>1, <1>4
  <2> QED
    BY <2>1
<1>5. Len(L) <= Len(M)
  BY <1>1
<1> QED
  BY <1>1, <1>2, <1>3, <1>4, <1>5

\* A new conversation, its thread and the first message.
LEMMA NewConversationRooted ==
  ASSUME NEW L, Causal(L), NEW id, Unused(L, id), NEW batch, NEW now \in Nat, NEW M,
         LogGrows(L, M, batch, now), Len(batch) = 3,
         batch[1].type = "ConversationCreated", batch[1].conversation = id,
         batch[2].type = "ThreadStarted", batch[2].conversation = id, batch[2].thread = id,
         batch[3].type = "MessagePosted", batch[3].conversation = id, batch[3].thread = id
  PROVE  \A i \in 1..Len(batch) : Rooted(M, Len(L) + i) /\ Mints(M, Len(L) + i, id)
<1> DEFINE l == Len(L)
<1>1. l \in Nat /\ Len(M) = l + 3 /\ DOMAIN M = 1..Len(M) /\ \A s \in 1..l : M[s] = L[s]
  <2>1. Len(M) = l + 3
    BY DEF LogGrows
  <2> QED
    BY <2>1, LogGrowsFacts
<1>2. /\ M[l + 1].event = batch[1] /\ M[l + 1].at = now
      /\ M[l + 2].event = batch[2] /\ M[l + 2].at = now
      /\ M[l + 3].event = batch[3] /\ M[l + 3].at = now
  BY DEF LogGrows
<1> HIDE DEF l
<1>3. /\ \A s \in 1..l : M[s].event.type = "ConversationCreated" => M[s].event.conversation # id
      /\ \A s \in 1..l : M[s].event.type = "ThreadStarted" => M[s].event.thread # id
  BY <1>1 DEF Unused, l
<1>4. /\ 1..((l + 1) - 1) = 1..l
      /\ \A s \in 1..((l + 2) - 1) : s \in 1..l \/ s = l + 1
      /\ l + 1 \in 1..((l + 2) - 1)
      /\ l + 2 \in 1..((l + 3) - 1)
      /\ (l + 2) + 1 = l + 3
      /\ l + 3 \in 1..(l + 3)
  BY <1>1
<1>5. Rooted(M, l + 1)
  BY <1>2, <1>3, <1>4 DEF Rooted, Types, Creates
<1>6. Rooted(M, l + 2)
  <2>1. \A s \in 1..((l + 2) - 1) : M[s].event.type = "ThreadStarted" => M[s].event.thread # id
    BY <1>2, <1>3, <1>4
  <2>2. Creates(M, l + 1, id)
    BY <1>2 DEF Creates
  <2> QED
    BY <1>2, <1>4, <2>1, <2>2 DEF Rooted, Types
<1>7. Rooted(M, l + 3)
  <2>1. Starts(M, l + 2, id, id)
    BY <1>2 DEF Starts
  <2> QED
    BY <1>2, <1>4, <2>1 DEF Rooted, Types
<1>8. Mints(M, l + 1, id) /\ Mints(M, l + 2, id) /\ Mints(M, l + 3, id)
  <2>1. l + 3 \in PostsIn(M, id, id)
    BY <1>1, <1>2, <1>4 DEF PostsIn
  <2> QED
    BY <1>1, <1>2, <1>4, <2>1 DEF Mints
<1>9. \A i \in 1..3 : i = 1 \/ i = 2 \/ i = 3
  OBVIOUS
<1> QED
  BY <1>5, <1>6, <1>7, <1>8, <1>9 DEF l

\* A new thread and the first message.
LEMMA NewThreadRooted ==
  ASSUME NEW L, Causal(L), NEW id, Unused(L, id), NEW batch, NEW now \in Nat, NEW M,
         LogGrows(L, M, batch, now), Len(batch) = 2,
         batch[1].type = "ThreadStarted", batch[1].thread = id,
         batch[2].type = "MessagePosted", batch[2].thread = id,
         batch[2].conversation = batch[1].conversation,
         \E q \in 1..Len(L) : Creates(L, q, batch[1].conversation)
  PROVE  \A i \in 1..Len(batch) : Rooted(M, Len(L) + i) /\ Mints(M, Len(L) + i, id)
<1> DEFINE l == Len(L)
           c == batch[1].conversation
<1>1. l \in Nat /\ Len(M) = l + 2 /\ DOMAIN M = 1..Len(M) /\ \A s \in 1..l : M[s] = L[s]
  <2>1. Len(M) = l + 2
    BY DEF LogGrows
  <2> QED
    BY <2>1, LogGrowsFacts
<1>2. /\ M[l + 1].event = batch[1] /\ M[l + 1].at = now
      /\ M[l + 2].event = batch[2] /\ M[l + 2].at = now
  BY DEF LogGrows
<1>3. PICK q \in 1..l : Creates(L, q, c)
  OBVIOUS
<1> HIDE DEF l
<1>4. \A s \in 1..l : M[s].event.type = "ThreadStarted" => M[s].event.thread # id
  BY <1>1 DEF Unused, l
<1>5. /\ 1..((l + 1) - 1) = 1..l
      /\ l + 1 \in 1..((l + 2) - 1)
      /\ (l + 1) + 1 = l + 2
      /\ l + 2 \in 1..(l + 2)
  BY <1>1
<1>6. Rooted(M, l + 1)
  <2>1. Creates(M, q, c)
    BY <1>1, <1>3 DEF Creates
  <2> QED
    BY <1>2, <1>4, <1>5, <2>1 DEF Rooted, Types
<1>7. Rooted(M, l + 2)
  <2>1. Starts(M, l + 1, c, id)
    BY <1>2 DEF Starts
  <2> QED
    BY <1>2, <1>5, <2>1 DEF Rooted, Types
<1>8. Mints(M, l + 1, id) /\ Mints(M, l + 2, id)
  <2>1. l + 2 \in PostsIn(M, c, id)
    BY <1>1, <1>2, <1>5 DEF PostsIn
  <2> QED
    BY <1>1, <1>2, <1>5, <2>1 DEF Mints
<1>9. \A i \in 1..2 : i = 1 \/ i = 2
  OBVIOUS
<1> QED
  BY <1>6, <1>7, <1>8, <1>9 DEF l

\* An event about a thread that is there.
LEMMA NewEventRooted ==
  ASSUME NEW L, Causal(L), NEW id, NEW batch, NEW now \in Nat, NEW M,
         LogGrows(L, M, batch, now), Len(batch) = 1,
         batch[1].type \in {"MessagePosted", "ParticipantAdded", "ParticipantRemoved"},
         \E q \in 1..Len(L) : Starts(L, q, batch[1].conversation, batch[1].thread)
  PROVE  \A i \in 1..Len(batch) : Rooted(M, Len(L) + i) /\ Mints(M, Len(L) + i, id)
<1> DEFINE l == Len(L)
<1>1. l \in Nat /\ \A s \in 1..l : M[s] = L[s]
  BY LogGrowsFacts
<1>2. M[l + 1].event = batch[1] /\ M[l + 1].at = now
  BY DEF LogGrows
<1>3. PICK q \in 1..l : Starts(L, q, batch[1].conversation, batch[1].thread)
  OBVIOUS
<1> HIDE DEF l
<1>4. 1..((l + 1) - 1) = 1..l
  BY <1>1
<1>5. Rooted(M, l + 1)
  <2>1. Starts(M, q, batch[1].conversation, batch[1].thread)
    BY <1>1, <1>3 DEF Starts
  <2> QED
    BY <1>2, <1>4, <2>1 DEF Rooted, Types
<1>6. Mints(M, l + 1, id)
  BY <1>2 DEF Mints
<1>7. \A i \in 1..1 : i = 1
  OBVIOUS
<1> QED
  BY <1>5, <1>6, <1>7 DEF l

\* A founded batch keeps the log causal.
LEMMA BatchRooted ==
  ASSUME NEW L, Causal(L), NEW id, Unused(L, id), NEW batch, NEW now \in Nat, NEW M,
         LogGrows(L, M, batch, now), Founded(batch, id, L)
  PROVE  /\ Causal(M)
         /\ \A i \in 1..Len(batch) : Mints(M, Len(L) + i, id)
<1>1. \A i \in 1..Len(batch) : Rooted(M, Len(L) + i) /\ Mints(M, Len(L) + i, id)
  BY NewConversationRooted, NewThreadRooted, NewEventRooted DEF Founded
<1>2. Extends(L, M)
  BY DEF LogGrows
<1>3. \A s \in 1..Len(L) : Rooted(M, s)
  BY <1>2, RootedLonger DEF Causal
<1>4. \A s \in 1..Len(M) : Rooted(M, s)
  BY <1>1, <1>3, LogGrowsFacts
<1> QED
  BY <1>1, <1>2, <1>4 DEF Causal, Extends

-----------------------------------------------------------------------------
(***************************************************************************)
(* The invariant of the read model, action by action.                      *)
(***************************************************************************)
\* The empty projection, tables and log agree.
LEMMA ReadModelInit == Init => ReadModelInv
<1> SUFFICES ASSUME Init PROVE ReadModelInv
  OBVIOUS
<1>1. /\ records = <<>> /\ checkpoint = 0 /\ projection = NewProjection
      /\ tables = Postgres!EmptyTables
      /\ decision = [r \in Request |-> Answer("new")]
      /\ held = [k \in Reader |-> [view |-> NoThreads, seen |-> <<>>]]
  BY DEF Init
<1>2. Len(records) = 0 /\ 1..Len(records) = {} /\ 1..checkpoint = {} /\ 1..0 = {}
  BY <1>1
<1>3. IsList(<<>>) /\ Len(<<>>) = 0 /\ DOMAIN <<>> = {}
  <2>1. <<>> \in Seq({}) /\ Len(<<>>) = 0 /\ DOMAIN <<>> = {}
    OBVIOUS
  <2> QED
    BY <2>1, SeqIsList
<1>4. MemoryInv
  BY MemoryInit
<1>5. Causal(records) /\ IdsOK /\ FirstMessageOK
  BY <1>1, <1>2, <1>3 DEF Causal, IdsOK, FirstMessageOK
<1>6. DecisionsOK
  BY <1>1 DEF DecisionsOK, Answer
<1>7. Projected(projection, records, checkpoint)
  <2>1. /\ projection = [conversations |-> <<>>, arrays |-> <<>>, threadSequences |-> <<>>,
                         latestMessageAt |-> <<>>]
    BY <1>1 DEF NewProjection
  <2>2. ShapeOK(projection)
    BY <2>1, <1>3, <1>2 DEF ShapeOK
  <2>3. ConversationsOK(projection, records, checkpoint)
    BY <2>1, <1>2, <1>3 DEF ConversationsOK
  <2>4. LatestOK(projection, records, checkpoint)
    BY <2>1, <1>2, <1>3 DEF LatestOK
  <2>5. \A c \in DOMAIN projection.conversations : FALSE
    BY <2>1, <1>3
  <2> QED
    BY <2>2, <2>3, <2>4, <2>5 DEF Projected
<1>8. TablesOK(tables, records, checkpoint)
  <2>1. tables = [conversations |-> {}, threads |-> <<>>, messages |-> {}]
    BY <1>1 DEF Postgres!EmptyTables
  <2> QED
    BY <2>1, <1>2, <1>3 DEF TablesOK
<1>9. SameMembers(projection, tables)
  BY <1>1, <1>3 DEF SameMembers, NewProjection
<1>10. HeldOK
  BY <1>1 DEF HeldOK, Holds
<1> QED
  BY <1>4, <1>5, <1>6, <1>7, <1>8, <1>9, <1>10 DEF ReadModelInv

\* The log and the checkpoint, as far as the steps need them.
LEMMA LogBounds ==
  ASSUME MemoryInv
  PROVE  /\ checkpoint \in Nat /\ Len(records) \in Nat /\ checkpoint <= Len(records)
         /\ DOMAIN appended = Request
         /\ \A r \in Request : /\ appended[r].first \in Nat /\ appended[r].last \in Nat
                               /\ appended[r].last <= Len(records)
<1>1. PICK S : records \in Seq(S)
  BY DEF MemoryInv, LogOK
<1> QED
  BY <1>1 DEF MemoryInv, LogOK, RequestsOK

\* What a use case decides is founded on the log, which it has not read: it
\* has asked the projection, or the store.
LEMMA DecideKeepsReadModel ==
  ASSUME ReadModelInv, NEW r \in Request, NEW cmd \in Command[r], Decide(r, cmd)
  PROVE  ReadModelInv'
<1>1. MemoryInv'
  BY DecideKeeps DEF ReadModelInv
<1>2. /\ decision' = [decision EXCEPT ![r] = Outcome(cmd, r)]
      /\ UNCHANGED <<records, appended, held, projection, checkpoint, tables>>
  BY DEF Decide, viewVars
<1>3. Sound(Outcome(cmd, r), r)
  BY LogBounds, OutcomeSound DEF ReadModelInv
<1> DEFINE outcome == Outcome(cmd, r)
<1>4. DOMAIN decision = Request
  BY DEF ReadModelInv, MemoryInv, RequestsOK
<1> HIDE DEF outcome
<1>5. DecisionsOK'
  <2> SUFFICES ASSUME NEW q \in Request, decision'[q].status = "append", appended[q].last = 0
               PROVE  Founded(decision'[q].batch, q, records)
    BY <1>2 DEF DecisionsOK
  <2>1. CASE q = r
    <3>1. decision'[q] = outcome
      BY <1>2, <1>4, <2>1 DEF outcome
    <3> QED
      BY <1>3, <2>1, <3>1 DEF Sound, outcome
  <2>2. CASE q # r
    <3>1. decision'[q] = decision[q]
      BY <1>2, <1>4, <2>2
    <3> QED
      BY <3>1 DEF ReadModelInv, DecisionsOK
  <2> QED
    BY <2>1, <2>2
<1>6. IdsOK' /\ FirstMessageOK'
  BY <1>2 DEF ReadModelInv, IdsOK, FirstMessageOK
<1>7. /\ Causal(records') /\ Projected(projection', records', checkpoint')
      /\ TablesOK(tables', records', checkpoint') /\ SameMembers(projection', tables')
  BY <1>2 DEF ReadModelInv
<1>8. HeldOK'
  BY <1>2 DEF ReadModelInv, HeldOK
<1> QED
  BY <1>1, <1>5, <1>6, <1>7, <1>8 DEF ReadModelInv

\* A step that leaves log, decisions, projection, tables and views alone.
LEMMA NothingRead ==
  ASSUME ReadModelInv, MemoryInv',
         UNCHANGED <<records, decision, appended, held, projection, checkpoint, tables>>
  PROVE  ReadModelInv'
<1>1. IdsOK' /\ FirstMessageOK' /\ DecisionsOK'
  BY DEF ReadModelInv, IdsOK, FirstMessageOK, DecisionsOK
<1>2. /\ Causal(records') /\ Projected(projection', records', checkpoint')
      /\ TablesOK(tables', records', checkpoint') /\ SameMembers(projection', tables')
  BY DEF ReadModelInv
<1>3. HeldOK'
  BY DEF ReadModelInv, HeldOK
<1> QED
  BY <1>1, <1>2, <1>3 DEF ReadModelInv

-----------------------------------------------------------------------------
\* The log after an append: what it was, and the batch behind it.
LEMMA AppendGrows ==
  ASSUME ReadModelInv, NEW r \in Request, NEW now, AppendBatch(r, now)
  PROVE  LogGrows(records, records', decision[r].batch, now)
<1> DEFINE batch == decision[r].batch
           new   == [i \in DOMAIN batch |-> [event |-> batch[i], at |-> now]]
<1>1. records' = records \o new
  BY DEF AppendBatch
<1>2. Len(batch) \in 1..3 /\ DOMAIN batch = 1..Len(batch)
  BY DEF ReadModelInv, MemoryInv, RequestsOK, Fits, IsBatch, AppendBatch
<1>3. IsList(records) /\ Len(records) \in Nat
  BY ListFacts DEF ReadModelInv, Causal
<1>4. DOMAIN new = 1..Len(batch) /\ new = [i \in 1..Len(batch) |-> new[i]]
  BY <1>2
<1>5. \A i \in 1..Len(batch) : new[i].event = batch[i] /\ new[i].at = now
  BY <1>2
<1> HIDE DEF new, batch
<1>6. Len(batch) \in Nat
  BY <1>2
<1>7. IsList(new) /\ Len(new) = Len(batch)
  BY <1>4, <1>6, FunctionIsList
<1>8. Joined(records, new, records')
  BY <1>1, <1>3, <1>7, ListConcat
<1>9. Len(records) <= Len(records) + Len(batch)
  BY <1>3, <1>6
<1>10. Extends(records, records')
  BY <1>3, <1>7, <1>8, <1>9 DEF Joined, Extends
<1>11. \A i \in 1..Len(batch) : records'[Len(records) + i] = new[i]
  BY <1>7, <1>8 DEF Joined
<1>12. Len(records') = Len(records) + Len(batch)
  BY <1>7, <1>8 DEF Joined
<1>13. \A i \in 1..Len(batch) :
         records'[Len(records) + i].event = batch[i] /\ records'[Len(records) + i].at = now
  BY <1>5, <1>11
<1> QED
  BY <1>2, <1>10, <1>12, <1>13 DEF LogGrows, batch

\* A batch is written behind a log that has not used its id: the ids stay
\* single, and what others have decided stays founded.
LEMMA AppendKeepsReadModel ==
  ASSUME ReadModelInv, NEW r \in Request, NEW now \in Clock[r], AppendBatch(r, now)
  PROVE  ReadModelInv'
<1> DEFINE batch == decision[r].batch
           L == records
           M == records'
           first == Len(records) + 1
           last == Len(records) + Len(batch)
<1>1. MemoryInv'
  BY AppendKeeps DEF ReadModelInv
<1>2. /\ appended' = [appended EXCEPT ![r] = [first |-> first, last |-> last]]
      /\ UNCHANGED <<decision, held, projection, checkpoint, tables>>
      /\ decision[r].status = "append" /\ appended[r].last = 0
  BY DEF AppendBatch, viewVars
<1>3. LogGrows(L, M, batch, now)
  BY AppendGrows
<1>4. Causal(L) /\ now \in Nat
  BY ClockAssumption DEF ReadModelInv
<1>5. /\ checkpoint \in Nat /\ Len(L) \in Nat /\ checkpoint <= Len(L)
      /\ DOMAIN appended = Request
      /\ \A q \in Request : appended[q].first \in Nat /\ appended[q].last \in Nat
  BY LogBounds DEF ReadModelInv
<1>6. Unused(L, r)
  BY <1>2 DEF ReadModelInv, IdsOK, Unused
<1>7. Founded(batch, r, L)
  BY <1>2 DEF ReadModelInv, DecisionsOK
<1>8. Len(batch) \in 1..3 /\ Len(M) = Len(L) + Len(batch) /\ Extends(L, M)
  BY <1>3 DEF LogGrows
<1>9. last \in Nat /\ last # 0 /\ first \in Nat
  <2> HIDE DEF batch
  <2>1. Len(records) \in Nat /\ Len(batch) \in 1..3
    BY <1>5, <1>8
  <2> HIDE DEF L, M
  <2> QED
    BY <2>1
<1>10. /\ appended'[r].first = first /\ appended'[r].last = last
       /\ \A q \in Request : q # r => appended'[q] = appended[q]
  BY <1>2, <1>5
<1> HIDE DEF batch, L, M
<1>11. /\ \A s \in 1..Len(L) : s \in 1..Len(M) /\ M[s] = L[s]
       /\ \A i \in 1..Len(batch) : Len(L) + i \in 1..Len(M)
       /\ \A s \in 1..Len(M) : s \in 1..Len(L) \/ \E i \in 1..Len(batch) : s = Len(L) + i
  BY <1>3, LogGrowsFacts
<1>12. Causal(M) /\ \A i \in 1..Len(batch) : Mints(M, Len(L) + i, r)
  BY <1>3, <1>4, <1>6, <1>7, BatchRooted
<1>13. Projected(projection, M, checkpoint) /\ TablesOK(tables, M, checkpoint)
  <2>1. Projected(projection, L, checkpoint) /\ TablesOK(tables, L, checkpoint)
    BY DEF ReadModelInv, L
  <2> QED
    BY <1>4, <1>5, <1>8, <2>1, ProjectedLonger, TablesLonger
<1>14. IdsOK'
  <2> SUFFICES ASSUME NEW s \in 1..Len(M)
               PROVE  /\ M[s].event.type = "ConversationCreated" =>
                           /\ M[s].event.conversation \in Request
                           /\ appended'[M[s].event.conversation].last # 0
                      /\ M[s].event.type = "ThreadStarted" =>
                           M[s].event.thread \in Request /\ appended'[M[s].event.thread].last # 0
    BY DEF IdsOK, M
  <2>1. CASE s \in 1..Len(L)
    <3>1. M[s] = L[s]
      BY <1>11, <2>1
    <3>2. /\ L[s].event.type = "ConversationCreated" =>
               /\ L[s].event.conversation \in Request
               /\ appended[L[s].event.conversation].last # 0
          /\ L[s].event.type = "ThreadStarted" =>
               L[s].event.thread \in Request /\ appended[L[s].event.thread].last # 0
      BY <2>1 DEF ReadModelInv, IdsOK, L
    <3>3. \A q \in Request : appended[q].last # 0 => appended'[q].last # 0
      BY <1>9, <1>10
    <3> QED
      BY <3>1, <3>2, <3>3
  <2>2. CASE s \notin 1..Len(L)
    <3>1. Mints(M, s, r)
      BY <1>11, <1>12, <2>2
    <3> QED
      BY <1>9, <1>10, <3>1 DEF Mints
  <2> QED
    BY <2>1, <2>2
<1>15. DecisionsOK'
  <2> SUFFICES ASSUME NEW q \in Request, decision[q].status = "append", appended'[q].last = 0
               PROVE  Founded(decision[q].batch, q, M)
    BY <1>2 DEF DecisionsOK, M
  <2>1. q # r /\ appended[q].last = 0
    BY <1>9, <1>10
  <2>2. Founded(decision[q].batch, q, L)
    BY <2>1 DEF ReadModelInv, DecisionsOK, L
  <2> QED
    BY <1>8, <2>2, FoundedLonger
<1>16. FirstMessageOK'
  <2> SUFFICES ASSUME NEW s \in 1..Len(M), M[s].event.type = "ThreadStarted"
               PROVE  /\ \E q \in Request : appended'[q].first <= s /\ s + 1 <= appended'[q].last
                      /\ s + 1 \in 1..Len(M)
                      /\ s + 1 \in PostsIn(M, M[s].event.conversation, M[s].event.thread)
    BY DEF FirstMessageOK, M
  <2>1. CASE s \in 1..Len(L)
    <3>1. M[s] = L[s]
      BY <1>11, <2>1
    <3>2. PICK q \in Request : appended[q].first <= s /\ s + 1 <= appended[q].last
      BY <2>1, <3>1 DEF ReadModelInv, FirstMessageOK, L
    <3>3. /\ s + 1 \in 1..Len(L)
          /\ s + 1 \in PostsIn(L, L[s].event.conversation, L[s].event.thread)
      BY <2>1, <3>1 DEF ReadModelInv, FirstMessageOK, L
    <3>4. q # r
      BY <1>2, <1>5, <2>1, <3>2
    <3>5. appended'[q] = appended[q]
      BY <1>10, <3>4
    <3>6. s + 1 \in 1..Len(M) /\ M[s + 1] = L[s + 1]
      BY <1>11, <3>3
    <3>7. DOMAIN M = 1..Len(M)
      BY <1>3, LogGrowsFacts
    <3>8. s + 1 \in PostsIn(M, M[s].event.conversation, M[s].event.thread)
      BY <3>1, <3>3, <3>6, <3>7 DEF PostsIn
    <3> QED
      BY <3>2, <3>5, <3>6, <3>8
  <2>2. CASE s \notin 1..Len(L)
    <3>1. Mints(M, s, r)
      BY <1>11, <1>12, <2>2
    <3>2. /\ s + 1 \in 1..Len(M)
          /\ s + 1 \in PostsIn(M, M[s].event.conversation, M[s].event.thread)
      BY <3>1 DEF Mints
    <3>3. first <= s /\ s + 1 <= last
      BY <1>5, <1>8, <2>2, <3>2 DEF L, batch
    <3>4. appended'[r].first <= s /\ s + 1 <= appended'[r].last
      BY <1>10, <3>3
    <3> QED
      BY <3>2, <3>4
  <2> QED
    BY <2>1, <2>2
<1>17. SameMembers(projection', tables') /\ HeldOK'
  BY <1>2 DEF ReadModelInv, HeldOK
<1>18. /\ Causal(records') /\ Projected(projection', records', checkpoint')
       /\ TablesOK(tables', records', checkpoint')
  BY <1>2, <1>12, <1>13 DEF M
<1> QED
  BY <1>1, <1>14, <1>15, <1>16, <1>17, <1>18 DEF ReadModelInv

-----------------------------------------------------------------------------
\* The entries of a run that starts behind the checkpoint.
LEMMA EntriesOfRun ==
  ASSUME ReadModelInv, NEW n \in Nat, NEW last \in Nat, n < last, last <= Len(records)
  PROVE  LET entries == Entries(Interval(n + 1, last)) IN
         /\ DOMAIN entries = 1..Len(entries)
         /\ Len(entries) = last - n
         /\ \A i \in 1..(last - n) : IsEntry(entries[i], records, n + i)
<1> DEFINE run == Interval(n + 1, last)
           entries == Entries(run)
           k == last - n
<1>1. k \in Nat
  OBVIOUS
<1>2. DOMAIN run = 1..k /\ \A i \in 1..k : run[i] = n + i
  <2>1. last + 1 - (n + 1) = k /\ \A i \in 1..k : (n + 1) + i - 1 = n + i
    OBVIOUS
  <2> HIDE DEF k
  <2> QED
    BY <2>1 DEF Interval
<1> HIDE DEF run, k
<1>3. entries = [i \in 1..k |-> [sequence |-> run[i], event |-> records[run[i]].event,
                                 at |-> records[run[i]].at]]
  BY <1>2 DEF Entries
<1> HIDE DEF entries
<1>4. DOMAIN entries = 1..k /\ entries = [i \in 1..k |-> entries[i]]
  BY <1>3
<1>5. Len(entries) = k
  BY <1>1, <1>4, FunctionIsList
<1>6. \A i \in 1..k : IsEntry(entries[i], records, n + i)
  BY <1>2, <1>3 DEF IsEntry
<1> QED
  BY <1>4, <1>5, <1>6 DEF entries, run, k

\* What an Apply finds: a run behind the checkpoint that passes on both sides.
LEMMA RunPasses ==
  ASSUME ReadModelInv, drain.pc = "apply"
  PROVE  LET entries == Entries(Interval(drain.next, drain.last)) IN
         /\ ApplyEntries(projection, entries).ok
         /\ InStep(projection, ApplyEntries(projection, entries).projection,
                   Postgres!ApplyEntries(tables, entries).tables, records, drain.last)
<1> DEFINE n == checkpoint
           last == drain.last
           k == last - n
           entries == Entries(Interval(drain.next, drain.last))
<1>1. n \in Nat /\ Len(records) \in Nat
  BY LogBounds DEF ReadModelInv
<1>2. drain.next = n + 1 /\ last \in (n + 1)..Len(records)
  BY DEF ReadModelInv, MemoryInv, DrainOK
<1>3. last \in Nat /\ n < last /\ last <= Len(records) /\ k \in Nat /\ n + k = last
  <2> HIDE DEF n, last
  <2> QED
    BY <1>1, <1>2
<1>4. entries = Entries(Interval(n + 1, last))
  BY <1>2
<1>5. InStep(projection, projection, tables, records, n)
  BY DEF InStep, Kept, ReadModelInv
<1> HIDE DEF n, last, entries
<1>6. /\ DOMAIN entries = 1..Len(entries)
      /\ Len(entries) = k
      /\ \A i \in 1..k : IsEntry(entries[i], records, n + i)
  BY <1>1, <1>3, <1>4, EntriesOfRun
<1>7. Causal(records)
  BY DEF ReadModelInv
<1>8. n + k <= Len(records)
  BY <1>3
<1> HIDE DEF k
<1>9. /\ ApplyEntries(projection, entries).ok
      /\ InStep(projection, ApplyEntries(projection, entries).projection,
                Postgres!ApplyEntries(tables, entries).tables, records, n + k)
  BY <1>1, <1>3, <1>5, <1>6, <1>7, <1>8, RunApplies
<1> QED
  BY <1>3, <1>9 DEF entries, last

\* Apply brings the projection and the tables to the end of the run.
LEMMA ApplyKeepsReadModel ==
  ASSUME ReadModelInv, Apply
  PROVE  ReadModelInv'
<1> DEFINE entries == Entries(Interval(drain.next, drain.last))
           result == ApplyEntries(projection, entries)
           after == Postgres!ApplyEntries(tables, entries).tables
<1>1. MemoryInv'
  BY ApplyKeeps DEF ReadModelInv
<1>2. /\ drain.pc = "apply"
      /\ projection' = result.projection
      /\ result.ok => checkpoint' = drain.last
      /\ tables' = after
      /\ UNCHANGED <<records, decision, appended, held>>
  BY DEF Apply, storeVars
<1>3. result.ok /\ InStep(projection, result.projection, after, records, drain.last)
  BY <1>2, RunPasses
<1> HIDE DEF entries, result, after
<1>4. /\ Projected(projection', records, checkpoint')
      /\ TablesOK(tables', records, checkpoint')
      /\ SameMembers(projection', tables')
      /\ Kept(projection, projection')
  BY <1>2, <1>3 DEF InStep
<1>5. IdsOK' /\ FirstMessageOK' /\ DecisionsOK'
  BY <1>2 DEF ReadModelInv, IdsOK, FirstMessageOK, DecisionsOK
<1>6. Causal(records')
  BY <1>2 DEF ReadModelInv
<1>7. HeldOK'
  BY <1>2, <1>4 DEF ReadModelInv, HeldOK, Kept
<1> QED
  BY <1>1, <1>2, <1>4, <1>5, <1>6, <1>7 DEF ReadModelInv

\* A list continues itself.
LEMMA ExtendsItself ==
  ASSUME NEW s, IsList(s)
  PROVE  Extends(s, s)
BY ListFacts DEF Extends

\* A view is held from the moment it is handed out.
LEMMA ViewHolds ==
  ASSUME NEW L, NEW n \in Nat, NEW p, Projected(p, L, n), NEW c, Exists(p, c)
  PROVE  Holds(p, ViewOf(p, c), ThreadsIn(p, ViewOf(p, c)))
<1> DEFINE v == ViewOf(p, c)
           seen == ThreadsIn(p, v)
           arr == p.arrays[v.array]
<1>1. c \in DOMAIN p.conversations /\ v = p.conversations[c] /\ v # NoThreads
  BY DEF Exists, ViewOf, NoThreads
<1>2. ShapeOK(p) /\ ListOK(p, L, n, c)
  BY <1>1 DEF Projected
<1>3. ViewOK(p, v)
  BY <1>1, <1>2 DEF ShapeOK
<1>4. v.array \in 1..Len(p.arrays) /\ v.len \in 1..Len(arr)
  BY <1>1, <1>3 DEF ViewOK
<1>5. /\ v.len \in Nat /\ IsList(seen) /\ Len(seen) = v.len
      /\ \A i \in 1..v.len : seen[i] = arr[i]
  BY <1>2, <1>3, ViewShows
<1>6. ASSUME NEW i \in 1..v.len
      PROVE  arr[i].id = seen[i].id /\ Extends(seen[i].messages, arr[i].messages)
  <2>1. seen[i] = arr[i]
    BY <1>5
  <2> DEFINE starts == InOrder(n, StartsIn(L, c))
             thread == arr[i]
             posts == InOrder(n, PostsIn(L, c, L[starts[i]].event.thread))
  <2>2. v.len = Len(starts) /\ SlotOK(p, L, n, c, starts[i], thread)
    BY <1>1, <1>2 DEF ListOK
  <2>3. thread.messages = posts
    <3>1. thread = [id |-> L[starts[i]].event.thread, participants |-> thread.participants,
                    messages |-> posts]
      BY <2>2 DEF SlotOK
    <3> HIDE DEF thread, posts
    <3> QED
      BY <3>1
  <2>4. Ascends(posts, n, PostsIn(L, c, L[starts[i]].event.thread))
    BY InOrderAscends
  <2>5. IsList(posts)
    <3> HIDE DEF posts
    <3> QED
      BY <2>4, SeqIsList DEF Ascends
  <2>6. Extends(thread.messages, thread.messages)
    BY <2>3, <2>5, ExtendsItself
  <2> QED
    BY <2>1, <2>6
<1>7. \A d \in DOMAIN p.conversations :
        p.conversations[d].array = v.array => v.len <= p.conversations[d].len
  <2> SUFFICES ASSUME NEW d \in DOMAIN p.conversations, p.conversations[d].array = v.array
               PROVE  v.len <= p.conversations[d].len
    OBVIOUS
  <2>1. v.array # 0
    BY <1>2, <1>4, ListFacts DEF ShapeOK
  <2>2. d = c
    BY <1>1, <1>2, <2>1 DEF ShapeOK
  <2> QED
    BY <1>1, <1>5, <2>2
<1> HIDE DEF v, seen, arr
<1> QED
  BY <1>4, <1>5, <1>6, <1>7 DEF Holds, v, seen, arr

\* Get hands out a view of the projection as it is.
LEMMA GetKeepsReadModel ==
  ASSUME ReadModelInv, NEW k \in Reader, NEW c, Get(k, c)
  PROVE  ReadModelInv'
<1> DEFINE view == ViewOf(projection, c)
           seen == ThreadsIn(projection, view)
<1>1. MemoryInv'
  BY GetKeeps DEF ReadModelInv
<1>2. /\ held' = [held EXCEPT ![k] = [view |-> view, seen |-> seen]]
      /\ UNCHANGED <<records, decision, appended, projection, checkpoint, tables>>
      /\ Exists(projection, c)
  BY DEF Get, storeVars, viewVars
<1>3. Holds(projection, view, seen)
  BY <1>2, LogBounds, ViewHolds DEF ReadModelInv
<1> HIDE DEF view, seen
<1>4. HeldOK'
  <2>1. DOMAIN held = Reader
    BY DEF ReadModelInv, HeldOK
  <2>2. DOMAIN held' = Reader
    BY <1>2, <2>1
  <2>3. ASSUME NEW j \in Reader
        PROVE  Holds(projection, held'[j].view, held'[j].seen)
    <3>1. CASE j = k
      <4>1. held'[j].view = view /\ held'[j].seen = seen
        BY <1>2, <2>1, <3>1
      <4> QED
        BY <1>3, <4>1
    <3>2. CASE j # k
      <4>1. held'[j] = held[j]
        BY <1>2, <2>1, <3>2
      <4> QED
        BY <4>1 DEF ReadModelInv, HeldOK
    <3> QED
      BY <3>1, <3>2
  <2> QED
    BY <1>2, <2>2, <2>3 DEF HeldOK
<1>5. IdsOK' /\ FirstMessageOK' /\ DecisionsOK'
  BY <1>2 DEF ReadModelInv, IdsOK, FirstMessageOK, DecisionsOK
<1>6. /\ Causal(records') /\ Projected(projection', records', checkpoint')
      /\ TablesOK(tables', records', checkpoint') /\ SameMembers(projection', tables')
  BY <1>2 DEF ReadModelInv
<1> QED
  BY <1>1, <1>2, <1>4, <1>5, <1>6 DEF ReadModelInv

\* Every step keeps the invariant.
LEMMA ReadModelStep == ReadModelInv /\ [Next]_vars => ReadModelInv'
<1> SUFFICES ASSUME ReadModelInv, [Next]_vars PROVE ReadModelInv'
  OBVIOUS
<1>1. MemoryInv'
  BY MemoryStep DEF ReadModelInv
<1>2. CASE UNCHANGED vars
  BY <1>1, <1>2, NothingRead DEF vars
<1>3. ASSUME NEW r \in Enqueuer, NEW s, Enqueue(r, s)
      PROVE  ReadModelInv'
  BY <1>1, <1>3, NothingRead DEF Enqueue, viewVars
<1>4. CASE ReadPending \/ ReadCheckpoint \/ MarkDone
  BY <1>1, <1>4, NothingRead DEF ReadPending, ReadCheckpoint, MarkDone, storeVars, viewVars
<1> QED
  BY <1>2, <1>3, <1>4, DecideKeepsReadModel, AppendKeepsReadModel, ApplyKeepsReadModel,
     GetKeepsReadModel DEF Next

-----------------------------------------------------------------------------
\* The invariant holds throughout.
THEOREM ReadModelIsSafe == Spec => []ReadModelInv
  BY ReadModelInit, ReadModelStep, PTL DEF Spec

\* Apply refuses no entry of a run that Drain hands to it, so the in-memory
\* projection, which cannot roll back, is never left half way.
THEOREM RunsNeverFailHalfWay == Spec => []NoRunFailsHalfWay
<1>1. ReadModelInv => NoRunFailsHalfWay
  BY RunPasses DEF NoRunFailsHalfWay
<1> QED
  BY <1>1, ReadModelIsSafe, PTL

-----------------------------------------------------------------------------
(***************************************************************************)
(* Views in the hands of readers.                                          *)
(***************************************************************************)
\* What continues a list has it as a prefix.
LEMMA ExtendsIsPrefix ==
  ASSUME NEW s, NEW t, Extends(s, t)
  PROVE  IsPrefix(s, t)
<1>1. /\ s \in Seq(Range(s)) /\ t \in Seq(Range(t))
      /\ Len(s) \in Nat /\ Len(t) \in Nat /\ Len(s) <= Len(t)
      /\ \A i \in 1..Len(s) : t[i] = s[i]
  BY ListFacts DEF Extends, IsList
<1> DEFINE a == SubSeq(s, 1, Len(s))
           b == SubSeq(t, 1, Len(s))
<1>2. /\ a \in Seq(Range(s)) /\ Len(a) = Len(s)
      /\ \A i \in 1..Len(s) : a[i] = s[i]
  BY <1>1
<1>3. /\ b \in Seq(Range(t)) /\ Len(b) = Len(s)
      /\ \A i \in 1..Len(s) : b[i] = t[i]
  BY <1>1
<1> HIDE DEF a, b
<1>4. a = b
  <2>1. /\ DOMAIN a = 1..Len(s) /\ a = [i \in 1..Len(s) |-> a[i]]
        /\ DOMAIN b = 1..Len(s) /\ b = [i \in 1..Len(s) |-> b[i]]
    BY <1>2, <1>3
  <2>2. \A i \in 1..Len(s) : a[i] = b[i]
    BY <1>1, <1>2, <1>3
  <2> QED
    BY <2>1, <2>2
<1> QED
  BY <1>1, <1>4 DEF IsPrefix, a, b

\* What a reader finds in the view it holds.
Grown(threads, seen) ==
  /\ Len(threads) = Len(seen)
  /\ \A i \in DOMAIN seen : /\ threads[i].id = seen[i].id
                            /\ IsPrefix(seen[i].messages, threads[i].messages)

\* A view that holds has its threads in their places, with their messages.
LEMMA HeldViewGrown ==
  ASSUME NEW p, ShapeOK(p), NEW view, NEW seen, Holds(p, view, seen)
  PROVE  Grown(ThreadsIn(p, view), seen)
<1>1. CASE view = NoThreads /\ seen = <<>>
  <2>1. ThreadsIn(p, view) = <<>>
    BY <1>1 DEF NoThreads, ThreadsIn
  <2>2. \A i \in DOMAIN <<>> : FALSE
    OBVIOUS
  <2> QED
    BY <1>1, <2>1, <2>2 DEF Grown
<1>2. CASE ~ (view = NoThreads /\ seen = <<>>)
  <2> DEFINE arr == p.arrays[view.array]
             len == view.len
             threads == ThreadsIn(p, view)
  <2>1. /\ view.array \in 1..Len(p.arrays)
        /\ len \in 1..Len(arr)
        /\ IsList(seen) /\ Len(seen) = len
        /\ \A i \in 1..len : arr[i].id = seen[i].id /\ Extends(seen[i].messages, arr[i].messages)
    BY <1>2 DEF Holds
  <2>2. IsList(arr)
    BY <2>1 DEF ShapeOK
  <2>3. threads = SubSeq(arr, 1, len)
    <3>1. len # 0
      BY <2>1, <2>2, ListFacts
    <3> QED
      BY <3>1 DEF ThreadsIn
  <2>4. DOMAIN seen = 1..len
    BY <2>1, ListFacts
  <2> HIDE DEF arr, len, threads
  <2>5. arr \in Seq(Range(arr)) /\ Len(arr) \in Nat
    BY <2>2 DEF IsList
  <2>6. len \in Nat /\ len <= Len(arr)
    BY <2>1, <2>5
  <2>7. Len(threads) = len /\ \A i \in 1..len : threads[i] = arr[i]
    BY <2>3, <2>5, <2>6
  <2>8. \A i \in 1..len : IsPrefix(seen[i].messages, arr[i].messages)
    BY <2>1, ExtendsIsPrefix
  <2> QED
    BY <2>1, <2>4, <2>7, <2>8 DEF Grown, threads
<1> QED
  BY <1>1, <1>2

\* A view that a reader keeps changes forward only: its threads stay in their
\* places and keep their messages, although Apply writes into the array.
THEOREM HeldViewsOnlyExtend == Spec => []HeldViewsExtend
<1>1. ReadModelInv => HeldViewsExtend
  <2> SUFFICES ASSUME ReadModelInv, NEW k \in Reader
               PROVE  Grown(ThreadsIn(projection, held[k].view), held[k].seen)
    BY DEF HeldViewsExtend, Grown
  <2>1. ShapeOK(projection) /\ Holds(projection, held[k].view, held[k].seen)
    BY DEF ReadModelInv, HeldOK, Projected
  <2> QED
    BY <2>1, HeldViewGrown
<1> QED
  BY <1>1, ReadModelIsSafe, PTL

-----------------------------------------------------------------------------
(***************************************************************************)
(* The answers of both adapters.                                           *)
(***************************************************************************)
\* The threads that a view of the projection shows, each with its start.
IsShown(thread, L, n, c, s) ==
  /\ s \in 1..n /\ s \in 1..Len(L)
  /\ Starts(L, s, c, thread.id)
  /\ thread = [id |-> thread.id, participants |-> thread.participants,
               messages |-> InOrder(n, PostsIn(L, c, thread.id))]

\* A view shows the threads of its conversation, in the order of their starts.
LEMMA ShownThreads ==
  ASSUME NEW L, Causal(L), NEW n \in Nat, n <= Len(L), NEW p, Projected(p, L, n),
         NEW c \in DOMAIN p.conversations
  PROVE  LET threads == ThreadsIn(p, p.conversations[c])
             starts == InOrder(n, StartsIn(L, c))
         IN  /\ IsList(threads)
             /\ Len(threads) = p.conversations[c].len
             /\ Len(threads) = Len(starts)
             /\ \A i \in 1..Len(threads) :
                  /\ threads[i] = p.arrays[p.conversations[c].array][i]
                  /\ IsShown(threads[i], L, n, c, starts[i])
<1> DEFINE v == p.conversations[c]
           threads == ThreadsIn(p, v)
           starts == InOrder(n, StartsIn(L, c))
<1>1. ShapeOK(p) /\ ViewOK(p, v) /\ ListOK(p, L, n, c)
  BY DEF Projected, ShapeOK
<1>2. /\ v.len \in Nat /\ IsList(threads) /\ Len(threads) = v.len
      /\ \A i \in 1..v.len : threads[i] = p.arrays[v.array][i]
  BY <1>1, ViewShows
<1>3. v.len = Len(starts)
  BY <1>1 DEF ListOK
<1>4. ASSUME NEW i \in 1..v.len
      PROVE  IsShown(threads[i], L, n, c, starts[i])
  <2> DEFINE thread == p.arrays[v.array][i]
             s == starts[i]
             t == L[s].event.thread
  <2>1. Slot(p, L, n, c, i)
    BY SlotFacts
  <2>2. SlotOK(p, L, n, c, s, thread) /\ thread.id = t /\ s \in 1..n /\ s \in 1..Len(L)
        /\ Starts(L, s, c, t)
    BY <2>1 DEF Slot
  <2>3. thread = [id |-> t, participants |-> thread.participants,
                  messages |-> InOrder(n, PostsIn(L, c, t))]
    BY <2>2 DEF SlotOK
  <2>4. threads[i] = thread
    BY <1>2
  <2> HIDE DEF thread, s, t
  <2>5. IsShown(thread, L, n, c, s)
    BY <2>2, <2>3 DEF IsShown
  <2> QED
    BY <2>4, <2>5 DEF s
<1> QED
  BY <1>2, <1>3, <1>4

-----------------------------------------------------------------------------
\* ORDER BY over numbers that have been applied.
LEMMA OrderedRows ==
  ASSUME ReadModelInv, NEW S, NEW T, \A s : s \in S <=> s \in T /\ s \in 1..checkpoint
  PROVE  BySequence(S) = InOrder(checkpoint, T)
<1>1. checkpoint \in Nat /\ Len(records) \in Nat /\ checkpoint <= Len(records)
  BY LogBounds DEF ReadModelInv
<1>2. BySequence(S) = InOrder(Len(records), S)
  BY DEF BySequence, InOrder
<1>3. InOrder(Len(records), S) = InOrder(checkpoint, S)
  BY <1>1, InOrderShort
<1>4. InOrder(checkpoint, S) = InOrder(checkpoint, T)
  BY <1>1, InOrderSame
<1> QED
  BY <1>2, <1>3, <1>4

\* The rows of a conversation's threads.
RowsOf(c) == {key \in DOMAIN tables.threads : key[1] = c}

\* The row of the thread that was started with a number is found by it.
LEMMA RowBySequence ==
  ASSUME ReadModelInv, NEW c, NEW t, NEW s \in 1..checkpoint, Starts(records, s, c, t)
  PROVE  /\ <<c, t>> \in RowsOf(c)
         /\ tables.threads[<<c, t>>].sequence = s
         /\ \A key \in RowsOf(c) : tables.threads[key].sequence = s => key = <<c, t>>
<1>1. TablesOK(tables, records, checkpoint)
  BY DEF ReadModelInv
<1>2. /\ <<c, t>> \in DOMAIN tables.threads
      /\ tables.threads[<<c, t>>]
           = [sequence |-> s, participants |-> tables.threads[<<c, t>>].participants]
  BY <1>1, RowOfThread
<1>3. tables.threads[<<c, t>>].sequence = s
  <2> DEFINE row == tables.threads[<<c, t>>]
  <2>1. row = [sequence |-> s, participants |-> row.participants]
    BY <1>2
  <2> HIDE DEF row
  <2>2. row.sequence = s
    BY <2>1
  <2> QED
    BY <2>2 DEF row
<1>4. <<c, t>>[1] = c
  OBVIOUS
<1>5. ASSUME NEW key \in RowsOf(c), tables.threads[key].sequence = s
      PROVE  key = <<c, t>>
  <2>1. PICK q \in 1..checkpoint : records[q].event.type = "ThreadStarted" /\ key = KeyAt(records, q)
    BY <1>1 DEF RowsOf, TablesOK
  <2>2. tables.threads[key] = [sequence |-> q, participants |-> tables.threads[key].participants]
    BY <1>1, <2>1 DEF TablesOK
  <2>3. tables.threads[key].sequence = q
    <3> DEFINE row == tables.threads[key]
    <3>1. row = [sequence |-> q, participants |-> row.participants]
      BY <2>2
    <3> HIDE DEF row
    <3>2. row.sequence = q
      BY <3>1
    <3> QED
      BY <3>2 DEF row
  <2>4. q = s
    BY <1>5, <2>3
  <2> QED
    BY <2>1, <2>4 DEF KeyAt, Starts
<1> QED
  BY <1>2, <1>3, <1>4, <1>5 DEF RowsOf

\* The numbers of a conversation's rows are those of its threads' starts.
LEMMA RowNumbers ==
  ASSUME ReadModelInv, NEW c
  PROVE  BySequence({tables.threads[key].sequence : key \in RowsOf(c)})
           = InOrder(checkpoint, StartsIn(records, c))
<1> DEFINE numbers == {tables.threads[key].sequence : key \in RowsOf(c)}
<1>1. TablesOK(tables, records, checkpoint)
  BY DEF ReadModelInv
<1>2. checkpoint \in Nat /\ Len(records) \in Nat /\ checkpoint <= Len(records)
  BY LogBounds DEF ReadModelInv
<1>3. DOMAIN records = 1..Len(records)
  BY LogFacts DEF ReadModelInv
<1>4. ASSUME NEW s, s \in numbers
      PROVE  s \in StartsIn(records, c) /\ s \in 1..checkpoint
  <2>1. PICK key \in RowsOf(c) : s = tables.threads[key].sequence
    BY <1>4
  <2>2. PICK q \in 1..checkpoint : records[q].event.type = "ThreadStarted" /\ key = KeyAt(records, q)
    BY <1>1, <2>1 DEF RowsOf, TablesOK
  <2>3. key[1] = c
    BY <2>1 DEF RowsOf
  <2>4. records[q].event.conversation = c
    BY <2>2, <2>3 DEF KeyAt
  <2>5. key = <<c, records[q].event.thread>> /\ Starts(records, q, c, records[q].event.thread)
    BY <2>2, <2>4 DEF KeyAt, Starts
  <2>6. s = q
    BY <2>1, <2>5, RowBySequence
  <2>7. q \in DOMAIN records
    BY <1>2, <1>3
  <2> QED
    BY <2>2, <2>4, <2>6, <2>7 DEF StartsIn
<1>5. ASSUME NEW s, s \in StartsIn(records, c), s \in 1..checkpoint
      PROVE  s \in numbers
  <2>1. Starts(records, s, c, records[s].event.thread)
    BY <1>5 DEF StartsIn, Starts
  <2> DEFINE key == <<c, records[s].event.thread>>
  <2>2. key \in RowsOf(c) /\ tables.threads[key].sequence = s
    BY <1>5, <2>1, RowBySequence
  <2> HIDE DEF key
  <2> QED
    BY <2>2
<1> HIDE DEF numbers
<1>6. \A s : s \in numbers <=> s \in StartsIn(records, c) /\ s \in 1..checkpoint
  BY <1>4, <1>5
<1>7. BySequence(numbers) = InOrder(checkpoint, StartsIn(records, c))
  BY <1>6, OrderedRows
<1> QED
  BY <1>7 DEF numbers

\* The numbers of a thread's message rows are those of its posts.
LEMMA MessageNumbers ==
  ASSUME ReadModelInv, NEW c, NEW t
  PROVE  BySequence({m.sequence : m \in {n \in tables.messages :
                                          <<n.conversation, n.thread>> = <<c, t>>}})
           = InOrder(checkpoint, PostsIn(records, c, t))
<1> DEFINE found == {n \in tables.messages : <<n.conversation, n.thread>> = <<c, t>>}
           numbers == {m.sequence : m \in found}
<1>1. tables.messages
        = {RowAt(records, s) : s \in {q \in 1..checkpoint : records[q].event.type = "MessagePosted"}}
  BY DEF ReadModelInv, TablesOK
<1>2. checkpoint \in Nat /\ Len(records) \in Nat /\ checkpoint <= Len(records)
  BY LogBounds DEF ReadModelInv
<1>3. DOMAIN records = 1..Len(records)
  BY LogFacts DEF ReadModelInv
<1>4. \A s : /\ RowAt(records, s).sequence = s
             /\ RowAt(records, s).conversation = records[s].event.conversation
             /\ RowAt(records, s).thread = records[s].event.thread
  BY DEF RowAt
<1>5. ASSUME NEW s, s \in numbers
      PROVE  s \in PostsIn(records, c, t) /\ s \in 1..checkpoint
  <2>1. PICK m \in found : s = m.sequence
    BY <1>5
  <2>2. PICK q \in 1..checkpoint : records[q].event.type = "MessagePosted" /\ m = RowAt(records, q)
    BY <1>1, <2>1
  <2>3. m.conversation = c /\ m.thread = t
    BY <2>1
  <2>4. q \in DOMAIN records
    BY <1>2, <1>3
  <2> QED
    BY <1>4, <2>1, <2>2, <2>3, <2>4 DEF PostsIn
<1>6. ASSUME NEW s, s \in PostsIn(records, c, t), s \in 1..checkpoint
      PROVE  s \in numbers
  <2> DEFINE m == RowAt(records, s)
  <2>1. /\ records[s].event.type = "MessagePosted"
        /\ records[s].event.conversation = c /\ records[s].event.thread = t
    BY <1>6 DEF PostsIn
  <2>2. m \in tables.messages
    BY <1>1, <1>6, <2>1
  <2>3. m.conversation = c /\ m.thread = t /\ m.sequence = s
    BY <1>4, <2>1
  <2> HIDE DEF m
  <2>4. m \in found
    BY <2>2, <2>3
  <2> QED
    BY <2>3, <2>4
<1> HIDE DEF numbers
<1>7. \A s : s \in numbers <=> s \in PostsIn(records, c, t) /\ s \in 1..checkpoint
  BY <1>5, <1>6
<1>8. BySequence(numbers) = InOrder(checkpoint, PostsIn(records, c, t))
  BY <1>7, OrderedRows
<1> QED
  BY <1>8 DEF numbers, found

-----------------------------------------------------------------------------
\* The thread that the queries put together for the row with number s.
Assembled(c, s) ==
  LET key == CHOOSE key \in RowsOf(c) : tables.threads[key].sequence = s IN
  [id |-> key[2],
   participants |-> tables.threads[key].participants,
   messages |-> BySequence({m.sequence : m \in {n \in tables.messages :
                                                  <<n.conversation, n.thread>> = key}})]

\* PostgresThreads, row by row.
LEMMA PostgresThreadsOpened ==
  ASSUME NEW c
  PROVE  LET order == BySequence({tables.threads[key].sequence : key \in RowsOf(c)})
         IN  PostgresThreads(c) = [i \in DOMAIN order |-> Assembled(c, order[i])]
BY DEF PostgresThreads, RowsOf, Assembled

\* The queries put together a thread's id, participants and messages.
LEMMA AssembledThread ==
  ASSUME ReadModelInv, NEW c, NEW t, NEW s \in 1..checkpoint, Starts(records, s, c, t)
  PROVE  Assembled(c, s) = [id |-> t, participants |-> tables.threads[<<c, t>>].participants,
                            messages |-> InOrder(checkpoint, PostsIn(records, c, t))]
<1> DEFINE found == CHOOSE key \in RowsOf(c) : tables.threads[key].sequence = s
<1>1. /\ <<c, t>> \in RowsOf(c)
      /\ tables.threads[<<c, t>>].sequence = s
      /\ \A key \in RowsOf(c) : tables.threads[key].sequence = s => key = <<c, t>>
  BY RowBySequence
<1>2. found = <<c, t>>
  <2>1. \E key \in RowsOf(c) : tables.threads[key].sequence = s
    BY <1>1, Zenon
  <2>2. found \in RowsOf(c) /\ tables.threads[found].sequence = s
    BY <2>1, Zenon
  <2> HIDE DEF found
  <2> QED
    BY <1>1, <2>2, Zenon
<1>3. BySequence({m.sequence : m \in {n \in tables.messages :
                                       <<n.conversation, n.thread>> = <<c, t>>}})
        = InOrder(checkpoint, PostsIn(records, c, t))
  BY MessageNumbers
<1>4. Assembled(c, s)
        = [id |-> found[2],
           participants |-> tables.threads[found].participants,
           messages |-> BySequence({m.sequence : m \in {n \in tables.messages :
                                                          <<n.conversation, n.thread>> = found}})]
  BY DEF Assembled
<1>5. <<c, t>>[2] = t
  OBVIOUS
<1> HIDE DEF found
<1> QED
  BY <1>2, <1>3, <1>4, <1>5, Zenon

\* The view and the queries give the same threads.
LEMMA SameThreads ==
  ASSUME ReadModelInv, NEW c \in DOMAIN projection.conversations
  PROVE  ThreadsIn(projection, projection.conversations[c]) = PostgresThreads(c)
<1> DEFINE n == checkpoint
           p == projection
           threads == ThreadsIn(p, p.conversations[c])
           starts == InOrder(n, StartsIn(records, c))
           rows == PostgresThreads(c)
           k == Len(starts)
<1>1. n \in Nat /\ n <= Len(records) /\ Causal(records) /\ Projected(p, records, n)
      /\ SameMembers(p, tables)
  BY LogBounds DEF ReadModelInv
<1>2. /\ IsList(threads)
      /\ Len(threads) = p.conversations[c].len
      /\ Len(threads) = k
      /\ \A i \in 1..Len(threads) :
           /\ threads[i] = p.arrays[p.conversations[c].array][i]
           /\ IsShown(threads[i], records, n, c, starts[i])
  BY <1>1, ShownThreads
<1>3. Ascends(starts, n, StartsIn(records, c))
  BY <1>1, InOrderAscends
<1>4. BySequence({tables.threads[key].sequence : key \in RowsOf(c)}) = starts
  BY RowNumbers
<1>5. rows = [i \in DOMAIN starts |-> Assembled(c, starts[i])]
  BY <1>4, PostgresThreadsOpened
<1> HIDE DEF starts, rows, threads
<1>6. DOMAIN starts = 1..k /\ k \in Nat
  BY <1>3 DEF Ascends
<1>7. ASSUME NEW i \in 1..k
      PROVE  threads[i] = Assembled(c, starts[i])
  <2> DEFINE thread == threads[i]
             s == starts[i]
             t == thread.id
  <2>1. IsShown(thread, records, n, c, s) /\ thread = p.arrays[p.conversations[c].array][i]
    BY <1>2
  <2>2. thread.participants = tables.threads[<<c, t>>].participants
    <3>1. i \in 1..p.conversations[c].len
      BY <1>2
    <3> QED
      BY <1>1, <2>1, <3>1, Zenon DEF SameMembers
  <2> HIDE DEF thread, s
  <2>3. /\ s \in 1..checkpoint /\ Starts(records, s, c, t)
        /\ thread = [id |-> t, participants |-> thread.participants,
                     messages |-> InOrder(checkpoint, PostsIn(records, c, t))]
    BY <2>1, Zenon DEF IsShown
  <2> HIDE DEF t
  <2>4. Assembled(c, s) = [id |-> t, participants |-> tables.threads[<<c, t>>].participants,
                           messages |-> InOrder(checkpoint, PostsIn(records, c, t))]
    BY <2>3, AssembledThread
  <2>5. Assembled(c, s) = thread
    BY <2>2, <2>3, <2>4
  <2> QED
    BY <2>5 DEF thread, s
<1>8. DOMAIN threads = 1..k /\ threads = [i \in 1..k |-> threads[i]]
  BY <1>2, <1>6, ListFacts DEF IsList
<1>9. rows = [i \in 1..k |-> Assembled(c, starts[i])]
  BY <1>5, <1>6
<1>10. threads = rows
  <2>1. [i \in 1..k |-> threads[i]] = [i \in 1..k |-> Assembled(c, starts[i])]
    BY <1>7
  <2> QED
    BY <1>8, <1>9, <2>1
<1> QED
  BY <1>10 DEF threads, rows

-----------------------------------------------------------------------------
(***************************************************************************)
(* The time that a participant's conversations are ordered by.             *)
(***************************************************************************)
Clk == INSTANCE FoldProofs WITH Op <- LatestAt

\* The latest of some times, found one by one, is none before any of them and
\* one of them.
IsLatest(x, times) ==
  /\ x \in Nat
  /\ \A i \in 1..Len(times) : times[i] <= x
  /\ Len(times) > 0 => \E i \in 1..Len(times) : times[i] = x

\* The fold over times, after each of them.
TracesTimes(trace, base, times, n) ==
  /\ trace[0] = base
  /\ \A k \in 0..(n - 1) : trace[k + 1] = LatestAt(trace[k], times[k + 1])
  /\ Clk!Fold(base, times) = trace[n]

\* LatestAt is folded over the times one by one.
LEMMA TimesTrace ==
  ASSUME NEW base, NEW times, DOMAIN times = 1..Len(times), Len(times) \in Nat
  PROVE  \E trace : TracesTimes(trace, base, times, Len(times))
<1>1. \E trace : /\ trace[0] = base
                 /\ \A k \in 0..(Len(times) - 1) : trace[k + 1] = LatestAt(trace[k], times[k + 1])
                 /\ Clk!Fold(base, times) = trace[Len(times)]
  BY Clk!FoldTrace, ZenonT(60)
<1> QED
  BY <1>1, Zenon DEF TracesTimes

\* The fold of LatestAt is the latest time.
LEMMA LatestOfTimes ==
  ASSUME NEW times, DOMAIN times = 1..Len(times), Len(times) \in Nat,
         \A i \in 1..Len(times) : times[i] \in Nat
  PROVE  IsLatest(FoldLeft(LatestAt, 0, times), times)
<1> DEFINE n == Len(times)
<1>1. FoldLeft(LatestAt, 0, times) = Clk!Fold(0, times)
  BY DEF Clk!Fold, FoldLeft, Clk!FoldLeft, MapThenFoldSet, Clk!MapThenFoldSet, Max, Clk!Max
<1>2. PICK trace : /\ trace[0] = 0
                   /\ \A k \in 0..(n - 1) : trace[k + 1] = LatestAt(trace[k], times[k + 1])
                   /\ Clk!Fold(0, times) = trace[n]
  <2>1. PICK trace : TracesTimes(trace, 0, times, Len(times))
    BY TimesTrace
  <2> QED
    BY <2>1, Zenon DEF TracesTimes
<1> DEFINE good(k) == /\ trace[k] \in Nat
                      /\ \A i \in 1..k : times[i] <= trace[k]
                      /\ trace[k] = 0 \/ \E i \in 1..k : times[i] = trace[k]
           P == {k \in Nat : k <= n => good(k)}
<1>3. 0 \in P
  BY <1>2
<1>4. ASSUME NEW k \in Nat, k \in P
      PROVE  k + 1 \in P
  <2> SUFFICES ASSUME k + 1 <= n PROVE good(k + 1)
    OBVIOUS
  <2>1. k \in 0..(n - 1) /\ k + 1 \in 1..n /\ k <= n
    OBVIOUS
  <2>2. good(k)
    BY <1>4, <2>1
  <2> DEFINE x == trace[k]
             y == times[k + 1]
  <2>3. trace[k + 1] = IF y > x THEN y ELSE x
    BY <1>2, <2>1 DEF LatestAt
  <2>4. x \in Nat /\ y \in Nat
    BY <2>1, <2>2
  <2>5. \A i \in 1..(k + 1) : i = k + 1 \/ i \in 1..k
    OBVIOUS
  <2>6. \A i \in 1..k : i \in 1..(k + 1) /\ times[i] \in Nat /\ times[i] <= x
    BY <2>1, <2>2
  <2>7. k + 1 \in 1..(k + 1)
    OBVIOUS
  <2>8. CASE y > x
    <3>1. trace[k + 1] = y
      BY <2>3, <2>8
    <3>2. \A i \in 1..(k + 1) : times[i] <= y
      BY <2>4, <2>5, <2>6, <2>8
    <3> QED
      BY <2>4, <2>7, <3>1, <3>2
  <2>9. CASE ~ (y > x)
    <3>1. trace[k + 1] = x
      BY <2>3, <2>9
    <3>2. \A i \in 1..(k + 1) : times[i] <= x
      BY <2>4, <2>5, <2>6, <2>9
    <3>3. x = 0 \/ \E i \in 1..(k + 1) : times[i] = x
      BY <2>2, <2>6
    <3> QED
      BY <2>4, <3>1, <3>2, <3>3
  <2> QED
    BY <2>8, <2>9
<1>5. n \in P
  <2> HIDE DEF P
  <2> QED
    BY <1>3, <1>4, Induction
<1>6. good(n)
  BY <1>5
<1>7. Len(times) > 0 => \E i \in 1..Len(times) : times[i] = trace[n]
  <2> SUFFICES ASSUME Len(times) > 0 PROVE \E i \in 1..n : times[i] = trace[n]
    OBVIOUS
  <2>1. 1 \in 1..n /\ times[1] \in Nat
    OBVIOUS
  <2>2. times[1] <= trace[n]
    BY <1>6, <2>1
  <2> QED
    BY <1>6, <2>1, <2>2
<1> QED
  BY <1>1, <1>2, <1>6, <1>7 DEF IsLatest

\* The greatest number of a set is its maximum.
LEMMA MaxIs ==
  ASSUME NEW S, S \subseteq Nat, NEW x \in S, \A y \in S : y <= x
  PROVE  Max(S) = x
<1>1. \E z \in S : \A y \in S : z >= y
  <2>1. \A y \in S : x >= y
    OBVIOUS
  <2> QED
    BY <2>1
<1> DEFINE m == Max(S)
<1>2. m \in S /\ \A y \in S : m >= y
  BY <1>1 DEF Max
<1> HIDE DEF m
<1>3. m = x
  BY <1>2
<1> QED
  BY <1>3 DEF m

\* Every thread that is shown has a message: its batch was applied whole.
LEMMA ShownHasMessage ==
  ASSUME ReadModelInv, NEW c, NEW t, NEW s \in 1..checkpoint, Starts(records, s, c, t)
  PROVE  \E m \in 1..checkpoint : m \in PostsIn(records, c, t)
<1>1. /\ checkpoint \in Nat /\ Len(records) \in Nat /\ checkpoint <= Len(records)
      /\ \A r \in Request : appended[r].first \in Nat /\ appended[r].last \in Nat
  BY LogBounds DEF ReadModelInv
<1>2. s \in 1..Len(records)
  BY <1>1
<1>3. s + 1 \in PostsIn(records, c, t)
  BY <1>2 DEF ReadModelInv, FirstMessageOK, Starts
<1>4. PICK r \in Request : appended[r].first <= s /\ s + 1 <= appended[r].last
  BY <1>2 DEF ReadModelInv, FirstMessageOK, Starts
<1>5. appended[r].first <= checkpoint => appended[r].last <= checkpoint
  BY DEF ReadModelInv, MemoryInv, RequestsOK, Whole
<1>6. s + 1 \in 1..checkpoint
  BY <1>1, <1>4, <1>5
<1> QED
  BY <1>3, <1>6

\* The time that the projection keeps for a thread: that of its latest
\* message.
LEMMA LatestOfThread ==
  ASSUME ReadModelInv, NEW c, NEW t, NEW s \in 1..checkpoint, Starts(records, s, c, t)
  PROVE  LET at == Entry(projection.latestMessageAt, t, 0) IN
         /\ at \in Nat
         /\ \E m \in 1..checkpoint : m \in PostsIn(records, c, t) /\ records[m].at = at
         /\ \A m \in 1..checkpoint :
              m \in PostsIn(records, c, t) => records[m].at \in Nat /\ records[m].at <= at
<1> DEFINE latest == projection.latestMessageAt
           at == Entry(latest, t, 0)
<1>1. /\ checkpoint \in Nat /\ Len(records) \in Nat /\ checkpoint <= Len(records)
      /\ Causal(records) /\ DOMAIN records = 1..Len(records)
  BY LogBounds, LogFacts DEF ReadModelInv
<1>2. \A m \in 1..checkpoint : m \in 1..Len(records) /\ records[m].at \in Nat
  <2>1. \A m \in 1..checkpoint : m \in 1..Len(records)
    BY <1>1
  <2> QED
    BY <1>1, <2>1 DEF Causal, Rooted
<1>3. LatestOK(projection, records, checkpoint)
  BY DEF ReadModelInv, Projected
<1>4. t \in DOMAIN latest
  <2>1. PICK m \in 1..checkpoint : m \in PostsIn(records, c, t)
    BY ShownHasMessage
  <2> QED
    BY <1>3, <2>1 DEF LatestOK, PostsIn
<1>5. at = latest[t]
  BY <1>4 DEF Entry
<1> HIDE DEF at
<1>6. PICK m \in 1..checkpoint : /\ records[m].event.type = "MessagePosted"
                                 /\ records[m].event.thread = t
                                 /\ latest[t] = records[m].at
  BY <1>3, <1>4 DEF LatestOK
<1>7. m \in PostsIn(records, c, t)
  <2>1. PICK q \in 1..(m - 1) : Starts(records, q, records[m].event.conversation, t)
    BY <1>1, <1>2, <1>6, StartedBefore
  <2>2. q \in 1..Len(records) /\ s \in 1..Len(records)
    BY <1>1
  <2>3. q = s
    BY <1>1, <2>1, <2>2, StartedOnce DEF Starts
  <2>4. records[m].event.conversation = c
    BY <2>1, <2>3 DEF Starts
  <2> QED
    BY <1>1, <1>2, <1>6, <2>4 DEF PostsIn
<1>8. ASSUME NEW k \in 1..checkpoint, k \in PostsIn(records, c, t)
      PROVE  records[k].at \in Nat /\ records[k].at <= at
  <2>1. records[k].event.type = "MessagePosted" /\ records[k].event.thread = t
    BY <1>8 DEF PostsIn
  <2>2. latest[t] >= records[k].at
    BY <1>3, <2>1 DEF LatestOK
  <2>3. records[k].at \in Nat /\ latest[t] \in Nat
    BY <1>2, <1>6
  <2> QED
    BY <1>5, <2>2, <2>3
<1>9. at \in Nat
  BY <1>2, <1>5, <1>6
<1> QED
  BY <1>5, <1>6, <1>7, <1>8, <1>9 DEF at

-----------------------------------------------------------------------------
\* The time by which the projection orders some threads, and the times of all
\* their messages.
LatestIn(threads) ==
  FoldLeft(LatestAt, 0, [i \in DOMAIN threads |->
                           Entry(projection.latestMessageAt, threads[i].id, 0)])

TimesIn(threads) ==
  UNION {{records[s].at : s \in Range(t.messages)} : t \in Range(threads)}

\* Threads of a conversation that are shown.
LEMMA LatestIsMax ==
  ASSUME ReadModelInv, NEW c, NEW threads, IsList(threads), threads # <<>>,
         \A thread \in Range(threads) : \E s : IsShown(thread, records, checkpoint, c, s)
  PROVE  LatestIn(threads) = Max(TimesIn(threads))
<1> DEFINE n == Len(threads)
           at(t) == Entry(projection.latestMessageAt, t, 0)
           kept == [i \in DOMAIN threads |-> at(threads[i].id)]
           x == LatestIn(threads)
           times == TimesIn(threads)
<1>1. n \in Nat /\ DOMAIN threads = 1..n /\ n > 0
  <2>1. n \in Nat /\ DOMAIN threads = 1..n
    BY ListFacts
  <2>2. n # 0
    BY DEF IsList
  <2> QED
    BY <2>1, <2>2
<1>2. checkpoint \in Nat
  BY LogBounds DEF ReadModelInv
<1>3. ASSUME NEW i \in 1..n
      PROVE  /\ at(threads[i].id) \in Nat
             /\ \E m \in Range(threads[i].messages) : records[m].at = at(threads[i].id)
             /\ \A m \in Range(threads[i].messages) :
                  records[m].at \in Nat /\ records[m].at <= at(threads[i].id)
  <2> DEFINE thread == threads[i]
             t == thread.id
             posts == InOrder(checkpoint, PostsIn(records, c, t))
  <2>1. thread \in Range(threads)
    BY <1>1 DEF Range
  <2> HIDE DEF thread
  <2>2. PICK s : IsShown(thread, records, checkpoint, c, s)
    BY <2>1
  <2>3. /\ s \in 1..checkpoint /\ Starts(records, s, c, t)
        /\ thread = [id |-> t, participants |-> thread.participants, messages |-> posts]
    BY <2>2 DEF IsShown
  <2> HIDE DEF t, posts
  <2>4. thread.messages = posts
    BY <2>3
  <2>5. Ascends(posts, checkpoint, PostsIn(records, c, t))
    BY <1>2, InOrderAscends DEF posts
  <2>6. DOMAIN posts = 1..Len(posts)
    BY <2>5 DEF Ascends
  <2>7. \A m : m \in Range(posts) <=> m \in 1..checkpoint /\ m \in PostsIn(records, c, t)
    BY <2>5, <2>6 DEF Ascends, Range
  <2>8. /\ at(t) \in Nat
        /\ \E m \in 1..checkpoint : m \in PostsIn(records, c, t) /\ records[m].at = at(t)
        /\ \A m \in 1..checkpoint :
             m \in PostsIn(records, c, t) => records[m].at \in Nat /\ records[m].at <= at(t)
    BY <2>3, LatestOfThread
  <2> HIDE DEF at
  <2>9. /\ \E m \in Range(posts) : records[m].at = at(t)
        /\ \A m \in Range(posts) : records[m].at \in Nat /\ records[m].at <= at(t)
    BY <2>7, <2>8
  <2> QED
    BY <2>4, <2>8, <2>9 DEF thread, t
<1> HIDE DEF at
<1>4. /\ DOMAIN kept = 1..n /\ kept = [i \in 1..n |-> kept[i]]
      /\ \A i \in 1..n : kept[i] = at(threads[i].id)
  BY <1>1
<1>5. x = FoldLeft(LatestAt, 0, kept)
  BY DEF LatestIn, at
<1> HIDE DEF kept, x, times
<1>6. Len(kept) = n
  BY <1>1, <1>4, FunctionIsList
<1>7. \A i \in 1..n : kept[i] \in Nat
  BY <1>3, <1>4
<1>8. IsLatest(x, kept)
  BY <1>1, <1>4, <1>5, <1>6, <1>7, LatestOfTimes
<1>9. x \in Nat /\ (\A i \in 1..n : kept[i] <= x) /\ \E i \in 1..n : kept[i] = x
  BY <1>1, <1>6, <1>8 DEF IsLatest
<1>10. \A y : y \in times <=> \E i \in 1..n : \E m \in Range(threads[i].messages) : y = records[m].at
  BY <1>1 DEF times, TimesIn, Range
<1>11. x \in times
  <2>1. PICK i \in 1..n : kept[i] = x
    BY <1>9
  <2>2. \E m \in Range(threads[i].messages) : records[m].at = x
    BY <1>3, <1>4, <2>1
  <2> QED
    BY <1>10, <2>2
<1>12. ASSUME NEW y \in times
       PROVE  y \in Nat /\ y <= x
  <2>1. PICK i \in 1..n : \E m \in Range(threads[i].messages) : y = records[m].at
    BY <1>10
  <2>2. y \in Nat /\ y <= at(threads[i].id)
    BY <1>3, <2>1
  <2>3. kept[i] = at(threads[i].id) /\ kept[i] <= x /\ kept[i] \in Nat
    BY <1>4, <1>7, <1>9
  <2>4. y <= kept[i]
    BY <2>2, <2>3
  <2> QED
    BY <1>9, <2>2, <2>3, <2>4
<1>13. Max(times) = x
  BY <1>11, <1>12, MaxIs
<1> QED
  BY <1>13 DEF x, times

\* The threads of a conversation that the participant is on are among those
\* that are shown.
LEMMA FilteredAreShown ==
  ASSUME ReadModelInv, NEW c \in DOMAIN projection.conversations, NEW participant
  PROVE  LET mine == Filtered(ThreadsIn(projection, projection.conversations[c]), participant) IN
         /\ IsList(mine)
         /\ \A thread \in Range(mine) : \E s : IsShown(thread, records, checkpoint, c, s)
<1> DEFINE threads == ThreadsIn(projection, projection.conversations[c])
           at == {i \in DOMAIN threads : Contains(threads[i].participants, participant)}
           mine == Filtered(threads, participant)
<1>1. /\ checkpoint \in Nat /\ checkpoint <= Len(records)
      /\ Causal(records) /\ Projected(projection, records, checkpoint)
  BY LogBounds DEF ReadModelInv
<1>2. /\ IsList(threads)
      /\ \A i \in 1..Len(threads) : \E s : IsShown(threads[i], records, checkpoint, c, s)
  BY <1>1, ShownThreads
<1> HIDE DEF threads
<1>3. mine = Pick(threads, at)
  BY DEF Filtered
<1> HIDE DEF at, mine
<1>4. IsList(mine) /\ Range(mine) = {threads[i] : i \in DOMAIN threads \cap at}
  BY <1>2, <1>3, PickFacts
<1>5. DOMAIN threads = 1..Len(threads)
  BY <1>2, ListFacts
<1>6. \A thread \in Range(mine) : \E i \in 1..Len(threads) : thread = threads[i]
  BY <1>4, <1>5
<1>7. \A thread \in Range(mine) : \E s : IsShown(thread, records, checkpoint, c, s)
  BY <1>2, <1>6
<1> QED
  BY <1>4, <1>7 DEF mine, threads

\* Both find the same conversations of a participant, with the same threads
\* and the same time.
LEMMA SameByParticipant ==
  ASSUME ReadModelInv, NEW participant
  PROVE  GetByParticipant(projection, participant) = PostgresByParticipant(participant)
<1> DEFINE p == projection
           mem(c) == Filtered(ThreadsIn(p, p.conversations[c]), participant)
           sql(c) == Filtered(PostgresThreads(c), participant)
           C == {c \in DOMAIN p.conversations : mem(c) # <<>>}
           D == {c \in tables.conversations : sql(c) # <<>>}
           f == [c \in C |-> [threads |-> mem(c), latestAt |-> LatestIn(mem(c))]]
           g == [c \in D |-> [threads |-> sql(c), latestAt |-> Max(TimesIn(sql(c)))]]
<1>1. DOMAIN p.conversations = tables.conversations
  BY DEF ReadModelInv, Projected, ConversationsOK, TablesOK
<1>2. \A c \in DOMAIN p.conversations : mem(c) = sql(c)
  BY SameThreads
<1>3. ASSUME NEW c \in C
      PROVE  LatestIn(mem(c)) = Max(TimesIn(mem(c)))
  <2>1. c \in DOMAIN projection.conversations /\ mem(c) # <<>>
    OBVIOUS
  <2>2. /\ IsList(mem(c))
        /\ \A thread \in Range(mem(c)) : \E s : IsShown(thread, records, checkpoint, c, s)
    BY <2>1, FilteredAreShown
  <2> HIDE DEF mem
  <2> QED
    BY <2>1, <2>2, LatestIsMax
<1>4. GetByParticipant(projection, participant) = f
  BY DEF GetByParticipant, LatestIn
<1>5. PostgresByParticipant(participant) = g
  BY DEF PostgresByParticipant, TimesIn
<1> HIDE DEF mem, sql
<1>6. C = D
  BY <1>1, <1>2
<1>7. \A c \in C : mem(c) = sql(c) /\ LatestIn(mem(c)) = Max(TimesIn(sql(c)))
  BY <1>2, <1>3
<1>8. f = g
  <2> HIDE DEF C, D
  <2> QED
    BY <1>6, <1>7
<1> QED
  BY <1>4, <1>5, <1>8

\* The fake and the real adapter answer alike, whatever was written, in
\* whatever order it came and wherever the clock jumped.
THEOREM FakeAgreesWithPostgres == Spec => []AgreesWithPostgres
<1>1. ReadModelInv => AgreesWithPostgres
  <2> SUFFICES ASSUME ReadModelInv PROVE AgreesWithPostgres
    OBVIOUS
  <2>1. DOMAIN projection.conversations = tables.conversations
    BY DEF ReadModelInv, Projected, ConversationsOK, TablesOK
  <2>2. \A c \in DOMAIN projection.conversations :
          ThreadsIn(projection, ViewOf(projection, c)) = PostgresThreads(c)
    BY SameThreads DEF ViewOf
  <2> QED
    BY <2>1, <2>2, SameByParticipant DEF AgreesWithPostgres
<1> QED
  BY <1>1, ReadModelIsSafe, PTL
==============================================================================
