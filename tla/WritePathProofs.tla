--------------------------- MODULE WritePathProofs ---------------------------
(***************************************************************************)
(* Proofs about WritePath, for any number of requests, batch sizes, relays *)
(* and failures.  IndInv is the inductive invariant everything rests on.   *)
(***************************************************************************)
EXTENDS WritePath, OperatorProofs

-----------------------------------------------------------------------------
(***************************************************************************)
(* Lemmas about the operators.                                             *)
(***************************************************************************)

\* appendEvent adds exactly the number it drew to the rows of its batch.
LEMMA RowsOfAppend ==
  ASSUME NEW seqs \in Seq(Nat), NEW n \in Nat
  PROVE  /\ Append(seqs, n) \in Seq(Nat)
         /\ RowsOf(Append(seqs, n)) = RowsOf(seqs) \cup {n}
<1> DEFINE new == Append(seqs, n)
<1>1. /\ new \in Seq(Nat)
      /\ Len(new) = Len(seqs) + 1
      /\ new[Len(seqs) + 1] = n
      /\ \A i \in 1..Len(seqs) : new[i] = seqs[i]
  OBVIOUS
<1>2. DOMAIN new = 1..(Len(seqs) + 1) /\ DOMAIN seqs = 1..Len(seqs)
  BY <1>1
<1>3. DOMAIN new = DOMAIN seqs \cup {Len(seqs) + 1}
  BY <1>2
<1>4. RowsOf(new) \subseteq RowsOf(seqs) \cup {n}
  BY <1>1, <1>2, <1>3 DEF RowsOf
<1>5. RowsOf(seqs) \cup {n} \subseteq RowsOf(new)
  BY <1>1, <1>2, <1>3 DEF RowsOf
<1> QED
  BY <1>1, <1>4, <1>5

\* A run applied by the projection adds exactly its own entries.
LEMMA RowsOfConcat ==
  ASSUME NEW s \in Seq(Nat), NEW t \in Seq(Nat)
  PROVE  /\ s \o t \in Seq(Nat)
         /\ RowsOf(s \o t) = RowsOf(s) \cup RowsOf(t)
<1> DEFINE both == s \o t
<1>1. /\ both \in Seq(Nat)
      /\ Len(both) = Len(s) + Len(t)
      /\ \A i \in 1..Len(s) : both[i] = s[i]
      /\ \A i \in 1..Len(t) : both[Len(s) + i] = t[i]
  OBVIOUS
<1>2. /\ DOMAIN both = 1..(Len(s) + Len(t))
      /\ DOMAIN s = 1..Len(s)
      /\ DOMAIN t = 1..Len(t)
      /\ Len(s) \in Nat
      /\ Len(t) \in Nat
  BY <1>1
<1>3. RowsOf(both) \subseteq RowsOf(s) \cup RowsOf(t)
  <2> SUFFICES ASSUME NEW i \in DOMAIN both
               PROVE  both[i] \in RowsOf(s) \cup RowsOf(t)
    BY DEF RowsOf
  <2>1. CASE i \in 1..Len(s)
    BY <2>1, <1>1, <1>2 DEF RowsOf
  <2>2. CASE i \notin 1..Len(s)
    <3>1. i - Len(s) \in 1..Len(t) /\ i = Len(s) + (i - Len(s))
      BY <2>2, <1>2
    <3> QED
      BY <3>1, <1>1, <1>2 DEF RowsOf
  <2> QED
    BY <2>1, <2>2
<1>4. RowsOf(s) \subseteq RowsOf(both)
  BY <1>1, <1>2 DEF RowsOf
<1>5. RowsOf(t) \subseteq RowsOf(both)
  <2> SUFFICES ASSUME NEW i \in 1..Len(t)
               PROVE  t[i] \in RowsOf(both)
    BY <1>2 DEF RowsOf
  <2>1. Len(s) + i \in DOMAIN both /\ both[Len(s) + i] = t[i]
    BY <1>1, <1>2
  <2> QED
    BY <2>1 DEF RowsOf
<1> QED
  BY <1>1, <1>3, <1>4, <1>5

\* Apply goes through the run from..to and through nothing else.
LEMMA RowsOfInterval ==
  ASSUME NEW from \in Nat \ {0}, NEW to \in Nat, from <= to + 1
  PROVE  /\ Interval(from, to) \in Seq(Nat)
         /\ Len(Interval(from, to)) = to + 1 - from
         /\ RowsOf(Interval(from, to)) = from..to
<1>1. \A i \in 1..(to + 1 - from) : from + i - 1 \in from..to
  OBVIOUS
<1>2. Interval(from, to) \in Seq(Nat) /\ Len(Interval(from, to)) = to + 1 - from
  BY IntervalIsSeq
<1>3. RowsOf(Interval(from, to)) \subseteq from..to
  BY <1>1 DEF RowsOf, Interval
<1>4. from..to \subseteq RowsOf(Interval(from, to))
  <2> SUFFICES ASSUME NEW s \in from..to
               PROVE  s \in RowsOf(Interval(from, to))
    OBVIOUS
  <2>1. s + 1 - from \in 1..(to + 1 - from) /\ s = from + (s + 1 - from) - 1
    OBVIOUS
  <2>2. s + 1 - from \in DOMAIN Interval(from, to)
    BY <2>1 DEF Interval
  <2>3. Interval(from, to)[s + 1 - from] = s
    BY <2>1 DEF Interval
  <2> QED
    BY <2>2, <2>3 DEF RowsOf
<1> QED
  BY <1>2, <1>3, <1>4

-----------------------------------------------------------------------------
(***************************************************************************)
(* The inductive invariant.                                                *)
(***************************************************************************)

\* Numbers are handed out once: no two batches share one, and within a batch
\* they ascend.
NumbersAreUnique ==
  /\ \A r1, r2 \in Request :
       r1 # r2 => RowsOf(req[r1].seqs) \cap RowsOf(req[r2].seqs) = {}
  /\ \A r \in Request : \A i, j \in DOMAIN req[r].seqs :
       i <= j => req[r].seqs[i] <= req[r].seqs[j]

\* The outbox holds what the log holds, every event up to the checkpoint is
\* in the log and in the projection, and only applied rows are marked done.
TablesAgree ==
  /\ outbox = events
  /\ 1..checkpoint \subseteq events
  /\ 1..checkpoint \subseteq RowsOf(applied)
  /\ \A s \in done : s <= checkpoint

\* What the local variables of a drain may be relied on for at each point:
\* the run it is about to apply is committed and leaves no hole after the
\* checkpoint, the run it is marking has been applied.
DrainOK(rl) ==
  LET d == relay[rl] IN
  /\ d.pending \subseteq events
  /\ d.pc = "apply" => /\ 1 <= d.next
                       /\ d.next <= d.last
                       /\ d.next <= checkpoint + 1
                       /\ d.next..d.last \subseteq events
  /\ d.pc = "mark" => 1 <= d.next /\ d.next <= d.last /\ d.last <= checkpoint

IndInv ==
  /\ TypeOK
  /\ NumbersAreUnique
  /\ BatchAllOrNothing
  /\ TablesAgree
  /\ \A rl \in Relay : DrainOK(rl)

\* The initial state of an empty database and an idle relay satisfies it.
LEMMA InitIndInv == Init => IndInv
<1> SUFFICES ASSUME Init PROVE IndInv
  OBVIOUS
<1>1. <<>> \in Seq(Nat) /\ Len(<<>>) = 0 /\ RowsOf(<<>>) = {} /\ DOMAIN <<>> = {}
  BY DEF RowsOf
<1>2. TypeOK
  BY <1>1, MaxFaultsAssumption
  DEF Init, TypeOK, Drawn, Idle, RequestState
<1>3. NumbersAreUnique
  BY <1>1 DEF Init, NumbersAreUnique
<1>4. BatchAllOrNothing
  BY <1>1 DEF Init, BatchAllOrNothing, Committed
<1>5. TablesAgree
  BY DEF Init, TablesAgree
<1>6. ASSUME NEW rl \in Relay PROVE DrainOK(rl)
  BY DEF Init, DrainOK, Idle
<1> QED
  BY <1>2, <1>3, <1>4, <1>5, <1>6 DEF IndInv

\* A failure counts within its bound.
LEMMA FailsBounded ==
  ASSUME TypeOK, NEW class, Fails(class)
  PROVE  faults' \in 0..MaxFaults
BY MaxFaultsAssumption DEF TypeOK, Fails

\* pool.Begin: the batch is still empty.
LEMMA BeginIndInv ==
  ASSUME IndInv, NEW r \in Request, NEW n \in BatchSize, Begin(r, n)
  PROVE  IndInv'
<1> USE DEF IndInv
<1>1. <<>> \in Seq(Nat) /\ Len(<<>>) = 0 /\ RowsOf(<<>>) = {} /\ DOMAIN <<>> = {}
  BY DEF RowsOf
<1>2. n \in Nat
  BY BatchSizeAssumption
<1>3. /\ req' \in [Request -> [state : RequestState, size : Nat, seqs : Seq(Nat)]]
      /\ req'[r].state = "open" /\ req'[r].seqs = <<>> /\ req'[r].size = n
      /\ \A q \in Request : q # r => req'[q] = req[q]
  BY <1>1, <1>2 DEF Begin, TypeOK, RequestState
<1>4. UNCHANGED <<nextSeq, events, outbox, faults, done, checkpoint, applied, relay>>
  BY DEF Begin, relayVars
<1>5. TypeOK'
  <2>1. \A q \in Request : /\ RowsOf(req'[q].seqs) \subseteq Drawn
                           /\ Len(req'[q].seqs) <= req'[q].size
    <3>1. \A q \in Request : q # r => /\ RowsOf(req'[q].seqs) \subseteq Drawn
                                      /\ Len(req'[q].seqs) <= req'[q].size
      BY <1>3 DEF TypeOK
    <3>2. RowsOf(req'[r].seqs) \subseteq Drawn
      BY <1>1, <1>3
    <3>3. Len(req'[r].seqs) <= req'[r].size
      BY <1>1, <1>2, <1>3
    <3> QED
      BY <3>1, <3>2, <3>3
  <2> QED
    BY <1>3, <1>4, <2>1 DEF TypeOK, Drawn
<1>6. NumbersAreUnique'
  BY <1>1, <1>3 DEF NumbersAreUnique
<1>7. BatchAllOrNothing'
  BY <1>1, <1>3, <1>4 DEF BatchAllOrNothing, Committed
<1>8. TablesAgree' /\ \A rl \in Relay : DrainOK(rl)'
  BY <1>4 DEF TablesAgree, DrainOK
<1> QED
  BY <1>5, <1>6, <1>7, <1>8

\* A request gives up with nothing committed: only its state changes.
LEMMA GiveUpIndInv ==
  ASSUME IndInv, NEW r \in Request, BeginFails(r) \/ Rollback(r)
  PROVE  IndInv'
<1> USE DEF IndInv
<1>1. /\ req' = [req EXCEPT ![r].state = "failed"]
      /\ UNCHANGED <<nextSeq, events, outbox, done, checkpoint, applied, relay>>
      /\ faults' \in 0..MaxFaults
      /\ ~Committed(r)
  BY FailsBounded DEF BeginFails, Rollback, relayVars, Committed
<1>2. /\ req' \in [Request -> [state : RequestState, size : Nat, seqs : Seq(Nat)]]
      /\ req'[r].state = "failed"
      /\ \A q \in Request : req'[q].seqs = req[q].seqs /\ req'[q].size = req[q].size
      /\ \A q \in Request : q # r => req'[q] = req[q]
  BY <1>1 DEF TypeOK, RequestState
<1>3. TypeOK'
  BY <1>1, <1>2 DEF TypeOK, Drawn
<1>4. NumbersAreUnique'
  BY <1>2 DEF NumbersAreUnique
<1>5. BatchAllOrNothing'
  BY <1>1, <1>2 DEF BatchAllOrNothing, Committed
<1>6. TablesAgree' /\ \A rl \in Relay : DrainOK(rl)'
  BY <1>1 DEF TablesAgree, DrainOK
<1> QED
  BY <1>3, <1>4, <1>5, <1>6

\* appendEvent: the number it draws is new, so it is in no other batch, not
\* in the log, and above every number of its own batch.
LEMMA InsertEventIndInv ==
  ASSUME IndInv, NEW r \in Request, InsertEvent(r)
  PROVE  IndInv'
<1> USE DEF IndInv
<1>1. /\ nextSeq' = nextSeq + 1
      /\ UNCHANGED <<events, outbox, faults, done, checkpoint, applied, relay>>
      /\ req[r].state = "open"
      /\ Len(req[r].seqs) < req[r].size
  BY DEF InsertEvent, DrawSequence, relayVars
<1>2. PICK old \in Seq(Nat) : old = req[r].seqs
  BY DEF TypeOK
<1>3. /\ nextSeq \in Nat \ {0}
      /\ Append(old, nextSeq) \in Seq(Nat)
      /\ RowsOf(Append(old, nextSeq)) = RowsOf(old) \cup {nextSeq}
  BY RowsOfAppend DEF TypeOK
<1>4. /\ req' \in [Request -> [state : RequestState, size : Nat, seqs : Seq(Nat)]]
      /\ req'[r].seqs = Append(old, nextSeq)
      /\ req'[r].state = "open"
      /\ req'[r].size = req[r].size
      /\ \A q \in Request : q # r => req'[q] = req[q]
  BY <1>1, <1>2, <1>3 DEF InsertEvent, TypeOK
<1>5. /\ Drawn' = Drawn \cup {nextSeq}
      /\ nextSeq \notin Drawn
  BY <1>1, <1>3 DEF Drawn
<1>6. TypeOK'
  <2>1. \A q \in Request : RowsOf(req'[q].seqs) \subseteq Drawn'
    BY <1>2, <1>3, <1>4, <1>5 DEF TypeOK
  <2>2. \A q \in Request : Len(req'[q].seqs) <= req'[q].size
    <3>1. Len(Append(old, nextSeq)) = Len(old) + 1
      BY <1>3
    <3>2. Len(old) \in Nat /\ req[r].size \in Nat
      BY DEF TypeOK
    <3>3. Len(req'[r].seqs) <= req'[r].size
      BY <1>1, <1>2, <1>4, <3>1, <3>2
    <3>4. \A q \in Request : q # r => Len(req'[q].seqs) <= req'[q].size
      BY <1>4 DEF TypeOK
    <3> QED
      BY <3>3, <3>4
  <2>3. /\ nextSeq' \in Nat \ {0}
        /\ checkpoint' \in Nat /\ checkpoint' < nextSeq'
    BY <1>1 DEF TypeOK
  <2>4. relay' \in [Relay -> [pc : {"idle", "pending", "apply", "mark"},
                              pending : SUBSET Drawn', next : Nat, last : Nat]]
    BY <1>1, <1>5 DEF TypeOK
  <2> QED
    BY <1>1, <1>4, <1>5, <2>1, <2>2, <2>3, <2>4 DEF TypeOK
<1>7. NumbersAreUnique'
  <2>1. ASSUME NEW r1 \in Request, NEW r2 \in Request, r1 # r2
        PROVE  RowsOf(req'[r1].seqs) \cap RowsOf(req'[r2].seqs) = {}
    <3>1. \A q \in Request : nextSeq \notin RowsOf(req[q].seqs)
      BY <1>5 DEF TypeOK
    <3> QED
      BY <2>1, <3>1, <1>2, <1>3, <1>4 DEF NumbersAreUnique
  <2>2. ASSUME NEW q \in Request, NEW i \in DOMAIN req'[q].seqs,
               NEW j \in DOMAIN req'[q].seqs, i <= j
        PROVE  req'[q].seqs[i] <= req'[q].seqs[j]
    <3>1. CASE q # r
      BY <2>2, <3>1, <1>4 DEF NumbersAreUnique
    <3>2. CASE q = r
      <4> DEFINE new == Append(old, nextSeq)
      <4>1. /\ Len(new) = Len(old) + 1
            /\ new[Len(old) + 1] = nextSeq
            /\ \A k \in 1..Len(old) : new[k] = old[k]
        BY <1>3
      <4>2. DOMAIN new = 1..(Len(old) + 1) /\ DOMAIN old = 1..Len(old)
        BY <1>3, <4>1
      <4>3. \A k \in DOMAIN old : old[k] \in Nat /\ old[k] < nextSeq
        <5>1. RowsOf(old) \subseteq Drawn
          BY <1>2 DEF TypeOK
        <5>2. \A k \in DOMAIN old : old[k] \in Drawn
          BY <5>1 DEF RowsOf
        <5> QED
          BY <5>2, <1>3 DEF Drawn
      <4>4. req'[q].seqs = new /\ i \in DOMAIN new /\ j \in DOMAIN new
        BY <3>2, <1>4
      <4>5. \A k, m \in DOMAIN old : k <= m => old[k] <= old[m]
        BY <1>2 DEF NumbersAreUnique
      <4> HIDE DEF new
      <4>6. CASE j \in DOMAIN old
        <5>1. i \in DOMAIN old
          BY <2>2, <4>2, <4>4, <4>6
        <5> QED
          BY <2>2, <5>1, <4>1, <4>2, <4>4, <4>5, <4>6
      <4>7. CASE j = Len(old) + 1
        BY <1>3, <4>1, <4>2, <4>3, <4>4, <4>7
      <4> QED
        BY <4>2, <4>4, <4>6, <4>7
    <3> QED
      BY <3>1, <3>2
  <2> QED
    BY <2>1, <2>2 DEF NumbersAreUnique
<1>8. BatchAllOrNothing'
  <2>1. nextSeq \notin events \cup outbox
    BY <1>5 DEF TypeOK
  <2> QED
    BY <2>1, <1>1, <1>2, <1>3, <1>4 DEF BatchAllOrNothing, Committed
<1>9. TablesAgree' /\ \A rl \in Relay : DrainOK(rl)'
  BY <1>1 DEF TablesAgree, DrainOK
<1> QED
  BY <1>6, <1>7, <1>8, <1>9

\* tx.Commit: a batch becomes visible as a whole, and only then.
LEMMA CommitIndInv ==
  ASSUME IndInv, NEW r \in Request, Commit(r) \/ CommitUnacknowledged(r)
  PROVE  IndInv'
<1> USE DEF IndInv
<1>1. /\ req[r].state = "open"
      /\ Len(req[r].seqs) = req[r].size
      /\ events' = events \cup RowsOf(req[r].seqs)
      /\ outbox' = outbox \cup RowsOf(req[r].seqs)
      /\ UNCHANGED <<nextSeq, done, checkpoint, applied, relay>>
  BY DEF Commit, CommitUnacknowledged, CommitRows, relayVars
<1>2. faults' \in 0..MaxFaults
  BY FailsBounded DEF Commit, CommitUnacknowledged, TypeOK
<1>3. PICK state \in {"accepted", "unknown"} :
        req' = [req EXCEPT ![r].state = state]
  BY DEF Commit, CommitUnacknowledged
<1>4. /\ req' \in [Request -> [state : RequestState, size : Nat, seqs : Seq(Nat)]]
      /\ req'[r].state = state
      /\ \A q \in Request : req'[q].seqs = req[q].seqs /\ req'[q].size = req[q].size
      /\ \A q \in Request : q # r => req'[q] = req[q]
  BY <1>3 DEF TypeOK, RequestState
<1>5. TypeOK'
  <2>1. RowsOf(req[r].seqs) \subseteq Drawn
    BY DEF TypeOK
  <2> QED
    BY <1>1, <1>2, <1>4, <2>1 DEF TypeOK, Drawn
<1>6. NumbersAreUnique'
  BY <1>4 DEF NumbersAreUnique
<1>7. BatchAllOrNothing'
  <2> SUFFICES ASSUME NEW q \in Request
               PROVE  LET rows == RowsOf(req'[q].seqs) IN
                      IF Committed(q)'
                      THEN /\ Len(req'[q].seqs) = req'[q].size
                           /\ rows \subseteq events' \cap outbox'
                      ELSE rows \cap (events' \cup outbox') = {}
    BY DEF BatchAllOrNothing
  <2>1. CASE q = r
    BY <2>1, <1>1, <1>3, <1>4 DEF Committed
  <2>2. CASE q # r
    <3>1. RowsOf(req[q].seqs) \cap RowsOf(req[r].seqs) = {}
      BY <2>2 DEF NumbersAreUnique
    <3> QED
      BY <2>2, <3>1, <1>1, <1>4 DEF BatchAllOrNothing, Committed
  <2> QED
    BY <2>1, <2>2
<1>8. TablesAgree' /\ \A rl \in Relay : DrainOK(rl)'
  BY <1>1 DEF TablesAgree, DrainOK
<1> QED
  BY <1>5, <1>6, <1>7, <1>8

\* A relay step leaves what the API owns alone.
LEMMA RelayLeavesApi ==
  ASSUME IndInv, UNCHANGED apiVars
  PROVE  /\ NumbersAreUnique'
         /\ BatchAllOrNothing'
         /\ Drawn' = Drawn
BY DEF IndInv, apiVars, NumbersAreUnique, BatchAllOrNothing, Committed, Drawn

\* A step that changes nothing but the local variables of one drain.
LEMMA LocalStepIndInv ==
  ASSUME IndInv, NEW rl \in Relay,
         NEW d \in [pc : {"idle", "pending", "apply", "mark"},
                    pending : SUBSET Drawn, next : Nat, last : Nat],
         relay' = [relay EXCEPT ![rl] = d],
         UNCHANGED <<done, checkpoint, applied>>, UNCHANGED apiVars,
         faults' \in 0..MaxFaults,
         DrainOK(rl)'
  PROVE  IndInv'
<1> USE DEF IndInv
<1>1. NumbersAreUnique' /\ BatchAllOrNothing' /\ Drawn' = Drawn
  BY RelayLeavesApi
<1>2. TypeOK'
  BY <1>1 DEF TypeOK, apiVars
<1>3. TablesAgree'
  BY DEF TablesAgree, apiVars
<1>4. \A other \in Relay : DrainOK(other)'
  BY DEF DrainOK, TypeOK, apiVars
<1> QED
  BY <1>1, <1>2, <1>3, <1>4

\* Pending reads rows of the outbox, which are committed events.
LEMMA ReadPendingIndInv ==
  ASSUME IndInv, NEW rl \in Relay, ReadPending(rl)
  PROVE  IndInv'
<1> DEFINE d == [pc |-> "pending", pending |-> outbox \ done, next |-> 0, last |-> 0]
<1>1. d \in [pc : {"idle", "pending", "apply", "mark"},
             pending : SUBSET Drawn, next : Nat, last : Nat]
  BY DEF IndInv, TypeOK
<1>2. relay' = [relay EXCEPT ![rl] = d] /\ relay'[rl] = d
  BY DEF ReadPending, IndInv, TypeOK
<1>3. /\ UNCHANGED <<done, checkpoint, applied>>
      /\ UNCHANGED apiVars
      /\ faults' \in 0..MaxFaults
  BY DEF ReadPending, IndInv, TypeOK
<1>4. DrainOK(rl)'
  BY <1>2, <1>3 DEF DrainOK, IndInv, TablesAgree, apiVars
<1> QED
  BY <1>1, <1>2, <1>3, <1>4, LocalStepIndInv

\* A drain that returns, with or without an error, holds nothing.
LEMMA IdleIndInv ==
  ASSUME IndInv, NEW rl \in Relay,
         relay' = [relay EXCEPT ![rl] = Idle],
         UNCHANGED <<done, checkpoint, applied>>, UNCHANGED apiVars,
         faults' \in 0..MaxFaults
  PROVE  IndInv'
<1>1. Idle \in [pc : {"idle", "pending", "apply", "mark"},
                pending : SUBSET Drawn, next : Nat, last : Nat]
  BY DEF Idle
<1>2. relay'[rl] = Idle
  BY DEF IndInv, TypeOK
<1>3. DrainOK(rl)'
  BY <1>2 DEF DrainOK, Idle
<1> QED
  BY <1>1, <1>3, LocalStepIndInv

\* Checkpoint is read after Pending, so the run fits what is committed.
LEMMA ReadCheckpointIndInv ==
  ASSUME IndInv, NEW rl \in Relay, ReadCheckpoint(rl)
  PROVE  IndInv'
<1>1. /\ checkpoint \in Nat
      /\ relay[rl].pending \in SUBSET Nat
      /\ relay[rl].pending \subseteq events
      /\ faults' \in 0..MaxFaults
      /\ UNCHANGED <<done, checkpoint, applied>>
      /\ UNCHANGED apiVars
  BY DEF IndInv, TypeOK, Drawn, DrainOK, ReadCheckpoint
<1>2. PICK last \in {checkpoint} \cup relay[rl].pending :
        /\ IsRun(relay[rl].pending, checkpoint + 1, last)
        /\ relay' = [relay EXCEPT ![rl] =
                       IF last = checkpoint
                       THEN Idle
                       ELSE [pc |-> "apply", pending |-> {},
                             next |-> checkpoint + 1, last |-> last]]
  BY DEF ReadCheckpoint
<1>3. CASE last = checkpoint
  BY <1>1, <1>2, <1>3, IdleIndInv
<1>4. CASE last # checkpoint
  <2> DEFINE d == [pc |-> "apply", pending |-> {}, next |-> checkpoint + 1, last |-> last]
  <2>1. /\ last \in Nat
        /\ checkpoint + 1 <= last
        /\ (checkpoint + 1)..last \subseteq relay[rl].pending
    BY <1>1, <1>2, <1>4, RunIsContiguous
  <2>2. d \in [pc : {"idle", "pending", "apply", "mark"},
               pending : SUBSET Drawn, next : Nat, last : Nat]
    BY <1>1, <2>1
  <2>3. relay' = [relay EXCEPT ![rl] = d] /\ relay'[rl] = d
    BY <1>2, <1>4 DEF IndInv, TypeOK
  <2>4. DrainOK(rl)'
    BY <1>1, <2>1, <2>3 DEF DrainOK, apiVars
  <2> HIDE DEF d
  <2> QED
    BY <1>1, <2>2, <2>3, <2>4, LocalStepIndInv
<1> QED
  BY <1>3, <1>4

\* The projection transaction: the run closes up with the checkpoint, so the
\* prefix it accounts for has no hole, even if another drain has moved the
\* checkpoint in the meantime.
LEMMA ApplyIndInv ==
  ASSUME IndInv, NEW rl \in Relay, Apply(rl) \/ ApplyUnacknowledged(rl)
  PROVE  IndInv'
<1> USE DEF IndInv
<1>1. PICK next \in Nat \ {0}, last \in Nat :
        /\ next = relay[rl].next
        /\ last = relay[rl].last
        /\ next <= last
        /\ next <= checkpoint + 1
        /\ next..last \subseteq events
  <2>1. relay[rl].pc = "apply"
    BY DEF Apply, ApplyUnacknowledged, ApplyRun
  <2>2. /\ 1 <= relay[rl].next
        /\ relay[rl].next <= relay[rl].last
        /\ relay[rl].next <= checkpoint + 1
        /\ relay[rl].next..relay[rl].last \subseteq events
    BY <2>1 DEF DrainOK
  <2>3. relay[rl].next \in Nat /\ relay[rl].last \in Nat
    BY DEF TypeOK
  <2>4. relay[rl].next \in Nat \ {0}
    BY <2>2, <2>3
  <2> QED
    BY <2>2, <2>3, <2>4
<1>2. /\ applied' = applied \o Interval(next, last)
      /\ checkpoint' = IF checkpoint < last THEN last ELSE checkpoint
      /\ UNCHANGED done
      /\ UNCHANGED apiVars
  BY <1>1 DEF Apply, ApplyUnacknowledged, ApplyRun, SetProjectionCheckpoint
<1>3. faults' \in 0..MaxFaults
  BY FailsBounded DEF Apply, ApplyUnacknowledged, TypeOK
<1>4. /\ relay' \in [Relay -> [pc : {"idle", "pending", "apply", "mark"},
                               pending : SUBSET Drawn, next : Nat, last : Nat]]
      /\ \A other \in Relay : other # rl => relay'[other] = relay[other]
      /\ relay'[rl].pending \subseteq relay[rl].pending
      /\ relay'[rl].pc # "apply"
      /\ relay'[rl].pc = "mark" => relay'[rl].next = next /\ relay'[rl].last = last
  <2>1. CASE Apply(rl)
    BY <2>1, <1>1 DEF Apply, TypeOK
  <2>2. CASE ApplyUnacknowledged(rl)
    BY <2>2, <1>1 DEF ApplyUnacknowledged, Idle, TypeOK
  <2> QED
    BY <2>1, <2>2
<1>5. /\ checkpoint \in Nat
      /\ checkpoint' \in Nat
      /\ checkpoint <= checkpoint'
      /\ last <= checkpoint'
      /\ 1..checkpoint' \subseteq (1..checkpoint) \cup (next..last)
  BY <1>1, <1>2 DEF TypeOK
<1>6. NumbersAreUnique' /\ BatchAllOrNothing' /\ Drawn' = Drawn
  BY <1>2, RelayLeavesApi
<1>7. /\ applied' \in Seq(Nat)
      /\ RowsOf(applied') = RowsOf(applied) \cup (next..last)
  <2>1. next <= last + 1
    BY <1>1
  <2>2. Interval(next, last) \in Seq(Nat) /\ RowsOf(Interval(next, last)) = next..last
    BY <2>1, RowsOfInterval
  <2>3. applied \in Seq(Nat)
    BY DEF TypeOK
  <2> QED
    BY <1>2, <2>2, <2>3, RowsOfConcat
<1>8. TypeOK'
  <2>1. next..last \subseteq Drawn
    BY <1>1 DEF TypeOK
  <2>2. last < nextSeq /\ nextSeq \in Nat
    <3>1. last \in next..last
      BY <1>1
    <3>2. nextSeq \in Nat \ {0}
      BY DEF TypeOK
    <3>3. last \in 1..(nextSeq - 1)
      BY <2>1, <3>1 DEF Drawn
    <3> QED
      BY <3>2, <3>3
  <2>3. checkpoint' < nextSeq
    BY <1>2, <2>2 DEF TypeOK
  <2>4. RowsOf(applied') \subseteq Drawn'
    BY <1>6, <1>7, <2>1 DEF TypeOK
  <2> QED
    BY <1>2, <1>3, <1>4, <1>5, <1>6, <1>7, <2>3, <2>4 DEF TypeOK, apiVars
<1>9. TablesAgree'
  <2>1. 1..checkpoint' \subseteq events'
    BY <1>1, <1>2, <1>5 DEF TablesAgree, apiVars
  <2>2. 1..checkpoint' \subseteq RowsOf(applied')
    BY <1>5, <1>7 DEF TablesAgree
  <2>3. \A s \in done' : s <= checkpoint'
    <3>1. \A s \in done : s \in Nat /\ s <= checkpoint
      BY DEF TablesAgree, TypeOK, Drawn
    <3> QED
      BY <1>2, <1>5, <3>1
  <2> QED
    BY <1>2, <2>1, <2>2, <2>3 DEF TablesAgree, apiVars
<1>10. ASSUME NEW other \in Relay PROVE DrainOK(other)'
  <2>1. CASE other = rl
    <3>1. relay'[rl].pending \subseteq events'
      BY <1>2, <1>4 DEF DrainOK, apiVars
    <3>2. relay'[rl].pc = "mark" => /\ 1 <= relay'[rl].next
                                    /\ relay'[rl].next <= relay'[rl].last
                                    /\ relay'[rl].last <= checkpoint'
      BY <1>1, <1>4, <1>5
    <3> QED
      BY <2>1, <1>4, <3>1, <3>2 DEF DrainOK
  <2>2. CASE other # rl
    <3>1. DrainOK(other) /\ relay'[other] = relay[other] /\ events' = events
      BY <2>2, <1>2, <1>4 DEF apiVars
    <3>2. relay[other].next \in Nat /\ relay[other].last \in Nat
      BY DEF TypeOK
    <3>3. /\ relay[other].next <= checkpoint + 1
             => relay[other].next <= checkpoint' + 1
          /\ relay[other].last <= checkpoint => relay[other].last <= checkpoint'
      BY <1>5, <3>2
    <3> QED
      BY <3>1, <3>3 DEF DrainOK
  <2> QED
    BY <2>1, <2>2
<1> QED
  BY <1>6, <1>8, <1>9, <1>10

\* MarkDone: only entries of an applied run are marked.
LEMMA MarkDoneIndInv ==
  ASSUME IndInv, NEW rl \in Relay, MarkDone(rl)
  PROVE  IndInv'
<1> USE DEF IndInv
<1>1. /\ relay[rl].pc = "mark"
      /\ relay[rl].next \in Nat /\ relay[rl].last \in Nat
      /\ 1 <= relay[rl].next
      /\ relay[rl].next <= relay[rl].last
      /\ relay[rl].last <= checkpoint
      /\ done' = done \cup {relay[rl].next}
      /\ UNCHANGED <<checkpoint, applied, faults>>
      /\ UNCHANGED apiVars
  BY DEF MarkDone, DrainOK, TypeOK
<1>2. /\ relay' \in [Relay -> [pc : {"idle", "pending", "apply", "mark"},
                               pending : SUBSET Drawn, next : Nat, last : Nat]]
      /\ \A other \in Relay : other # rl => relay'[other] = relay[other]
      /\ relay'[rl].pending \subseteq relay[rl].pending
      /\ relay'[rl].pc # "apply"
      /\ relay'[rl].pc = "mark" => /\ relay'[rl].last = relay[rl].last
                                   /\ relay'[rl].next = relay[rl].next + 1
                                   /\ relay[rl].next # relay[rl].last
  <2>1. CASE relay[rl].next = relay[rl].last
    BY <2>1, <1>1 DEF MarkDone, Idle, TypeOK
  <2>2. CASE relay[rl].next # relay[rl].last
    <3>1. relay[rl].next + 1 \in Nat
      BY <1>1
    <3>2. relay' = [relay EXCEPT ![rl].next = relay[rl].next + 1]
      BY <2>2 DEF MarkDone
    <3>3. /\ relay'[rl] = [relay[rl] EXCEPT !.next = relay[rl].next + 1]
          /\ relay' \in [Relay -> [pc : {"idle", "pending", "apply", "mark"},
                                   pending : SUBSET Drawn, next : Nat, last : Nat]]
      BY <3>1, <3>2 DEF TypeOK
    <3>4. \A other \in Relay : other # rl => relay'[other] = relay[other]
      BY <3>2 DEF TypeOK
    <3>5. /\ relay'[rl].pending = relay[rl].pending
          /\ relay'[rl].pc = "mark"
          /\ relay'[rl].last = relay[rl].last
          /\ relay'[rl].next = relay[rl].next + 1
      BY <1>1, <3>3 DEF TypeOK
    <3> QED
      BY <2>2, <3>3, <3>4, <3>5
  <2> QED
    BY <2>1, <2>2
<1>3. NumbersAreUnique' /\ BatchAllOrNothing' /\ Drawn' = Drawn
  BY <1>1, RelayLeavesApi
<1>4. relay[rl].next \in outbox
  <2>1. relay[rl].next \in 1..checkpoint
    BY <1>1 DEF TypeOK
  <2> QED
    BY <2>1 DEF TablesAgree
<1>5. TypeOK'
  BY <1>1, <1>2, <1>3, <1>4 DEF TypeOK, apiVars
<1>6. TablesAgree'
  <2>1. relay[rl].next <= checkpoint
    BY <1>1 DEF TypeOK
  <2> QED
    BY <1>1, <2>1 DEF TablesAgree, apiVars
<1>7. ASSUME NEW other \in Relay PROVE DrainOK(other)'
  <2>1. CASE other = rl
    BY <2>1, <1>1, <1>2 DEF DrainOK, apiVars
  <2>2. CASE other # rl
    BY <2>2, <1>1, <1>2 DEF DrainOK, apiVars
  <2> QED
    BY <2>1, <2>2
<1> QED
  BY <1>3, <1>5, <1>6, <1>7

\* A drain cut short loses its local variables and nothing else.
LEMMA DrainFailsIndInv ==
  ASSUME IndInv, NEW rl \in Relay, DrainFails(rl) \/ ApplyRejected(rl)
  PROVE  IndInv'
<1>1. /\ relay' = [relay EXCEPT ![rl] = Idle]
      /\ UNCHANGED <<done, checkpoint, applied>>
      /\ UNCHANGED apiVars
      /\ faults' \in 0..MaxFaults
  BY FailsBounded DEF DrainFails, ApplyRejected, IndInv, TypeOK
<1> QED
  BY <1>1, IdleIndInv

\* A stuttering step.
LEMMA StutterIndInv == IndInv /\ UNCHANGED vars => IndInv'
BY DEF IndInv, vars, TypeOK, Drawn, NumbersAreUnique, BatchAllOrNothing,
       Committed, TablesAgree, DrainOK

\* Every step of an API request and of a relay preserves the invariant.
LEMMA NextIndInv == IndInv /\ [Next]_vars => IndInv'
<1> SUFFICES ASSUME IndInv, [Next]_vars PROVE IndInv'
  OBVIOUS
<1>1. ASSUME NEW r \in Request, RequestStep(r) PROVE IndInv'
  BY <1>1, BeginIndInv, GiveUpIndInv, InsertEventIndInv, CommitIndInv
  DEF RequestStep
<1>2. ASSUME NEW rl \in Relay, RelayStep(rl) PROVE IndInv'
  BY <1>2, ReadPendingIndInv, ReadCheckpointIndInv, ApplyIndInv,
     MarkDoneIndInv, DrainFailsIndInv
  DEF RelayStep
<1>3. CASE UNCHANGED vars
  BY <1>3, StutterIndInv
<1> QED
  BY <1>1, <1>2, <1>3 DEF Next

\* The inductive invariant holds in every reachable state of the write path.
THEOREM Invariance == Spec => []IndInv
<1>1. Init => IndInv
  BY InitIndInv
<1>2. IndInv /\ [Next]_vars => IndInv'
  BY NextIndInv
<1> QED
  BY <1>1, <1>2, PTL DEF Spec

-----------------------------------------------------------------------------
(***************************************************************************)
(* Safety of the write path with any number of relays.                     *)
(***************************************************************************)

\* Every row, every entry held by a relay and the checkpoint carry numbers
\* that were handed out.
THEOREM TypeCorrect == Spec => []TypeOK
BY Invariance, PTL DEF IndInv

\* Append is all or nothing, in the log and in the outbox.
THEOREM AppendIsAtomic == Spec => []BatchAllOrNothing
BY Invariance, PTL DEF IndInv

\* An event beyond the checkpoint is pending: done rows are at or below the
\* checkpoint, and the outbox holds every event.
THEOREM NoEventLost == Spec => []NothingLost
<1>1. IndInv => NothingLost
  <2> SUFFICES ASSUME IndInv, NEW s \in events, ~(s <= checkpoint)
               PROVE  s \in outbox \ done
    BY DEF NothingLost
  <2> QED
    BY DEF IndInv, TablesAgree
<1> QED
  BY <1>1, Invariance, PTL

\* The rows of a batch are at or below the number Append returned, and the
\* projection holds everything up to the checkpoint.
THEOREM AcceptedReadable == Spec => []AcceptedIsReadable
<1>1. IndInv => AcceptedIsReadable
  <2> SUFFICES ASSUME IndInv, NEW r \in Request, Projected(r),
                      NEW i \in DOMAIN req[r].seqs
               PROVE  req[r].seqs[i] \in RowsOf(applied)
    BY DEF AcceptedIsReadable, RowsOf
  <2>1. PICK seqs \in Seq(Nat) : seqs = req[r].seqs
    BY DEF IndInv, TypeOK
  <2>2. i \in 1..Len(seqs) /\ Len(seqs) \in 1..Len(seqs)
    BY <2>1
  <2>3. seqs[i] <= seqs[Len(seqs)]
    BY <2>1, <2>2 DEF IndInv, NumbersAreUnique
  <2>4. seqs[Len(seqs)] <= checkpoint
    BY <2>1 DEF Projected, ReturnedSequence
  <2>5. seqs[i] \in Drawn
    BY <2>1 DEF IndInv, TypeOK, RowsOf
  <2>6. seqs[i] \in Nat /\ 1 <= seqs[i] /\ seqs[Len(seqs)] \in Nat
    BY <2>2, <2>5 DEF Drawn
  <2>7. seqs[i] \in 1..checkpoint
    BY <2>3, <2>4, <2>6 DEF IndInv, TypeOK
  <2> QED
    BY <2>1, <2>7 DEF IndInv, TablesAgree
<1> QED
  BY <1>1, Invariance, PTL

\* Everything up to the checkpoint is committed already, so what commits now
\* lies beyond it.
THEOREM CommitsAheadOfCheckpoint == Spec => NoCommitBehindCheckpoint
<1>1. IndInv /\ IndInv' /\ [Next]_vars
        => [\A s \in events' \ events : s > checkpoint]_vars
  <2> SUFFICES ASSUME IndInv, IndInv', NEW s \in events' \ events
               PROVE  s > checkpoint
    OBVIOUS
  <2>1. s \in Nat /\ 1 <= s
    <3>1. s \in Drawn' /\ nextSeq' \in Nat
      BY DEF IndInv, TypeOK
    <3> QED
      BY <3>1 DEF Drawn
  <2>2. s \notin 1..checkpoint
    BY DEF IndInv, TablesAgree
  <2> QED
    BY <2>1, <2>2 DEF IndInv, TypeOK
<1> QED
  BY <1>1, Invariance, PTL DEF Spec, NoCommitBehindCheckpoint

\* Only Apply writes the checkpoint, and its WHERE clause keeps it from
\* moving back.
LEMMA CheckpointAscends ==
  ASSUME IndInv, [Next]_vars
  PROVE  checkpoint' >= checkpoint
<1>1. checkpoint \in Nat /\ \A rl \in Relay : relay[rl].last \in Nat
  BY DEF IndInv, TypeOK
<1>2. ASSUME NEW r \in Request, RequestStep(r)
      PROVE  checkpoint' = checkpoint
  BY <1>2 DEF RequestStep, Begin, BeginFails, InsertEvent, Commit,
              CommitUnacknowledged, CommitRows, Rollback, relayVars
<1>3. ASSUME NEW rl \in Relay, RelayStep(rl)
      PROVE  checkpoint' >= checkpoint
  BY <1>1, <1>3 DEF RelayStep, ReadPending, ReadCheckpoint, Apply,
                    ApplyUnacknowledged, ApplyRun, SetProjectionCheckpoint,
                    ApplyRejected, MarkDone, DrainFails
<1>4. CASE UNCHANGED vars
  BY <1>1, <1>4 DEF vars
<1> QED
  BY <1>1, <1>2, <1>3, <1>4 DEF Next

\* The checkpoint never moves back, whatever drains overlap and fail.
THEOREM CheckpointNeverMovesBack == Spec => CheckpointMonotone
<1>1. IndInv /\ [Next]_vars => [checkpoint' >= checkpoint]_vars
  BY CheckpointAscends
<1> QED
  BY <1>1, Invariance, PTL DEF Spec, CheckpointMonotone

\* A number that nobody holds stays unused: numbers are drawn upwards, and
\* what commits was held by an open transaction.
LEMMA DeadStaysDead ==
  ASSUME IndInv, IndInv', Next, NEW s \in Drawn, DeadNumber(s)
  PROVE  DeadNumber(s)' /\ checkpoint' < s
<1>1. s \in Nat /\ 1 <= s /\ s < nextSeq /\ nextSeq \in Nat
  BY DEF IndInv, TypeOK, Drawn
<1>2. ASSUME NEW r \in Request, RequestStep(r)
      PROVE  DeadNumber(s)'
  <2>1. \A q \in Request : q # r => req'[q] = req[q]
    BY <1>2 DEF RequestStep, Begin, BeginFails, InsertEvent, Commit,
                CommitUnacknowledged, CommitRows, Rollback, IndInv, TypeOK
  <2>2. CASE \E n \in BatchSize : Begin(r, n)
    <3>1. UNCHANGED <<nextSeq, events>> /\ req'[r].seqs = <<>>
      BY <2>2 DEF Begin, IndInv, TypeOK
    <3>2. s \notin RowsOf(<<>>)
      BY DEF RowsOf
    <3> QED
      BY <2>1, <3>1, <3>2 DEF DeadNumber, Drawn
  <2>3. CASE BeginFails(r) \/ Rollback(r)
    <3>1. UNCHANGED <<nextSeq, events>> /\ req'[r].state = "failed"
      BY <2>3 DEF BeginFails, Rollback, IndInv, TypeOK
    <3> QED
      BY <2>1, <3>1 DEF DeadNumber, Drawn
  <2>4. CASE InsertEvent(r)
    <3>1. /\ nextSeq' = nextSeq + 1 /\ events' = events
          /\ req[r].state = "open"
          /\ req'[r].seqs = Append(req[r].seqs, nextSeq)
      BY <2>4 DEF InsertEvent, DrawSequence, IndInv, TypeOK
    <3>2. RowsOf(req'[r].seqs) = RowsOf(req[r].seqs) \cup {nextSeq}
      BY <1>1, <3>1, RowsOfAppend DEF IndInv, TypeOK
    <3>3. s # nextSeq /\ s \in Drawn'
      BY <1>1, <3>1 DEF Drawn
    <3> QED
      BY <2>1, <3>1, <3>2, <3>3 DEF DeadNumber
  <2>5. CASE Commit(r) \/ CommitUnacknowledged(r)
    <3>1. /\ nextSeq' = nextSeq
          /\ events' = events \cup RowsOf(req[r].seqs)
          /\ req[r].state = "open"
          /\ req'[r].state # "open"
      BY <2>5 DEF Commit, CommitUnacknowledged, CommitRows, IndInv, TypeOK
    <3> QED
      BY <2>1, <3>1 DEF DeadNumber, Drawn
  <2> QED
    BY <1>2, <2>2, <2>3, <2>4, <2>5 DEF RequestStep
<1>3. ASSUME NEW rl \in Relay, RelayStep(rl)
      PROVE  DeadNumber(s)'
  <2>1. UNCHANGED apiVars
    BY <1>3 DEF RelayStep, ReadPending, ReadCheckpoint, Apply,
                ApplyUnacknowledged, ApplyRun, ApplyRejected, MarkDone,
                DrainFails
  <2> QED
    BY <2>1 DEF DeadNumber, apiVars, Drawn
<1>4. DeadNumber(s)'
  BY <1>2, <1>3 DEF Next
<1>5. s \notin 1..checkpoint' /\ checkpoint' \in Nat
  BY <1>4 DEF DeadNumber, IndInv, TablesAgree, TypeOK
<1> QED
  BY <1>1, <1>4, <1>5

\* While an applied row is left unmarked no drain gets beyond its loop.
LEMMA LeftoverStays ==
  ASSUME IndInv, Next, NEW s, Leftover(s)
  PROVE  Leftover(s)' /\ checkpoint' = checkpoint
<1>1. ASSUME NEW r \in Request, RequestStep(r)
      PROVE  /\ outbox \subseteq outbox'
             /\ UNCHANGED relayVars
  BY <1>1 DEF RequestStep, Begin, BeginFails, InsertEvent, Commit,
              CommitUnacknowledged, CommitRows, Rollback
<1>2. ASSUME NEW rl \in Relay, RelayStep(rl)
      PROVE  Leftover(s)' /\ checkpoint' = checkpoint
  <2>1. relay[rl].pc = "idle" \/ (relay[rl].pc = "pending" /\ s \in relay[rl].pending)
    BY DEF Leftover
  <2>2. CASE ReadPending(rl)
    <3>1. /\ relay'[rl].pc = "pending" /\ relay'[rl].pending = outbox \ done
          /\ \A other \in Relay : other # rl => relay'[other] = relay[other]
      BY <2>2 DEF ReadPending, IndInv, TypeOK
    <3>2. UNCHANGED <<outbox, done, checkpoint>>
      BY <2>2 DEF ReadPending, apiVars
    <3> QED
      BY <3>1, <3>2 DEF Leftover
  <2>3. CASE ReadCheckpoint(rl)
    <3>1. PICK last \in {checkpoint} \cup relay[rl].pending :
            /\ IsRun(relay[rl].pending, checkpoint + 1, last)
            /\ relay' = [relay EXCEPT ![rl] =
                           IF last = checkpoint
                           THEN Idle
                           ELSE [pc |-> "apply", pending |-> {},
                                 next |-> checkpoint + 1, last |-> last]]
      BY <2>3 DEF ReadCheckpoint
    <3>2. s \in relay[rl].pending
      BY <2>1, <2>3 DEF ReadCheckpoint
    <3>3. s \in Nat /\ checkpoint \in Nat /\ s <= checkpoint
      BY DEF Leftover, IndInv, TypeOK, Drawn
    <3>4. last = checkpoint
      BY <3>1, <3>2, <3>3, RunIsEmpty
    <3>5. /\ relay'[rl].pc = "idle"
          /\ \A other \in Relay : other # rl => relay'[other] = relay[other]
      BY <3>1, <3>4 DEF Idle, IndInv, TypeOK
    <3>6. UNCHANGED <<outbox, done, checkpoint>>
      BY <2>3 DEF ReadCheckpoint, apiVars
    <3> QED
      BY <3>5, <3>6 DEF Leftover
  <2>4. CASE DrainFails(rl)
    <3>1. /\ relay'[rl].pc = "idle"
          /\ \A other \in Relay : other # rl => relay'[other] = relay[other]
      BY <2>4 DEF DrainFails, Idle, IndInv, TypeOK
    <3>2. UNCHANGED <<outbox, done, checkpoint>>
      BY <2>4 DEF DrainFails, apiVars
    <3> QED
      BY <3>1, <3>2 DEF Leftover
  <2>5. ~(Apply(rl) \/ ApplyUnacknowledged(rl) \/ ApplyRejected(rl) \/ MarkDone(rl))
    BY <2>1 DEF Apply, ApplyUnacknowledged, ApplyRun, ApplyRejected, MarkDone
  <2> QED
    BY <1>2, <2>2, <2>3, <2>4, <2>5 DEF RelayStep
<1>3. ASSUME NEW r \in Request, RequestStep(r)
      PROVE  Leftover(s)' /\ checkpoint' = checkpoint
  BY <1>1, <1>3 DEF Leftover, relayVars
<1> QED
  BY <1>2, <1>3 DEF Next

\* Neither a number that will never be used nor a row left unmarked ever
\* lets the relay on again.
THEOREM HaltsStayHalted == Spec => HaltsAreFinal
<1> DEFINE Halt == \A s \in Drawn :
                     /\ DeadNumber(s) => DeadNumber(s)' /\ checkpoint' < s
                     /\ Leftover(s) => Leftover(s)' /\ checkpoint' = checkpoint
<1>1. IndInv /\ IndInv' /\ [Next]_vars => [Halt]_vars
  BY DeadStaysDead, LeftoverStays
<1> QED
  BY <1>1, Invariance, PTL DEF Spec, HaltsAreFinal

-----------------------------------------------------------------------------
(***************************************************************************)
(* Delivery with one relay, as deployed by docker-compose.yml.             *)
(***************************************************************************)

OneRelay == \A a, b \in Relay : a = b

\* With nobody else to move the checkpoint, the run still starts right after
\* it when it is applied.
DeliveryInv ==
  /\ IndInv
  /\ ExactlyOnceInOrder
  /\ \A rl \in Relay : relay[rl].pc = "apply" => relay[rl].next = checkpoint + 1

\* The delivery invariant is preserved by every step.
LEMMA NextDeliveryInv ==
  ASSUME OneRelay, DeliveryInv, [Next]_vars
  PROVE  DeliveryInv'
<1> DEFINE Starts == \A rl \in Relay :
             relay[rl].pc = "apply" => relay[rl].next = checkpoint + 1
<1>1. IndInv'
  BY NextIndInv DEF DeliveryInv
<1>2. ASSUME UNCHANGED <<checkpoint, applied, relay>>
      PROVE  ExactlyOnceInOrder' /\ Starts'
  BY <1>2 DEF DeliveryInv, ExactlyOnceInOrder
<1>3. ASSUME NEW r \in Request, RequestStep(r)
      PROVE  UNCHANGED <<checkpoint, applied, relay>>
  BY <1>3 DEF RequestStep, Begin, BeginFails, InsertEvent, Commit,
              CommitUnacknowledged, CommitRows, Rollback, relayVars
<1>4. ASSUME NEW rl \in Relay, RelayStep(rl)
      PROVE  ExactlyOnceInOrder' /\ Starts'
  <2>1. \A other \in Relay : other = rl
    BY DEF OneRelay
  <2>2. CASE Apply(rl) \/ ApplyUnacknowledged(rl)
    <3>1. PICK c \in Nat, last \in Nat :
            /\ c = checkpoint /\ last = relay[rl].last
            /\ c + 1 = relay[rl].next
            /\ c <= last
      <4>1. relay[rl].pc = "apply"
        BY <2>2 DEF Apply, ApplyUnacknowledged, ApplyRun
      <4>2. relay[rl].next = checkpoint + 1 /\ relay[rl].next <= relay[rl].last
        BY <4>1 DEF DeliveryInv, IndInv, DrainOK
      <4>3. checkpoint \in Nat /\ relay[rl].last \in Nat
        BY DEF DeliveryInv, IndInv, TypeOK
      <4> QED
        BY <4>2, <4>3
    <3>2. /\ applied' = applied \o Interval(c + 1, last)
          /\ checkpoint' = IF c < last THEN last ELSE c
      BY <2>2, <3>1 DEF Apply, ApplyUnacknowledged, ApplyRun, SetProjectionCheckpoint
    <3>3. checkpoint' = last
      BY <3>1, <3>2
    <3>4. applied = Interval(1, c)
      BY <3>1 DEF DeliveryInv, ExactlyOnceInOrder
    <3>5. applied' = Interval(1, last)
      BY <3>1, <3>2, <3>4, IntervalConcat
    <3>6. relay'[rl].pc # "apply"
      BY <2>2 DEF Apply, ApplyUnacknowledged, Idle, DeliveryInv, IndInv, TypeOK
    <3> QED
      BY <2>1, <3>3, <3>5, <3>6 DEF ExactlyOnceInOrder
  <2>3. CASE ~(Apply(rl) \/ ApplyUnacknowledged(rl))
    <3>1. UNCHANGED <<checkpoint, applied>>
      BY <1>4, <2>3 DEF RelayStep, ReadPending, ReadCheckpoint, ApplyRejected,
                        MarkDone, DrainFails
    <3>2. relay'[rl].pc = "apply" => relay'[rl].next = checkpoint + 1
      <4>1. CASE \/ ReadPending(rl) \/ ReadCheckpoint(rl)
                 \/ ApplyRejected(rl) \/ DrainFails(rl)
        BY <4>1 DEF ReadPending, ReadCheckpoint, ApplyRejected, DrainFails, Idle,
                    DeliveryInv, IndInv, TypeOK
      <4>2. CASE MarkDone(rl)
        BY <4>2 DEF MarkDone, Idle, DeliveryInv, IndInv, TypeOK
      <4> QED
        BY <1>4, <2>3, <4>1, <4>2 DEF RelayStep
    <3> QED
      BY <2>1, <3>1, <3>2 DEF DeliveryInv, ExactlyOnceInOrder
  <2> QED
    BY <2>2, <2>3
<1>5. CASE UNCHANGED vars
  BY <1>1, <1>2, <1>5 DEF vars, DeliveryInv
<1> QED
  BY <1>1, <1>2, <1>3, <1>4, <1>5 DEF Next, DeliveryInv

\* Nothing has been delivered initially.
LEMMA InitDeliveryInv == Init => DeliveryInv
<1> SUFFICES ASSUME Init PROVE DeliveryInv
  OBVIOUS
<1>1. IndInv
  BY InitIndInv
<1>2. Interval(1, 0) = <<>>
  BY DEF Interval
<1> QED
  BY <1>1, <1>2 DEF Init, Idle, DeliveryInv, ExactlyOnceInOrder

\* With one relay every event is applied exactly once, in order, whichever
\* step of a drain fails.
THEOREM DeliveredExactlyOnce ==
  ASSUME OneRelay
  PROVE  Spec => []ExactlyOnceInOrder
<1>1. Init => DeliveryInv
  BY InitDeliveryInv
<1>2. DeliveryInv /\ [Next]_vars => DeliveryInv'
  BY NextDeliveryInv
<1>3. DeliveryInv => ExactlyOnceInOrder
  BY DEF DeliveryInv
<1> QED
  BY <1>1, <1>2, <1>3, PTL DEF Spec

\* A step of the write path is a step of the abstract feed or leaves it as
\* it was.
LEMMA StepRefinesFeed ==
  ASSUME DeliveryInv, [Next]_vars
  PROVE  [Feed!FeedNext]_(Feed!feedVars)
<1> USE DEF Feed!feedVars
<1>1. /\ checkpoint \in Nat
      /\ applied = Interval(1, checkpoint)
      /\ Len(applied) = checkpoint
  <2>1. checkpoint \in Nat /\ applied = Interval(1, checkpoint)
    BY DEF DeliveryInv, ExactlyOnceInOrder, IndInv, TypeOK
  <2> QED
    BY <2>1, RowsOfInterval
<1>2. ASSUME NEW r \in Request, RequestStep(r)
      PROVE  [Feed!FeedNext]_(Feed!feedVars)
  <2>1. CASE Commit(r) \/ CommitUnacknowledged(r)
    <3>1. /\ events' = events \cup RowsOf(req[r].seqs)
          /\ applied' = applied
          /\ req[r].state = "open"
      BY <2>1 DEF Commit, CommitUnacknowledged, CommitRows, relayVars
    <3>2. RowsOf(req[r].seqs) \cap events = {}
      BY <3>1 DEF DeliveryInv, IndInv, BatchAllOrNothing, Committed
    <3>3. ASSUME NEW s \in events' \ events
          PROVE  s \in Nat /\ s > Len(applied)
      <4>1. s \in RowsOf(req[r].seqs)
        BY <3>1, <3>3
      <4>2. s \in Drawn /\ nextSeq \in Nat
        BY <4>1 DEF DeliveryInv, IndInv, TypeOK
      <4>3. s \in Nat /\ 1 <= s
        BY <4>2 DEF Drawn
      <4>4. s \notin 1..checkpoint
        BY <3>2, <4>1 DEF DeliveryInv, IndInv, TablesAgree
      <4> QED
        BY <1>1, <4>3, <4>4
    <3> QED
      BY <3>1, <3>3 DEF Feed!FeedNext, Feed!Publish
  <2>2. CASE ~(Commit(r) \/ CommitUnacknowledged(r))
    BY <1>2, <2>2 DEF RequestStep, Begin, BeginFails, InsertEvent, Rollback, relayVars
  <2> QED
    BY <2>1, <2>2
<1>3. ASSUME NEW rl \in Relay, RelayStep(rl)
      PROVE  [Feed!FeedNext]_(Feed!feedVars)
  <2>1. CASE Apply(rl) \/ ApplyUnacknowledged(rl)
    <3>1. PICK last \in Nat :
            /\ last = relay[rl].last
            /\ relay[rl].next = checkpoint + 1
            /\ checkpoint + 1 <= last
            /\ (checkpoint + 1)..last \subseteq events
      <4>1. relay[rl].pc = "apply"
        BY <2>1 DEF Apply, ApplyUnacknowledged, ApplyRun
      <4>2. relay[rl].last \in Nat
        BY DEF DeliveryInv, IndInv, TypeOK
      <4> QED
        BY <4>1, <4>2 DEF DeliveryInv, IndInv, DrainOK
    <3>2. /\ applied' = applied \o Interval(checkpoint + 1, last)
          /\ events' = events
      BY <2>1, <3>1 DEF Apply, ApplyUnacknowledged, ApplyRun, apiVars
    <3>3. last \in events /\ last > Len(applied)
      BY <1>1, <3>1
    <3>4. applied' = applied \o Feed!Interval(Len(applied) + 1, last)
      BY <1>1, <3>2 DEF Interval, Feed!Interval
    <3>5. Feed!Deliver(last)
      BY <1>1, <3>1, <3>2, <3>3, <3>4 DEF Feed!Deliver
    <3> QED
      BY <3>3, <3>5 DEF Feed!FeedNext
  <2>2. CASE ~(Apply(rl) \/ ApplyUnacknowledged(rl))
    BY <1>3, <2>2 DEF RelayStep, ReadPending, ReadCheckpoint, ApplyRejected,
                      MarkDone, DrainFails, apiVars
  <2> QED
    BY <2>1, <2>2
<1>4. CASE UNCHANGED vars
  BY <1>4 DEF vars
<1> QED
  BY <1>2, <1>3, <1>4 DEF Next

\* With one relay the write path implements the abstract feed: events are
\* published atomically and delivered once each, in order, without a hole.
THEOREM WritePathImplementsFeed ==
  ASSUME OneRelay
  PROVE  Spec => ImplementsOrderedDelivery
<1>1. Init => DeliveryInv /\ Feed!FeedInit
  BY InitDeliveryInv DEF Init, Feed!FeedInit
<1>2. DeliveryInv /\ [Next]_vars => DeliveryInv' /\ [Feed!FeedNext]_(Feed!feedVars)
  BY NextDeliveryInv, StepRefinesFeed
<1> QED
  BY <1>1, <1>2, PTL DEF Spec, ImplementsOrderedDelivery, Feed!FeedSpec
==============================================================================
