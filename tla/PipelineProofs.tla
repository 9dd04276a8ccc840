---------------------------- MODULE PipelineProofs ----------------------------
(***************************************************************************)
(* Proofs about EventPipeline, for every set of events, any number of      *)
(* relays and consumers, every batch size and any number of failures.      *)
(***************************************************************************)
EXTENDS EventPipeline, FiniteSetTheorems, TLAPS

\* What is claimed is committed and not marked, by one relay only; what is claimed
\* and no longer to be sent is in the stream.
Sent(e) == \E n \in Entries : stream[n] = e

ClaimOK ==
  \A r \in Relays :
    /\ toSend[r] \subseteq claimed[r]
    /\ \A e \in claimed[r] : row[e] = "unpublished" /\ (e \notin toSend[r] => Sent(e))
    /\ \A q \in Relays \ {r} : claimed[r] \cap claimed[q] = {}

StreamOK == \A n \in Entries : row[stream[n]] # "none"

\* What the group delivered and what consumers hold of it lies between its start and
\* its last id, all of it in the stream.
Delivered == (start + 1)..lastId

GroupOK ==
  /\ start <= lastId /\ lastId <= Len(stream)
  /\ pel \subseteq Delivered
  /\ \A c \in Consumers : batch[c] \subseteq Delivered
  /\ ~group => lastId = 0

\* Malformed events never become documents; what a consumer is about to acknowledge
\* has.
WrittenOK ==
  /\ docs \cap Poison = {}
  /\ \A c \in Consumers :
       written[c] => \E n \in batch[c] : IsFirst(n, batch[c]) /\ stream[n] \in docs

\* How often an event is in the stream: once more than ticks failed only if it is
\* marked, or sent by a relay that has yet to mark it.
Repeats(e) == {n \in Entries : stream[n] = e}
Accounted(e) == row[e] = "published" \/ \E r \in Relays : e \in claimed[r] \ toSend[r]

RepeatsOK ==
  \A e \in Events :
    Cardinality(Repeats(e)) <= failures + (IF Accounted(e) THEN 1 ELSE 0)

Ind ==
  /\ TypeOK /\ ClaimOK /\ StreamOK /\ MarkedIsSent
  /\ GroupOK /\ WrittenOK /\ AcknowledgedIsKnown

-----------------------------------------------------------------------------
(* Helpers.                                                                 *)

\* Oldest picks from the set it is given.
LEMMA OldestIsSubset == \A S, k : Oldest(S, k) \subseteq S
BY DEF Oldest

\* The k oldest of an interval are its first k members.
LEMMA OldestOfInterval ==
  ASSUME NEW a \in Nat, NEW b \in Nat, a <= b, NEW k \in Nat
  PROVE  Oldest((a + 1)..b, k) = (a + 1)..(IF a + k <= b THEN a + k ELSE b)
<1>1. ASSUME NEW x \in (a + 1)..b
      PROVE  Cardinality({y \in (a + 1)..b : y < x}) = x - 1 - a
  <2>1. {y \in (a + 1)..b : y < x} = (a + 1)..(x - 1)
    OBVIOUS
  <2>2. Cardinality((a + 1)..(x - 1)) = x - 1 - a
    BY FS_Interval, a + 1 \in Int, x - 1 \in Int
  <2> QED BY <2>1, <2>2
<1>2. \A x \in (a + 1)..b : x \in Oldest((a + 1)..b, k) <=> x - 1 - a < k
  BY <1>1 DEF Oldest
<1> DEFINE last == IF a + k <= b THEN a + k ELSE b
<1>3. /\ (a + 1)..last \subseteq (a + 1)..b
      /\ \A x \in (a + 1)..b : x - 1 - a < k <=> x \in (a + 1)..last
  OBVIOUS
<1> HIDE DEF last
<1>4. \A x \in Oldest((a + 1)..b, k) : x \in (a + 1)..last
  BY <1>2, <1>3, OldestIsSubset
<1>5. \A x \in (a + 1)..last : x \in Oldest((a + 1)..b, k) BY <1>2, <1>3
<1>6. Oldest((a + 1)..b, k) = (a + 1)..last BY <1>4, <1>5
<1> QED BY <1>6 DEF last

\* What an XADD does to the stream.
LEMMA Appended ==
  ASSUME stream \in Seq(Events), NEW e \in Events, stream' = Append(stream, e)
  PROVE  /\ stream' \in Seq(Events)
         /\ Len(stream') = Len(stream) + 1
         /\ stream'[Len(stream) + 1] = e
         /\ \A n \in Entries : stream'[n] = stream[n]
         /\ Entries' = Entries \cup {Len(stream) + 1}
         /\ Len(stream) + 1 \notin Entries
BY DEF Entries

-----------------------------------------------------------------------------
(* The initial states.                                                      *)

LEMMA InitInd == Init => Ind
<1> SUFFICES ASSUME Init PROVE Ind OBVIOUS
<1> USE DEF Init
<1>1. TypeOK BY PipelineAssumptions DEF TypeOK
<1>2. Entries = {} BY DEF Entries
<1>3. ClaimOK BY DEF ClaimOK
<1>4. StreamOK /\ MarkedIsSent BY <1>2 DEF StreamOK, MarkedIsSent
<1>5. GroupOK BY DEF GroupOK, Delivered
<1>6. WrittenOK BY DEF WrittenOK
<1>7. AcknowledgedIsKnown BY DEF AcknowledgedIsKnown
<1> QED BY <1>1, <1>3, <1>4, <1>5, <1>6, <1>7 DEF Ind

-----------------------------------------------------------------------------
(* The relay's steps.                                                       *)

\* A step that leaves stream, group, consumers and documents alone keeps what is
\* said of them.
LEMMA ConsumersKept ==
  ASSUME Ind, UNCHANGED <<stream, groupVars, consumerVars, docs>>
  PROVE  GroupOK' /\ WrittenOK' /\ AcknowledgedIsKnown'
BY DEF Ind, groupVars, consumerVars, GroupOK, Delivered, WrittenOK, IsFirst, AcknowledgedIsKnown

LEMMA CommitEventKeeps ==
  ASSUME Ind, NEW e \in Events, CommitEvent(e)
  PROVE  Ind'
<1> USE DEF CommitEvent
<1>1. TypeOK' BY DEF Ind, TypeOK, groupVars, consumerVars
<1>2. ClaimOK' BY DEF Ind, TypeOK, ClaimOK, Sent, Entries
<1>3. StreamOK' BY DEF Ind, TypeOK, StreamOK, Entries
<1>4. MarkedIsSent' BY DEF Ind, TypeOK, MarkedIsSent, Entries
<1> QED BY <1>1, <1>2, <1>3, <1>4, ConsumersKept DEF Ind

LEMMA ClaimKeeps ==
  ASSUME Ind, NEW r \in Relays, Claim(r)
  PROVE  Ind'
<1> DEFINE taken == Oldest(Claimable, BatchSize)
<1>0. taken \subseteq Claimable BY OldestIsSubset
<1> HIDE DEF taken
<1>a. /\ claimed' = [claimed EXCEPT ![r] = taken]
      /\ toSend' = [toSend EXCEPT ![r] = taken]
      /\ UNCHANGED <<row, stream, groupVars, consumerVars, docs, failures>>
  BY DEF Claim, taken
<1>1. TypeOK' BY <1>0, <1>a DEF Ind, TypeOK, groupVars, consumerVars, Claimable
<1>2. ClaimOK' BY <1>0, <1>a DEF Ind, TypeOK, ClaimOK, Claimable, Sent, Entries
<1>3. StreamOK' /\ MarkedIsSent' BY <1>a DEF Ind, StreamOK, MarkedIsSent, Entries
<1> QED BY <1>a, <1>1, <1>2, <1>3, ConsumersKept DEF Ind

LEMMA PublishKeeps ==
  ASSUME Ind, NEW r \in Relays, Publish(r)
  PROVE  Ind'
<1> PICK e \in Events :
      /\ e \in toSend[r]
      /\ stream' = Append(stream, e)
      /\ toSend' = [toSend EXCEPT ![r] = @ \ {e}]
  BY DEF Publish, IsFirst
<1>a. UNCHANGED <<row, claimed, groupVars, consumerVars, docs, failures>> BY DEF Publish
<1>b. /\ stream' \in Seq(Events)
      /\ Len(stream') = Len(stream) + 1
      /\ stream'[Len(stream) + 1] = e
      /\ \A n \in Entries : stream'[n] = stream[n]
      /\ Entries' = Entries \cup {Len(stream) + 1}
  BY Appended DEF Ind, TypeOK
<1>c. \A f : Sent(f) => Sent(f)' BY <1>b DEF Sent
<1>d. Sent(e)' BY <1>b DEF Sent
<1>1. TypeOK' BY <1>a, <1>b DEF Ind, TypeOK, groupVars, consumerVars
<1>2. ClaimOK' BY <1>a, <1>c, <1>d DEF Ind, TypeOK, ClaimOK
<1>3. StreamOK' BY <1>a, <1>b DEF Ind, ClaimOK, StreamOK
<1>4. MarkedIsSent' BY <1>a, <1>c DEF Ind, MarkedIsSent, Sent
<1>5. lastId \in Nat /\ start \in Nat /\ lastId <= Len(stream) /\ Len(stream) \in Nat
  BY DEF Ind, TypeOK, GroupOK
<1>6. Delivered' = Delivered /\ Delivered \subseteq Entries
  BY <1>a, <1>5 DEF Delivered, Entries, groupVars
<1>7. GroupOK' BY <1>a, <1>b, <1>5, <1>6 DEF Ind, GroupOK, groupVars, consumerVars
<1>8. \A n \in Delivered : stream'[n] = stream[n] BY <1>b, <1>6
<1>9. WrittenOK'
  BY <1>a, <1>8 DEF Ind, GroupOK, WrittenOK, IsFirst, consumerVars
<1>10. AcknowledgedIsKnown'
  BY <1>a, <1>8 DEF Ind, AcknowledgedIsKnown, Delivered, groupVars
<1> QED BY <1>1, <1>2, <1>3, <1>4, <1>7, <1>9, <1>10 DEF Ind

LEMMA MarkPublishedKeeps ==
  ASSUME Ind, NEW r \in Relays, MarkPublished(r)
  PROVE  Ind'
<1> USE DEF MarkPublished
<1>1. TypeOK' BY DEF Ind, TypeOK, groupVars, consumerVars
<1>2. ClaimOK' BY DEF Ind, TypeOK, ClaimOK, Sent, Entries
<1>3. StreamOK' BY DEF Ind, TypeOK, StreamOK, Entries
<1>4. MarkedIsSent'
  <2>1. \A e \in claimed[r] : Sent(e) BY DEF Ind, ClaimOK
  <2>2. \A e \in Events : Sent(e)' <=> Sent(e) BY DEF Sent, Entries
  <2> QED BY <2>1, <2>2 DEF Ind, TypeOK, MarkedIsSent, Sent
<1> QED BY <1>1, <1>2, <1>3, <1>4, ConsumersKept DEF Ind

LEMMA RelayFailsKeeps ==
  ASSUME Ind, NEW r \in Relays, RelayFails(r)
  PROVE  Ind'
<1> USE DEF RelayFails
<1>1. TypeOK' BY DEF Ind, TypeOK, groupVars, consumerVars
<1>2. ClaimOK' BY DEF Ind, TypeOK, ClaimOK, Sent, Entries
<1>3. StreamOK' /\ MarkedIsSent' BY DEF Ind, StreamOK, MarkedIsSent, Entries
<1> QED BY <1>1, <1>2, <1>3, ConsumersKept DEF Ind

-----------------------------------------------------------------------------
(* The consumer's steps.                                                    *)

\* A step that leaves rows and stream alone keeps what is said of them.
LEMMA RelayKept ==
  ASSUME Ind, UNCHANGED <<relayVars, stream>>
  PROVE  ClaimOK' /\ StreamOK' /\ MarkedIsSent'
BY DEF Ind, relayVars, ClaimOK, Sent, StreamOK, MarkedIsSent, Entries

LEMMA EnsureGroupKeeps ==
  ASSUME Ind, EnsureGroup
  PROVE  Ind'
<1> USE DEF EnsureGroup
<1>1. lastId = 0 /\ start = 0 /\ Delivered = {} BY DEF Ind, TypeOK, GroupOK, Delivered
<1>2. pel = {} /\ \A c \in Consumers : batch[c] = {} BY <1>1 DEF Ind, GroupOK
<1>3. TypeOK' BY DEF Ind, TypeOK, relayVars, consumerVars
<1>4. GroupOK' BY <1>2 DEF Ind, TypeOK, GroupOK, consumerVars
<1>5. WrittenOK' BY DEF Ind, WrittenOK, IsFirst, consumerVars
<1>6. AcknowledgedIsKnown' BY DEF Ind, TypeOK, AcknowledgedIsKnown
<1> QED BY <1>3, <1>4, <1>5, <1>6, RelayKept DEF Ind

LEMMA BecomesIdleKeeps ==
  ASSUME Ind, NEW n \in pel, BecomesIdle(n)
  PROVE  Ind'
<1> USE DEF BecomesIdle
<1>1. TypeOK' BY DEF Ind, TypeOK, relayVars, consumerVars
<1>2. GroupOK' BY DEF Ind, GroupOK, Delivered, consumerVars
<1>3. WrittenOK' BY DEF Ind, WrittenOK, IsFirst, consumerVars
<1>4. AcknowledgedIsKnown' BY DEF Ind, AcknowledgedIsKnown
<1> QED BY <1>1, <1>2, <1>3, <1>4, RelayKept DEF Ind

\* A consumer begins a batch only when it has none, so nothing of it is written yet.
LEMMA NothingWritten ==
  ASSUME Ind, NEW c \in Consumers, batch[c] = {}
  PROVE  written[c] = FALSE
BY DEF Ind, TypeOK, WrittenOK

LEMMA ReclaimKeeps ==
  ASSUME Ind, NEW c \in Consumers, Reclaim(c)
  PROVE  Ind'
<1>0. Reclaimable \subseteq idle BY OldestIsSubset DEF Reclaimable
<1>a. /\ batch[c] = {} /\ group
      /\ batch' = [batch EXCEPT ![c] = Reclaimable]
      /\ pass' = [pass EXCEPT ![c] = "new"]
      /\ idle' = idle \ Reclaimable
      /\ UNCHANGED <<relayVars, stream, group, start, lastId, pel, written, docs, failures>>
  BY DEF Reclaim, Take
<1>1. TypeOK' BY <1>0, <1>a DEF Ind, TypeOK, relayVars
<1>2. GroupOK' BY <1>0, <1>a DEF Ind, TypeOK, GroupOK, Delivered
<1>3. WrittenOK' BY <1>a, NothingWritten DEF Ind, TypeOK, WrittenOK, IsFirst
<1>4. AcknowledgedIsKnown' BY <1>a DEF Ind, AcknowledgedIsKnown
<1> QED BY <1>a, <1>1, <1>2, <1>3, <1>4, RelayKept DEF Ind

\* A read delivers the entries that follow the last id, without a gap.
LEMMA FreshIsInterval ==
  ASSUME Ind
  PROVE  LET fresh == Oldest((lastId + 1)..Len(stream), ReadCount)
             last  == lastId + Cardinality(fresh)
         IN  /\ last \in Nat /\ lastId <= last /\ last <= Len(stream)
             /\ fresh = (lastId + 1)..last
<1> DEFINE to == IF lastId + ReadCount <= Len(stream) THEN lastId + ReadCount ELSE Len(stream)
<1>1. /\ lastId \in Nat /\ Len(stream) \in Nat /\ lastId <= Len(stream) /\ ReadCount \in Nat
  BY PipelineAssumptions DEF Ind, TypeOK, GroupOK
<1>2. to \in Nat /\ lastId <= to /\ to <= Len(stream) BY <1>1
<1>3. Oldest((lastId + 1)..Len(stream), ReadCount) = (lastId + 1)..to BY <1>1, OldestOfInterval
<1> HIDE DEF to
<1>4. Cardinality((lastId + 1)..to) = to - lastId
  <2>1. lastId + 1 \in Int /\ to \in Int BY <1>1, <1>2
  <2>2. Cardinality((lastId + 1)..to) =
          IF lastId + 1 > to THEN 0 ELSE to - (lastId + 1) + 1
    BY <2>1, FS_Interval
  <2> QED BY <1>1, <1>2, <2>2
<1> QED BY <1>1, <1>2, <1>3, <1>4

LEMMA ReadNewKeeps ==
  ASSUME Ind, NEW c \in Consumers, ReadNew(c)
  PROVE  Ind'
<1> DEFINE fresh == Oldest((lastId + 1)..Len(stream), ReadCount)
           last  == lastId + Cardinality(fresh)
<1>0. /\ last \in Nat /\ lastId <= last /\ last <= Len(stream)
      /\ fresh = (lastId + 1)..last
  BY FreshIsInterval
<1>a. /\ batch[c] = {} /\ group
      /\ batch' = [batch EXCEPT ![c] = fresh]
      /\ pass' = [pass EXCEPT ![c] = "reclaim"]
      /\ pel' = pel \cup fresh
      /\ lastId' = last
      /\ UNCHANGED <<relayVars, stream, group, start, idle, written, docs, failures>>
  BY DEF ReadNew, Take
<1> HIDE DEF fresh, last
<1>b. lastId \in Nat /\ start \in Nat /\ start <= lastId BY DEF Ind, TypeOK, GroupOK
<1>c. Delivered' = Delivered \cup fresh /\ fresh \subseteq Nat
  BY <1>0, <1>a, <1>b DEF Delivered
<1>1. TypeOK' BY <1>0, <1>a, <1>c DEF Ind, TypeOK, relayVars
<1>2. GroupOK'
  <2>1. start' <= lastId' /\ lastId' <= Len(stream)' /\ (~group)' = FALSE BY <1>0, <1>a, <1>b
  <2>2. pel' \subseteq Delivered' BY <1>a, <1>c DEF Ind, GroupOK
  <2>3. \A d \in Consumers : batch'[d] \subseteq Delivered'
    BY <1>a, <1>c DEF Ind, TypeOK, GroupOK
  <2> QED BY <1>a, <2>1, <2>2, <2>3 DEF GroupOK
<1>3. WrittenOK' BY <1>a, NothingWritten DEF Ind, TypeOK, WrittenOK, IsFirst
<1>4. AcknowledgedIsKnown'
  BY <1>a, <1>c DEF Ind, AcknowledgedIsKnown, Delivered
<1> QED BY <1>a, <1>1, <1>2, <1>3, <1>4, RelayKept DEF Ind

\* There is one first entry of a batch.
LEMMA FirstIsUnique ==
  ASSUME Ind, NEW c \in Consumers, NEW n, NEW k, IsFirst(n, batch[c]), IsFirst(k, batch[c])
  PROVE  n = k
BY DEF Ind, TypeOK, IsFirst

LEMMA SkipMalformedKeeps ==
  ASSUME Ind, NEW c \in Consumers, NEW n \in batch[c], SkipMalformed(c, n)
  PROVE  Ind'
<1>a. /\ IsFirst(n, batch[c]) /\ stream[n] \in Poison
      /\ batch' = [batch EXCEPT ![c] = @ \ {n}]
      /\ UNCHANGED <<relayVars, stream, groupVars, written, pass, docs, failures>>
  BY DEF SkipMalformed, Done
<1>1. TypeOK' BY <1>a DEF Ind, TypeOK, relayVars, groupVars
<1>2. GroupOK' BY <1>a DEF Ind, TypeOK, GroupOK, Delivered, groupVars
<1>3. WrittenOK'
  <2>1. written[c] = FALSE BY <1>a, FirstIsUnique DEF Ind, TypeOK, WrittenOK
  <2> QED BY <1>a, <2>1 DEF Ind, TypeOK, WrittenOK, IsFirst
<1>4. AcknowledgedIsKnown' BY <1>a DEF Ind, AcknowledgedIsKnown, groupVars
<1> QED BY <1>a, <1>1, <1>2, <1>3, <1>4, RelayKept DEF Ind

\* What a consumer holds is in the stream.
LEMMA HeldIsEntry ==
  ASSUME Ind, NEW c \in Consumers, NEW n \in batch[c]
  PROVE  n \in Entries /\ stream[n] \in Events
BY DEF Ind, TypeOK, GroupOK, Delivered, Entries

LEMMA UpsertKeeps ==
  ASSUME Ind, NEW c \in Consumers, NEW n \in batch[c], Upsert(c, n)
  PROVE  Ind'
<1> USE DEF Upsert
<1>1. TypeOK' BY HeldIsEntry DEF Ind, TypeOK, relayVars, groupVars
<1>2. GroupOK' BY DEF Ind, GroupOK, Delivered, groupVars
<1>3. WrittenOK' BY DEF Ind, TypeOK, WrittenOK, IsFirst
<1>4. AcknowledgedIsKnown' BY DEF Ind, AcknowledgedIsKnown, groupVars
<1> QED BY <1>1, <1>2, <1>3, <1>4, RelayKept DEF Ind

LEMMA AckKeeps ==
  ASSUME Ind, NEW c \in Consumers, NEW n \in batch[c], Ack(c, n)
  PROVE  Ind'
<1>a. /\ IsFirst(n, batch[c]) /\ written[c]
      /\ pel' = pel \ {n} /\ idle' = idle \ {n}
      /\ written' = [written EXCEPT ![c] = FALSE]
      /\ batch' = [batch EXCEPT ![c] = @ \ {n}]
      /\ UNCHANGED <<relayVars, stream, group, start, lastId, pass, docs, failures>>
  BY DEF Ack, Done
<1>b. stream[n] \in docs
  <2>1. PICK k \in batch[c] : IsFirst(k, batch[c]) /\ stream[k] \in docs
    BY <1>a DEF Ind, WrittenOK
  <2>2. k = n BY <1>a, <2>1, FirstIsUnique
  <2> QED BY <2>1, <2>2
<1>1. TypeOK' BY <1>a DEF Ind, TypeOK, relayVars
<1>2. GroupOK' BY <1>a DEF Ind, TypeOK, GroupOK, Delivered
<1>3. WrittenOK' BY <1>a DEF Ind, TypeOK, WrittenOK, IsFirst
<1>4. AcknowledgedIsKnown' BY <1>a, <1>b DEF Ind, AcknowledgedIsKnown
<1> QED BY <1>a, <1>1, <1>2, <1>3, <1>4, RelayKept DEF Ind

LEMMA ConsumerFailsKeeps ==
  ASSUME Ind, NEW c \in Consumers, ConsumerFails(c)
  PROVE  Ind'
<1> USE DEF ConsumerFails, Take
<1>1. TypeOK' BY DEF Ind, TypeOK, relayVars, groupVars
<1>2. GroupOK' BY DEF Ind, TypeOK, GroupOK, Delivered, groupVars
<1>3. WrittenOK' BY DEF Ind, TypeOK, WrittenOK, IsFirst
<1>4. AcknowledgedIsKnown' BY DEF Ind, AcknowledgedIsKnown, groupVars
<1> QED BY <1>1, <1>2, <1>3, <1>4, RelayKept DEF Ind

-----------------------------------------------------------------------------
(* The invariant.                                                           *)

\* Every step of the pipeline, and every step that changes nothing, keeps the
\* invariant.
LEMMA NextInd == Ind /\ [Next]_vars => Ind'
<1> SUFFICES ASSUME Ind, [Next]_vars PROVE Ind' OBVIOUS
<1>1. ASSUME NEW e \in Events, CommitEvent(e) PROVE Ind' BY <1>1, CommitEventKeeps
<1>2. ASSUME NEW r \in Relays, Claim(r) PROVE Ind' BY <1>2, ClaimKeeps
<1>3. ASSUME NEW r \in Relays, Publish(r) PROVE Ind' BY <1>3, PublishKeeps
<1>4. ASSUME NEW r \in Relays, MarkPublished(r) PROVE Ind' BY <1>4, MarkPublishedKeeps
<1>5. ASSUME NEW r \in Relays, RelayFails(r) PROVE Ind' BY <1>5, RelayFailsKeeps
<1>6. CASE EnsureGroup BY <1>6, EnsureGroupKeeps
<1>7. ASSUME NEW c \in Consumers, Reclaim(c) PROVE Ind' BY <1>7, ReclaimKeeps
<1>8. ASSUME NEW c \in Consumers, ReadNew(c) PROVE Ind' BY <1>8, ReadNewKeeps
<1>9. ASSUME NEW c \in Consumers, NEW n \in batch[c], SkipMalformed(c, n) PROVE Ind'
  BY <1>9, SkipMalformedKeeps
<1>10. ASSUME NEW c \in Consumers, NEW n \in batch[c], Upsert(c, n) PROVE Ind'
  BY <1>10, UpsertKeeps
<1>11. ASSUME NEW c \in Consumers, NEW n \in batch[c], Ack(c, n) PROVE Ind'
  BY <1>11, AckKeeps
<1>12. ASSUME NEW c \in Consumers, ConsumerFails(c) PROVE Ind' BY <1>12, ConsumerFailsKeeps
<1>13. ASSUME NEW n \in pel, BecomesIdle(n) PROVE Ind' BY <1>13, BecomesIdleKeeps
<1>14. CASE UNCHANGED vars
  BY <1>14 DEF vars, relayVars, groupVars, consumerVars, Ind, TypeOK, ClaimOK, Sent, Entries,
    StreamOK, MarkedIsSent, GroupOK, Delivered, WrittenOK, IsFirst, AcknowledgedIsKnown
<1> QED
  BY <1>1, <1>2, <1>3, <1>4, <1>5, <1>6, <1>7, <1>8, <1>9, <1>10, <1>11, <1>12, <1>13, <1>14
  DEF Next, RelayStep, ConsumerStep

\* Rows, stream, group and consumers always agree with each other.
THEOREM AlwaysInd == Spec => []Ind
BY InitInd, NextInd, PTL DEF Spec

\* A row is marked published only when its event is in the stream, whatever crashes
\* between the two writes of the relay.
THEOREM MarkedAlwaysSent == Spec => []MarkedIsSent
<1>1. Ind => MarkedIsSent BY DEF Ind
<1> QED BY AlwaysInd, <1>1, PTL

\* An entry of the group leaves the pending list only once its document is written:
\* neither crashes, reclaims by another consumer nor malformed entries lose one.
THEOREM AcknowledgedAlwaysKnown == Spec => []AcknowledgedIsKnown
<1>1. Ind => AcknowledgedIsKnown BY DEF Ind
<1> QED BY AlwaysInd, <1>1, PTL

-----------------------------------------------------------------------------
(* Repeats.                                                                 *)

\* The positions of an event are finitely many.
LEMMA RepeatsFinite ==
  ASSUME stream \in Seq(Events), NEW e
  PROVE  IsFiniteSet(Repeats(e)) /\ Cardinality(Repeats(e)) \in Nat
<1>1. Len(stream) \in Int OBVIOUS
<1>2. IsFiniteSet(Entries) BY <1>1, FS_Interval DEF Entries
<1>3. Repeats(e) \subseteq Entries BY DEF Repeats
<1>4. IsFiniteSet(Repeats(e)) BY <1>2, <1>3, FS_Subset
<1> QED BY <1>4, FS_CardinalityType

LEMMA PublishRepeats ==
  ASSUME Ind, RepeatsOK, NEW r \in Relays, Publish(r)
  PROVE  RepeatsOK'
<1> PICK e \in Events :
      /\ e \in toSend[r]
      /\ stream' = Append(stream, e)
      /\ toSend' = [toSend EXCEPT ![r] = @ \ {e}]
  BY DEF Publish, IsFirst
<1>a. row' = row /\ claimed' = claimed /\ failures' = failures BY DEF Publish
<1>b. /\ stream'[Len(stream) + 1] = e
      /\ \A n \in Entries : stream'[n] = stream[n]
      /\ Entries' = Entries \cup {Len(stream) + 1}
      /\ Len(stream) + 1 \notin Entries
  BY Appended DEF Ind, TypeOK
<1>c. failures \in Nat BY DEF Ind, TypeOK
<1>1. ~Accounted(e) /\ Accounted(e)'
  <2>1. e \in claimed[r] /\ row[e] = "unpublished" BY DEF Ind, ClaimOK
  <2>2. \A q \in Relays \ {r} : e \notin claimed[q] BY <2>1 DEF Ind, ClaimOK
  <2>3. e \notin toSend'[r] BY DEF Ind, TypeOK
  <2> QED BY <1>a, <2>1, <2>2, <2>3 DEF Accounted
<1>2. ASSUME NEW f \in Events \ {e}
      PROVE  Repeats(f)' = Repeats(f) /\ (Accounted(f) => Accounted(f)')
  <2>1. Repeats(f)' = Repeats(f) BY <1>b DEF Repeats
  <2>2. \A q \in Relays : f \in claimed[q] \ toSend[q] => f \in claimed'[q] \ toSend'[q]
    BY <1>a DEF Ind, TypeOK
  <2> QED BY <1>a, <2>1, <2>2 DEF Accounted
<1>3. Repeats(e)' = Repeats(e) \cup {Len(stream) + 1} /\ Len(stream) + 1 \notin Repeats(e)
  BY <1>b DEF Repeats
<1>4. Cardinality(Repeats(e)') = Cardinality(Repeats(e)) + 1
  BY <1>3, RepeatsFinite, FS_AddElement DEF Ind, TypeOK
<1>5. ASSUME NEW f \in Events
      PROVE  Cardinality(Repeats(f)') <= failures + (IF Accounted(f)' THEN 1 ELSE 0)
  <2>0. /\ Cardinality(Repeats(f)) \in Nat
        /\ Cardinality(Repeats(f)) <= failures + (IF Accounted(f) THEN 1 ELSE 0)
    BY RepeatsFinite DEF Ind, TypeOK, RepeatsOK
  <2>1. CASE f = e BY <1>1, <1>4, <1>c, <2>0, <2>1
  <2>2. CASE f # e BY <1>2, <1>c, <2>0, <2>2
  <2> QED BY <2>1, <2>2
<1> QED BY <1>5, <1>a DEF RepeatsOK

LEMMA RelayFailsRepeats ==
  ASSUME Ind, RepeatsOK, NEW r \in Relays, RelayFails(r)
  PROVE  RepeatsOK'
<1>1. failures' = failures + 1 /\ stream' = stream BY DEF RelayFails
<1>2. \A e : Repeats(e)' = Repeats(e) BY <1>1 DEF Repeats, Entries
<1>3. failures \in Nat BY DEF Ind, TypeOK
<1>4. ASSUME NEW e \in Events
      PROVE  Cardinality(Repeats(e)') <= failures' + (IF Accounted(e)' THEN 1 ELSE 0)
  <2>1. /\ Cardinality(Repeats(e)) \in Nat
        /\ Cardinality(Repeats(e)) <= failures + (IF Accounted(e) THEN 1 ELSE 0)
    BY RepeatsFinite DEF Ind, TypeOK, RepeatsOK
  <2> QED BY <1>1, <1>2, <1>3, <2>1
<1> QED BY <1>4 DEF RepeatsOK

\* A step that adds nothing to the stream, forgets nothing that was accounted for and
\* counts no fewer failures keeps the bound.
LEMMA OthersRepeat ==
  ASSUME Ind, RepeatsOK, stream' = stream, failures' \in {failures, failures + 1},
         \A e \in Events : Accounted(e) => Accounted(e)'
  PROVE  RepeatsOK'
<1>1. \A e : Repeats(e)' = Repeats(e) BY DEF Repeats, Entries
<1>2. failures \in Nat BY DEF Ind, TypeOK
<1>3. ASSUME NEW e \in Events
      PROVE  Cardinality(Repeats(e)') <= failures' + (IF Accounted(e)' THEN 1 ELSE 0)
  <2>1. /\ Cardinality(Repeats(e)) \in Nat
        /\ Cardinality(Repeats(e)) <= failures + (IF Accounted(e) THEN 1 ELSE 0)
    BY RepeatsFinite DEF Ind, TypeOK, RepeatsOK
  <2> QED BY <1>1, <1>2, <2>1
<1> QED BY <1>3 DEF RepeatsOK

LEMMA NextRepeats == Ind /\ RepeatsOK /\ [Next]_vars => RepeatsOK'
<1> SUFFICES ASSUME Ind, RepeatsOK, [Next]_vars PROVE RepeatsOK' OBVIOUS
<1>1. ASSUME NEW e \in Events, CommitEvent(e) PROVE RepeatsOK'
  <2>1. \A f \in Events : Accounted(f) => Accounted(f)'
    BY <1>1 DEF CommitEvent, Ind, TypeOK, Accounted
  <2> QED BY <1>1, <2>1, OthersRepeat DEF CommitEvent
<1>2. ASSUME NEW r \in Relays, Claim(r) PROVE RepeatsOK'
  <2>1. \A f \in Events : Accounted(f) => Accounted(f)'
    BY <1>2 DEF Claim, Ind, TypeOK, Accounted
  <2> QED BY <1>2, <2>1, OthersRepeat DEF Claim
<1>3. ASSUME NEW r \in Relays, Publish(r) PROVE RepeatsOK' BY <1>3, PublishRepeats
<1>4. ASSUME NEW r \in Relays, MarkPublished(r) PROVE RepeatsOK'
  <2>1. \A f \in Events : Accounted(f) => Accounted(f)'
    BY <1>4 DEF MarkPublished, Ind, TypeOK, Accounted
  <2> QED BY <1>4, <2>1, OthersRepeat DEF MarkPublished
<1>5. ASSUME NEW r \in Relays, RelayFails(r) PROVE RepeatsOK' BY <1>5, RelayFailsRepeats
<1>6. ASSUME UNCHANGED <<relayVars, stream>>, failures' \in {failures, failures + 1}
      PROVE  RepeatsOK'
  <2>1. \A f \in Events : Accounted(f) => Accounted(f)' BY <1>6 DEF relayVars, Accounted
  <2> QED BY <1>6, <2>1, OthersRepeat
<1>7. CASE EnsureGroup BY <1>6, <1>7 DEF EnsureGroup
<1>8. ASSUME NEW c \in Consumers, ConsumerStep(c) \/ ConsumerFails(c) PROVE RepeatsOK'
  BY <1>6, <1>8
  DEF ConsumerStep, ConsumerFails, Reclaim, ReadNew, SkipMalformed, Upsert, Ack
<1>9. ASSUME NEW n \in pel, BecomesIdle(n) PROVE RepeatsOK' BY <1>6, <1>9 DEF BecomesIdle
<1>10. CASE UNCHANGED vars BY <1>6, <1>10 DEF vars
<1> QED BY <1>1, <1>2, <1>3, <1>4, <1>5, <1>7, <1>8, <1>9, <1>10 DEF Next, RelayStep

\* Relays never send a row twice but after a failed tick: SKIP LOCKED and the mark in
\* the claim's transaction suffice, however many instances poll at once.
THEOREM NeverRepeatedIdly == Spec => []RepeatedOnlyAfterFailure
<1>1. Init => RepeatsOK
  <2> SUFFICES ASSUME Init, NEW e \in Events PROVE Cardinality(Repeats(e)) <= failures + 0
    BY DEF RepeatsOK, Init, Accounted
  <2>1. Repeats(e) = {} BY DEF Init, Repeats, Entries
  <2> QED BY <2>1, FS_EmptySet DEF Init
<1>2. Ind /\ RepeatsOK => RepeatedOnlyAfterFailure
  <2> SUFFICES ASSUME Ind, RepeatsOK, NEW e \in Events
               PROVE  Cardinality(Repeats(e)) <= 1 + failures
    BY DEF RepeatedOnlyAfterFailure, Repeats
  <2>1. Cardinality(Repeats(e)) \in Nat /\ failures \in Nat
    BY RepeatsFinite DEF Ind, TypeOK
  <2> QED BY <2>1 DEF RepeatsOK
<1> QED BY AlwaysInd, NextRepeats, <1>1, <1>2, PTL DEF Spec

-----------------------------------------------------------------------------
(* The feed.                                                                *)

LEMMA FeedStep == Ind /\ [Next]_vars => [F!Next]_(F!feedVars)
<1> SUFFICES ASSUME Ind, [Next]_vars PROVE [F!Next]_(F!feedVars) OBVIOUS
<1> USE DEF F!feedVars
<1>1. ASSUME NEW e \in Events, CommitEvent(e) PROVE F!Next
  <2>1. {f \in Events : row'[f] # "none"} = {f \in Events : row[f] # "none"} \cup {e}
    BY <1>1 DEF CommitEvent, Ind, TypeOK
  <2>2. F!Commit(e) BY <1>1, <2>1 DEF F!Commit, CommitEvent
  <2> QED BY <2>2 DEF F!Next
<1>2. ASSUME NEW c \in Consumers, NEW n \in batch[c], Upsert(c, n)
      PROVE  F!Next \/ UNCHANGED F!feedVars
  <2>1. row' = row /\ docs' = docs \cup {stream[n]} /\ stream[n] \notin Poison
    BY <1>2 DEF Upsert, relayVars
  <2>2. stream[n] \in Events /\ row[stream[n]] # "none" BY HeldIsEntry DEF Ind, StreamOK
  <2>3. CASE stream[n] \in docs BY <2>1, <2>3
  <2>4. CASE stream[n] \notin docs
    <3>1. F!Learn(stream[n]) BY <2>1, <2>2, <2>4 DEF F!Learn
    <3> QED BY <2>2, <3>1 DEF F!Next
  <2> QED BY <2>3, <2>4
<1>3. ASSUME docs' = docs, \A e \in Events : row'[e] = "none" <=> row[e] = "none"
      PROVE  UNCHANGED F!feedVars
  BY <1>3
<1>4. ASSUME NEW r \in Relays, RelayStep(r) \/ RelayFails(r) PROVE UNCHANGED F!feedVars
  <2>1. CASE MarkPublished(r)
    <3>1. \A e \in claimed[r] : row[e] # "none" BY DEF Ind, ClaimOK
    <3> QED BY <1>3, <2>1, <3>1 DEF MarkPublished
  <2>2. CASE Claim(r) \/ Publish(r) \/ RelayFails(r)
    BY <1>3, <2>2 DEF Claim, Publish, RelayFails
  <2> QED BY <1>4, <2>1, <2>2 DEF RelayStep
<1>5. CASE EnsureGroup BY <1>3, <1>5 DEF EnsureGroup, relayVars
<1>6. ASSUME NEW c \in Consumers,
             Reclaim(c) \/ ReadNew(c) \/ ConsumerFails(c)
               \/ \E n \in batch[c] : SkipMalformed(c, n) \/ Ack(c, n)
      PROVE  UNCHANGED F!feedVars
  BY <1>3, <1>6 DEF Reclaim, ReadNew, ConsumerFails, SkipMalformed, Ack, relayVars
<1>7. ASSUME NEW n \in pel, BecomesIdle(n) PROVE UNCHANGED F!feedVars
  BY <1>3, <1>7 DEF BecomesIdle, relayVars
<1>8. CASE UNCHANGED vars BY <1>3, <1>8 DEF vars, relayVars
<1> QED BY <1>1, <1>2, <1>4, <1>5, <1>6, <1>7, <1>8 DEF Next, ConsumerStep

\* The read model learns only what was committed and can be read, and unlearns
\* nothing: relays, stream and consumers implement the safety of the feed.
THEOREM RefinesFeed == Spec => F!Init /\ [][F!Next]_(F!feedVars)
<1>1. Init => F!Init BY DEF Init, F!Init
<1> QED BY AlwaysInd, FeedStep, <1>1, PTL DEF Spec

==============================================================================
