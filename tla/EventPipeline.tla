---------------------------- MODULE EventPipeline ----------------------------
(***************************************************************************)
(* The way of an event from the outbox table to the read model: the relay  *)
(* of each balance-service instance (RelayService) and the consumer of     *)
(* each analytics instance (StreamConsumerService), joined by a Redis      *)
(* stream with one consumer group.                                         *)
(*                                                                         *)
(* External and modelled from their use: the stream, an append-only        *)
(* sequence whose entry ids are its positions; the group, with the last id *)
(* it delivered and the entries it delivered and nobody acknowledged.      *)
(***************************************************************************)
EXTENDS Naturals, Sequences, FiniteSets

CONSTANTS
  Events,        \* BOUND: event ids; their order is that of outbox_event.created_at
  Poison,        \* those whose payload projectEvent refuses
  Relays,        \* balance-service instances
  Consumers,     \* analytics-server instances, one consumer name for all
  BatchSize,     \* rows claimed by one relay tick
  ReadCount,     \* entries claimed or read by one consumer pass (READ_COUNT)
  MaxFailures    \* BOUND: crashes, Redis, database and Mongo errors; outages end

ASSUME PipelineAssumptions ==
  /\ Events \subseteq Nat /\ Poison \subseteq Events
  /\ BatchSize \in Nat \ {0} /\ MaxFailures \in Nat
  \* the entries nobody can process never fill a whole reclaim pass
  /\ ReadCount \in Nat /\ ReadCount > Cardinality(Poison) * (1 + MaxFailures)

VARIABLES
  row,       \* outbox_event: "none", "unpublished", "published"
  claimed,   \* claimed[r]: rows locked by the open transaction of relay r
  toSend,    \* toSend[r]: those it has not sent yet
  stream,    \* the stream events:transactions
  group,     \* the consumer group exists
  start,     \* ... and delivers what comes after this entry
  lastId,    \* last-delivered id of the group
  pel,       \* entries delivered and not acknowledged
  idle,      \* those that have been so for CLAIM_MIN_IDLE_MS
  batch,     \* batch[c]: entries consumer c has yet to process
  written,   \* written[c]: the first of them is upserted, not acknowledged
  pass,      \* pass[c]: the read it does next, "reclaim" or "new"
  docs,      \* event ids of the documents of the read model
  failures

relayVars == <<row, claimed, toSend>>
groupVars == <<group, start, lastId, pel, idle>>
consumerVars == <<batch, written, pass>>
vars == <<relayVars, stream, groupVars, consumerVars, docs, failures>>

Entries == 1..Len(stream)

TypeOK ==
  /\ row \in [Events -> {"none", "unpublished", "published"}]
  /\ claimed \in [Relays -> SUBSET Events]
  /\ toSend \in [Relays -> SUBSET Events]
  /\ stream \in Seq(Events)
  /\ group \in BOOLEAN
  /\ start \in Nat /\ lastId \in Nat
  /\ pel \subseteq Nat /\ idle \subseteq pel
  /\ batch \in [Consumers -> SUBSET Nat]
  /\ written \in [Consumers -> BOOLEAN]
  /\ pass \in [Consumers -> {"reclaim", "new"}]
  /\ docs \subseteq Events
  /\ failures \in Nat

Init ==
  /\ row = [e \in Events |-> "none"]
  /\ claimed = [r \in Relays |-> {}]
  /\ toSend = [r \in Relays |-> {}]
  /\ stream = <<>>
  /\ group \in BOOLEAN
  /\ start = 0 /\ lastId = 0
  /\ pel = {} /\ idle = {}
  /\ batch = [c \in Consumers |-> {}]
  /\ written = [c \in Consumers |-> FALSE]
  /\ pass = [c \in Consumers |-> "reclaim"]
  /\ docs = {}
  /\ failures = 0

\* The k oldest members of S.
Oldest(S, k) == {x \in S : Cardinality({y \in S : y < x}) < k}

IsFirst(x, S) == x \in S /\ \A y \in S : x <= y

-----------------------------------------------------------------------------
(* The relay.                                                               *)

\* A movement and its event commit; not in the order of their created_at.
CommitEvent(e) ==
  /\ row[e] = "none"
  /\ row' = [row EXCEPT ![e] = "unpublished"]
  /\ UNCHANGED <<claimed, toSend, stream, groupVars, consumerVars, docs, failures>>

\* Mutant of Claimable: no SKIP LOCKED.
ClaimableLockedToo == {e \in Events : row[e] = "unpublished"}

\* FOR UPDATE SKIP LOCKED.
Claimable ==
  {e \in Events : row[e] = "unpublished" /\ \A r \in Relays : e \notin claimed[r]}

\* Mutant of Claim: marks what it claims before it is sent.
ClaimMarking(r) ==
  /\ claimed[r] = {}
  /\ Claimable # {}
  /\ claimed' = [claimed EXCEPT ![r] = Oldest(Claimable, BatchSize)]
  /\ toSend' = [toSend EXCEPT ![r] = Oldest(Claimable, BatchSize)]
  /\ row' = [e \in Events |-> IF e \in Oldest(Claimable, BatchSize) THEN "published" ELSE row[e]]
  /\ UNCHANGED <<stream, groupVars, consumerVars, docs, failures>>

Claim(r) ==
  /\ claimed[r] = {}
  /\ Claimable # {}
  /\ claimed' = [claimed EXCEPT ![r] = Oldest(Claimable, BatchSize)]
  /\ toSend' = [toSend EXCEPT ![r] = Oldest(Claimable, BatchSize)]
  /\ UNCHANGED <<row, stream, groupVars, consumerVars, docs, failures>>

\* XADD of the next row of the batch.
Publish(r) ==
  /\ \E e \in Events :
       /\ IsFirst(e, toSend[r])
       /\ stream' = Append(stream, e)
       /\ toSend' = [toSend EXCEPT ![r] = @ \ {e}]
  /\ UNCHANGED <<row, claimed, groupVars, consumerVars, docs, failures>>

\* markPublished and commit, once all of them are sent.
MarkPublished(r) ==
  /\ claimed[r] # {} /\ toSend[r] = {}
  /\ row' = [e \in Events |-> IF e \in claimed[r] THEN "published" ELSE row[e]]
  /\ claimed' = [claimed EXCEPT ![r] = {}]
  /\ UNCHANGED <<toSend, stream, groupVars, consumerVars, docs, failures>>

\* An XADD is refused, the database fails or the instance dies: the transaction
\* rolls back, what was sent stays sent, and the next tick begins anew.
RelayFails(r) ==
  /\ claimed[r] # {}
  /\ failures < MaxFailures
  /\ failures' = failures + 1
  /\ claimed' = [claimed EXCEPT ![r] = {}]
  /\ toSend' = [toSend EXCEPT ![r] = {}]
  /\ UNCHANGED <<row, stream, groupVars, consumerVars, docs>>

-----------------------------------------------------------------------------
(* The consumer: a pass over what was delivered and lost, then one over     *)
(* what is new, each processed entry by entry in the order of its ids.      *)

\* XGROUP CREATE ... $: what is in the stream already is not delivered.
EnsureGroup ==
  /\ ~group
  /\ group' = TRUE
  /\ start' = Len(stream) /\ lastId' = Len(stream)
  /\ UNCHANGED <<relayVars, stream, pel, idle, consumerVars, docs, failures>>

\* An entry has been pending for CLAIM_MIN_IDLE_MS; whoever has it may be slow.
BecomesIdle(n) ==
  /\ n \in pel \ idle
  /\ idle' = idle \cup {n}
  /\ UNCHANGED <<relayVars, stream, group, start, lastId, pel, consumerVars, docs, failures>>

Take(c, entries, next) ==
  /\ batch' = [batch EXCEPT ![c] = entries]
  /\ pass' = [pass EXCEPT ![c] = next]

\* Mutant of Reclaimable: what a crashed consumer left is nobody's.
NothingReclaimable == {}

\* XAUTOCLAIM from the head of the pending list.
Reclaimable == Oldest(idle, ReadCount)

Reclaim(c) ==
  /\ group /\ batch[c] = {} /\ pass[c] = "reclaim"
  /\ Take(c, Reclaimable, "new")
  /\ idle' = idle \ Reclaimable
  /\ UNCHANGED <<relayVars, stream, group, start, lastId, pel, written, docs, failures>>

\* XREADGROUP '>'.
ReadNew(c) ==
  LET fresh == Oldest((lastId + 1)..Len(stream), ReadCount) IN
  /\ group /\ batch[c] = {} /\ pass[c] = "new"
  /\ Take(c, fresh, "reclaim")
  /\ pel' = pel \cup fresh
  /\ lastId' = lastId + Cardinality(fresh)
  /\ UNCHANGED <<relayVars, stream, group, start, idle, written, docs, failures>>

Done(c, n) == batch' = [batch EXCEPT ![c] = @ \ {n}]

\* A malformed entry is logged and left pending.
SkipMalformed(c, n) ==
  /\ IsFirst(n, batch[c])
  /\ stream[n] \in Poison
  /\ Done(c, n)
  /\ UNCHANGED <<relayVars, stream, groupVars, written, pass, docs, failures>>

\* Mutant of Upsert: acknowledges before it writes.
AckThenUpsert(c, n) ==
  /\ IsFirst(n, batch[c]) /\ ~written[c]
  /\ stream[n] \notin Poison
  /\ pel' = pel \ {n} /\ idle' = idle \ {n}
  /\ written' = [written EXCEPT ![c] = TRUE]
  /\ UNCHANGED <<relayVars, stream, group, start, lastId, batch, pass, docs, failures>>

\* upsertByEventId: the same document however often.
Upsert(c, n) ==
  /\ IsFirst(n, batch[c]) /\ ~written[c]
  /\ stream[n] \notin Poison
  /\ docs' = docs \cup {stream[n]}
  /\ written' = [written EXCEPT ![c] = TRUE]
  /\ UNCHANGED <<relayVars, stream, groupVars, batch, pass, failures>>

\* XACK, after the write.
Ack(c, n) ==
  /\ IsFirst(n, batch[c]) /\ written[c]
  /\ pel' = pel \ {n} /\ idle' = idle \ {n}
  /\ written' = [written EXCEPT ![c] = FALSE]
  /\ Done(c, n)
  /\ UNCHANGED <<relayVars, stream, group, start, lastId, pass, docs, failures>>

\* Mongo or Redis refuses, or the instance dies: the rest of the batch is dropped
\* and stays pending; the next tick begins with the reclaim pass.
ConsumerFails(c) ==
  /\ batch[c] # {} \/ pass[c] = "new"
  /\ failures < MaxFailures
  /\ failures' = failures + 1
  /\ Take(c, {}, "reclaim")
  /\ written' = [written EXCEPT ![c] = FALSE]
  /\ UNCHANGED <<relayVars, stream, groupVars, docs>>

-----------------------------------------------------------------------------
RelayStep(r) == Claim(r) \/ Publish(r) \/ MarkPublished(r)
ConsumerStep(c) ==
  \/ Reclaim(c)
  \/ ReadNew(c)
  \/ \E n \in batch[c] : SkipMalformed(c, n) \/ Upsert(c, n) \/ Ack(c, n)

Next ==
  \/ \E e \in Events : CommitEvent(e)
  \/ \E r \in Relays : RelayStep(r) \/ RelayFails(r)
  \/ EnsureGroup
  \/ \E c \in Consumers : ConsumerStep(c) \/ ConsumerFails(c)
  \/ \E n \in pel : BecomesIdle(n)

\* Both loops reschedule themselves after every tick, failed or not, a process that
\* dies is restarted, an analytics instance creates the group when it boots, and an
\* entry that stays pending grows idle.
Fairness ==
  /\ \A r \in Relays : WF_vars(RelayStep(r))
  /\ \A c \in Consumers : WF_vars(ConsumerStep(c))
  /\ WF_vars(EnsureGroup)
  /\ \A n \in 1..(Cardinality(Events) * (1 + MaxFailures)) : WF_vars(BecomesIdle(n))

Spec == Init /\ [][Next]_vars /\ Fairness

-----------------------------------------------------------------------------
\* A row is marked only when its event is in the stream: a crash between the two
\* writes of the relay repeats an event and never loses one.
MarkedIsSent == \A e \in Events : row[e] = "published" => \E n \in Entries : stream[n] = e

\* An entry leaves the group's pending list only for a document: whatever happens
\* between the upsert and the acknowledgement, and to malformed entries.
AcknowledgedIsKnown ==
  \A n \in (start + 1)..lastId : n \notin pel => stream[n] \in docs

\* Instances never publish a row twice: the stream repeats an event no more often
\* than a tick failed.
RepeatedOnlyAfterFailure ==
  \A e \in Events : Cardinality({n \in Entries : stream[n] = e}) <= 1 + failures

\* Once the group exists, every event is promised that was not in the stream then.
Promised == {e \in Events : group /\ \A n \in Entries : stream[n] = e => n > start}

F == INSTANCE EventFeed WITH
       Readable <- Events \ Poison,
       committed <- {e \in Events : row[e] # "none"},
       known <- docs,
       promised <- Promised

\* Relays, stream and consumers together implement the feed, its liveness included:
\* every event that can be read is, though instances crash and outages come and go.
\* What was sent before analytics first booted is not promised: its group begins
\* at the end of the stream.
ImplementsFeed == F!Spec

==============================================================================
