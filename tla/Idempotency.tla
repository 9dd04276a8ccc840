----------------------------- MODULE Idempotency ------------------------------
(***************************************************************************)
(* IdempotencyService.execute: a money-moving request runs at most once    *)
(* under its (owner, Idempotency-Key).  The claim of the key, the movement *)
(* and the completion of the key are one database transaction; a business  *)
(* failure rolls it back, and its FAILED transaction is recorded, with the *)
(* key, in another.  One owner: keys of different owners are different.    *)
(***************************************************************************)
CONSTANTS
  Calls,    \* BOUND: calls in progress at the same time
  Keys,     \* idempotency keys of the owner
  Prints,   \* fingerprints of what is asked for
  TxIds,    \* BOUND: pool of transaction ids
  None      \* SQL NULL

\* What a call remembers between its database steps.
Idle == [pc |-> "idle"]
CallStates == {Idle} \cup [pc : {"checked", "claimed", "failing"}, key : Keys, print : Prints]

Rows == [print : Prints, tx : TxIds \cup {None}]
Transactions == [key : Keys, print : Prints, outcome : {"done", "failed"}]
Answers == [key : Keys, print : Prints, tx : TxIds]

ASSUME IdempotencyAssumptions ==
  None \notin TxIds /\ None \notin Rows /\ None \notin Transactions /\ None \notin Calls

VARIABLES
  row,      \* idempotency_key rows; in_progress while tx is None
  writer,   \* the call whose open transaction wrote the row, None once it is committed
  tx,       \* committed transactions
  recent,   \* committed keys of the last SOFT_DUPLICATE_WINDOW_MS
  call,     \* calls in progress
  told      \* what was answered

vars == <<row, writer, tx, recent, call, told>>

TypeOK ==
  /\ row \in [Keys -> Rows \cup {None}]
  /\ writer \in [Keys -> Calls \cup {None}]
  /\ tx \in [TxIds -> Transactions \cup {None}]
  /\ recent \subseteq Keys
  /\ call \in [Calls -> CallStates]
  /\ told \subseteq Answers

Init ==
  /\ row = [k \in Keys |-> None]
  /\ writer = [k \in Keys |-> None]
  /\ tx = [t \in TxIds |-> None]
  /\ recent = {}
  /\ call = [c \in Calls |-> Idle]
  /\ told = {}

\* READ COMMITTED: the row a statement of another transaction finds.
Committed(k) == row[k] # None /\ writer[k] = None

\* A recent row of another key asks for the same.
SuspectedDuplicate(k, f) == \E j \in recent \ {k} : row[j].print = f

\* The answer may be lost on its way, or the instance die before it is sent.
Answer(k, f, t) == UNCHANGED told \/ told' = told \cup {[key |-> k, print |-> f, tx |-> t]}

Finish(c) == call' = [call EXCEPT ![c] = Idle]

-----------------------------------------------------------------------------
(* runOnce                                                                  *)

\* The key is there: replay its transaction; other parameters are refused.
Replay(c, k, f) ==
  /\ call[c] = Idle
  /\ Committed(k) /\ row[k].print = f /\ row[k].tx # None
  /\ Answer(k, f, row[k].tx)
  /\ UNCHANGED <<row, writer, tx, recent, call>>

\* It is not, and nothing like it was asked for lately, or the caller insists.
Check(c, k, f, confirmDuplicate) ==
  /\ call[c] = Idle
  /\ ~Committed(k)
  /\ confirmDuplicate \/ ~SuspectedDuplicate(k, f)
  /\ call' = [call EXCEPT ![c] = [pc |-> "checked", key |-> k, print |-> f]]
  /\ UNCHANGED <<row, writer, tx, recent, told>>

\* Mutant of Claim: a save, which updates the row of a key that exists.
ClaimOver(c) ==
  LET k == call[c].key IN
  /\ call[c].pc = "checked"
  /\ writer[k] = None
  /\ row' = [row EXCEPT ![k] = [print |-> call[c].print, tx |-> None]]
  /\ writer' = [writer EXCEPT ![k] = c]
  /\ call' = [call EXCEPT ![c].pc = "claimed"]
  /\ UNCHANGED <<tx, recent, told>>

\* INSERT ... ON CONFLICT DO NOTHING, which waits for an uncommitted row to be
\* committed or gone.
Claim(c) ==
  LET k == call[c].key IN
  /\ call[c].pc = "checked"
  /\ row[k] = None
  /\ row' = [row EXCEPT ![k] = [print |-> call[c].print, tx |-> None]]
  /\ writer' = [writer EXCEPT ![k] = c]
  /\ call' = [call EXCEPT ![c].pc = "claimed"]
  /\ UNCHANGED <<tx, recent, told>>

\* The insert found a row: resolved as if it had been there from the start.
ClaimLost(c) ==
  LET k == call[c].key IN
  /\ call[c].pc = "checked"
  /\ Committed(k)
  /\ \/ row[k].print = call[c].print /\ row[k].tx # None /\ Answer(k, call[c].print, row[k].tx)
     \/ row[k].print # call[c].print /\ UNCHANGED told
  /\ Finish(c)
  /\ UNCHANGED <<row, writer, tx, recent>>

\* The operation succeeds; markCompletedInTx and commit.
Complete(c, t) ==
  LET k == call[c].key IN
  /\ call[c].pc = "claimed"
  /\ tx[t] = None
  /\ tx' = [tx EXCEPT ![t] = [key |-> k, print |-> call[c].print, outcome |-> "done"]]
  /\ row' = [row EXCEPT ![k].tx = t]
  /\ writer' = [writer EXCEPT ![k] = None]
  /\ recent' = recent \cup {k}
  /\ Answer(k, call[c].print, t)
  /\ Finish(c)

\* Rollback: the claim goes with the movement.
Release(c) ==
  IF call[c].pc = "claimed"
  THEN /\ row' = [row EXCEPT ![call[c].key] = None]
       /\ writer' = [writer EXCEPT ![call[c].key] = None]
  ELSE UNCHANGED <<row, writer>>

\* The operation fails for business, and a recorder is there to keep it.
Fail(c) ==
  /\ call[c].pc = "claimed"
  /\ Release(c)
  /\ call' = [call EXCEPT ![c].pc = "failing"]
  /\ UNCHANGED <<tx, recent, told>>

\* Mutant of Abort: the key is released, whoever has it.
AbortReleasing(c) ==
  /\ call[c] # Idle
  /\ row' = [row EXCEPT ![call[c].key] = None]
  /\ writer' = [writer EXCEPT ![call[c].key] = None]
  /\ Finish(c)
  /\ UNCHANGED <<tx, recent, told>>

\* Any other error, at any point, and the death of the instance: nothing is kept.
Abort(c) ==
  /\ call[c] # Idle
  /\ Release(c)
  /\ Finish(c)
  /\ UNCHANGED <<tx, recent, told>>

-----------------------------------------------------------------------------
(* recordFailureOutcome                                                     *)

\* Mutant of RecordFailure: the completed key is saved over one that exists.
RecordOver(c, t) ==
  LET k == call[c].key f == call[c].print IN
  /\ call[c].pc = "failing"
  /\ writer[k] = None
  /\ tx[t] = None
  /\ tx' = [tx EXCEPT ![t] = [key |-> k, print |-> f, outcome |-> "failed"]]
  /\ row' = [row EXCEPT ![k] = [print |-> f, tx |-> t]]
  /\ recent' = recent \cup {k}
  /\ Answer(k, f, t)
  /\ Finish(c)
  /\ UNCHANGED writer

\* The FAILED transaction and the completed key, inserted together.
RecordFailure(c, t) ==
  LET k == call[c].key f == call[c].print IN
  /\ call[c].pc = "failing"
  /\ row[k] = None
  /\ tx[t] = None
  /\ tx' = [tx EXCEPT ![t] = [key |-> k, print |-> f, outcome |-> "failed"]]
  /\ row' = [row EXCEPT ![k] = [print |-> f, tx |-> t]]
  /\ recent' = recent \cup {k}
  /\ Answer(k, f, t)
  /\ Finish(c)
  /\ UNCHANGED writer

\* Another call has resolved the key: the FAILED transaction is rolled back and the
\* other's answered, whatever it was asked for.
FailureRaceResolved(c) ==
  LET k == call[c].key IN
  /\ call[c].pc = "failing"
  /\ Committed(k) /\ row[k].tx # None
  /\ Answer(k, call[c].print, row[k].tx)
  /\ Finish(c)
  /\ UNCHANGED <<row, writer, tx, recent>>

\* The duplicate window of a key passes.
Age(k) ==
  /\ k \in recent
  /\ recent' = recent \ {k}
  /\ UNCHANGED <<row, writer, tx, call, told>>

Next ==
  \/ \E c \in Calls :
       \/ \E k \in Keys, f \in Prints :
            Replay(c, k, f) \/ \E confirmDuplicate \in BOOLEAN : Check(c, k, f, confirmDuplicate)
       \/ Claim(c) \/ ClaimLost(c) \/ Fail(c) \/ Abort(c) \/ FailureRaceResolved(c)
       \/ \E t \in TxIds : Complete(c, t) \/ RecordFailure(c, t)
  \/ \E k \in Keys : Age(k)

Spec == Init /\ [][Next]_vars

-----------------------------------------------------------------------------
\* At most one transaction comes of a key, done or failed, however its calls race,
\* fail and are repeated.
AtMostOnce ==
  \A s, t \in TxIds : tx[s] # None /\ tx[t] # None /\ tx[s].key = tx[t].key => s = t

\* Every answer under a key, first or replayed, from either path, names the one
\* transaction the key stands for.
AnswersAgree ==
  \A a \in told : Committed(a.key) /\ row[a.key].tx = a.tx /\ tx[a.tx] # None

\* "A committed in_progress is never externally observable": a row others can see is
\* linked to a transaction of its own key and parameters.
CommittedIsCompleted ==
  \A k \in Keys : Committed(k) =>
    /\ row[k].tx # None
    /\ tx[row[k].tx] # None
    /\ tx[row[k].tx].key = k /\ tx[row[k].tx].print = row[k].print

\* A resolved key stays resolved: no failure, abort or race reopens it.
ResolvedForGood == [][\A k \in Keys : Committed(k) => row'[k] = row[k] /\ writer'[k] = None]_vars

===============================================================================
