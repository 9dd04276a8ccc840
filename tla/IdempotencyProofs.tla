-------------------------- MODULE IdempotencyProofs ---------------------------
(***************************************************************************)
(* At most once, for any number of calls, keys and parameters.             *)
(***************************************************************************)
EXTENDS Idempotency, TLAPS

\* An uncommitted row is the claim of the call that wrote it, and a call that has
\* claimed its key has such a row.
ClaimsOK ==
  /\ \A k \in Keys : writer[k] # None =>
       /\ call[writer[k]].pc = "claimed" /\ call[writer[k]].key = k
       /\ row[k] = [print |-> call[writer[k]].print, tx |-> None]
  /\ \A c \in Calls : call[c].pc = "claimed" => writer[call[c].key] = c

\* A transaction is the one its key is linked to.
LinksOK ==
  \A t \in TxIds : tx[t] # None => Committed(tx[t].key) /\ row[tx[t].key].tx = t

Ind == TypeOK /\ ClaimsOK /\ LinksOK /\ CommittedIsCompleted /\ AnswersAgree

LEMMA InitInd == Init => Ind
BY IdempotencyAssumptions
   DEF Init, Ind, TypeOK, ClaimsOK, LinksOK, CommittedIsCompleted, AnswersAgree, Committed,
       Idle, CallStates

\* What a call remembers.
LEMMA CallFields ==
  ASSUME TypeOK, NEW c \in Calls
  PROVE  /\ call[c] \in CallStates
         /\ call[c].pc \in {"checked", "claimed", "failing"} =>
              /\ call[c].key \in Keys /\ call[c].print \in Prints
              /\ call[c] \in [pc : {"checked", "claimed", "failing"}, key : Keys, print : Prints]
         /\ call[c] = Idle <=> call[c].pc = "idle"
BY DEF TypeOK, CallStates, Idle

LEMMA ClaimedRow ==
  ASSUME Ind, NEW k \in Keys, writer[k] # None
  PROVE  row[k] # None /\ row[k].tx = None
<1> DEFINE d == writer[k]
<1>1. d \in Calls /\ call[d].pc = "claimed" /\ row[k] = [print |-> call[d].print, tx |-> None]
  BY DEF Ind, TypeOK, ClaimsOK
<1>2. call[d].print \in Prints BY <1>1, CallFields DEF Ind
<1>3. row[k] \in Rows BY <1>1, <1>2 DEF Rows
<1> QED BY <1>1, <1>3, IdempotencyAssumptions

\* Answering with the transaction a committed key of the next state is linked to.
LEMMA AnswerStep ==
  ASSUME Ind, NEW k \in Keys, NEW f \in Prints, NEW t \in TxIds, Answer(k, f, t),
         \A j \in Keys : Committed(j) => row'[j] = row[j] /\ writer'[j] = None,
         \A s \in TxIds : tx[s] # None => tx'[s] = tx[s],
         row'[k] # None, writer'[k] = None, row'[k].tx = t, tx'[t] # None
  PROVE  told' \subseteq Answers /\ AnswersAgree'
<1> DEFINE x == [key |-> k, print |-> f, tx |-> t]
<1>1. told' \subseteq Answers BY DEF Answer, Ind, TypeOK, Answers
<1>2. ASSUME NEW a \in told
      PROVE  row'[a.key] # None /\ writer'[a.key] = None /\ row'[a.key].tx = a.tx /\ tx'[a.tx] # None
  <2>1. a.key \in Keys /\ a.tx \in TxIds BY DEF Ind, TypeOK, Answers
  <2>2. Committed(a.key) /\ row[a.key].tx = a.tx /\ tx[a.tx] # None BY DEF Ind, AnswersAgree
  <2> QED BY <2>1, <2>2 DEF Committed
<1>3. x.key = k /\ x.tx = t OBVIOUS
<1> HIDE DEF x
<1>4. told' = told \/ told' = told \cup {x} BY DEF Answer, x
<1> QED BY <1>1, <1>2, <1>3, <1>4 DEF AnswersAgree, Committed

\* A call whose claim is not touched goes on or comes to its end.
LEMMA QuietStep ==
  ASSUME Ind, UNCHANGED <<row, writer, tx>>, recent' \subseteq Keys,
         told' \subseteq Answers, AnswersAgree',
         call' \in [Calls -> CallStates],
         \A c \in Calls : call'[c] = call[c] \/ (call[c].pc # "claimed" /\ call'[c].pc # "claimed")
  PROVE  Ind'
<1>1. TypeOK' BY DEF Ind, TypeOK
<1>2. ClaimsOK'
  <2>1. ASSUME NEW k \in Keys, writer[k] # None PROVE writer[k] \in Calls /\ call'[writer[k]] = call[writer[k]]
    BY <2>1 DEF Ind, TypeOK, ClaimsOK
  <2> QED BY <2>1 DEF Ind, ClaimsOK
<1> QED BY <1>1, <1>2 DEF Ind, LinksOK, CommittedIsCompleted, Committed

LEMMA ReadersStep ==
  ASSUME Ind, NEW c \in Calls, NEW k \in Keys, NEW f \in Prints,
         \/ Replay(c, k, f) \/ (\E b \in BOOLEAN : Check(c, k, f, b))
         \/ ClaimLost(c) \/ FailureRaceResolved(c)
  PROVE  Ind'
<1>1. TypeOK /\ UNCHANGED <<row, writer, tx>> /\ recent' \subseteq Keys
  BY DEF Ind, TypeOK, Replay, Check, ClaimLost, FailureRaceResolved
<1>2. /\ call' \in [Calls -> CallStates]
      /\ \A d \in Calls : call'[d] = call[d] \/ (call[d].pc # "claimed" /\ call'[d].pc # "claimed")
  <2>1. call \in [Calls -> CallStates] BY <1>1 DEF TypeOK
  <2>2. CASE Replay(c, k, f) BY <2>1, <2>2 DEF Replay
  <2>3. CASE \E b \in BOOLEAN : Check(c, k, f, b)
    <3>1. [pc |-> "checked", key |-> k, print |-> f] \in CallStates BY DEF CallStates
    <3> QED BY <2>1, <2>3, <3>1 DEF Check, Idle
  <2>4. CASE ClaimLost(c) \/ FailureRaceResolved(c)
    <3>1. Idle \in CallStates /\ Idle.pc = "idle" BY DEF CallStates, Idle
    <3> QED BY <2>1, <2>4, <3>1 DEF ClaimLost, FailureRaceResolved, Finish
  <2> QED BY <2>2, <2>3, <2>4
<1>3. told' \subseteq Answers /\ AnswersAgree'
  <2>1. CASE UNCHANGED told
    BY <1>1, <2>1 DEF Ind, TypeOK, AnswersAgree, Committed
  <2>2. ASSUME NEW j \in Keys, NEW g \in Prints, Committed(j), Answer(j, g, row[j].tx)
        PROVE  told' \subseteq Answers /\ AnswersAgree'
    <3>1. row[j].tx \in TxIds /\ tx[row[j].tx] # None
      BY <2>2 DEF Ind, CommittedIsCompleted, TypeOK, Committed, Rows
    <3> QED BY <1>1, <2>2, <3>1, AnswerStep DEF Committed
  <2> QED BY <1>1, <2>1, <2>2, CallFields
          DEF Replay, Check, ClaimLost, FailureRaceResolved
<1> QED BY <1>1, <1>2, <1>3, QuietStep

LEMMA AgeStep ==
  ASSUME Ind, NEW k \in Keys, Age(k)
  PROVE  Ind'
<1>1. UNCHANGED <<row, writer, tx, call, told>> /\ recent' \subseteq recent BY DEF Age
<1>2. recent' \subseteq Keys /\ told' \subseteq Answers /\ call' \in [Calls -> CallStates]
  BY <1>1 DEF Ind, TypeOK
<1>3. AnswersAgree' BY <1>1 DEF Ind, AnswersAgree, Committed
<1> QED BY <1>1, <1>2, <1>3, QuietStep

LEMMA ClaimStep ==
  ASSUME Ind, NEW c \in Calls, Claim(c)
  PROVE  Ind'
<1> DEFINE k == call[c].key
           new == [print |-> call[c].print, tx |-> None]
<1>1. TypeOK /\ k \in Keys /\ call[c].print \in Prints /\ call[c].pc = "checked"
  BY CallFields DEF Ind, Claim
<1>2. new \in Rows /\ new # None BY <1>1, IdempotencyAssumptions DEF Rows
<1>3. row[k] = None /\ writer[k] = None /\ \A j \in Keys : writer[j] # c
  <2>1. \A j \in Keys : writer[j] # c
    BY <1>1, IdempotencyAssumptions DEF Ind, ClaimsOK
  <2>2. writer[k] = None BY <1>1, ClaimedRow DEF Claim
  <2> QED BY <2>1, <2>2 DEF Claim
<1>4. /\ \A j \in Keys : row'[j] = IF j = k THEN new ELSE row[j]
      /\ \A j \in Keys : writer'[j] = IF j = k THEN c ELSE writer[j]
      /\ \A d \in Calls : d # c => call'[d] = call[d]
      /\ call'[c].pc = "claimed" /\ call'[c].key = k /\ call'[c].print = call[c].print
      /\ call'[c] \in CallStates
      /\ UNCHANGED <<tx, recent, told>>
  <2>1. call[c] \in [pc : {"checked", "claimed", "failing"}, key : Keys, print : Prints]
    BY <1>1, CallFields
  <2>2. call'[c] = [call[c] EXCEPT !.pc = "claimed"] /\ \A d \in Calls : d # c => call'[d] = call[d]
    BY <1>1 DEF Claim, TypeOK
  <2>3. /\ call'[c].pc = "claimed" /\ call'[c].key = k /\ call'[c].print = call[c].print
        /\ call'[c] \in CallStates
    BY <1>1, <2>1, <2>2 DEF CallStates
  <2>4. /\ \A j \in Keys : row'[j] = IF j = k THEN new ELSE row[j]
        /\ \A j \in Keys : writer'[j] = IF j = k THEN c ELSE writer[j]
        /\ UNCHANGED <<tx, recent, told>>
    BY <1>1 DEF Claim, TypeOK
  <2> QED BY <2>2, <2>3, <2>4
<1>5. TypeOK'
  <2>1. row' \in [Keys -> Rows \cup {None}] BY <1>1, <1>2 DEF Claim, TypeOK
  <2>2. writer' \in [Keys -> Calls \cup {None}] BY <1>1 DEF Claim, TypeOK
  <2>3. call' \in [Calls -> CallStates] BY <1>1, <1>4 DEF Claim, TypeOK
  <2> QED BY <1>1, <1>4, <2>1, <2>2, <2>3 DEF TypeOK
<1>6. \A j \in Keys : (Committed(j))' <=> Committed(j)
  BY <1>3, <1>4, IdempotencyAssumptions DEF Committed
<1>7. \A j \in Keys : Committed(j) => j # k BY <1>3 DEF Committed
<1>8. ClaimsOK'
  <2>1. ASSUME NEW j \in Keys, writer'[j] # None
        PROVE  /\ call'[writer'[j]].pc = "claimed" /\ call'[writer'[j]].key = j
               /\ row'[j] = [print |-> call'[writer'[j]].print, tx |-> None]
    <3>1. CASE j = k BY <1>4, <3>1
    <3>2. CASE j # k
      <4>1. writer'[j] = writer[j] /\ writer[j] # c /\ writer[j] \in Calls
        BY <1>1, <1>3, <1>4, <2>1, <3>2 DEF TypeOK
      <4> QED BY <1>4, <2>1, <3>2, <4>1 DEF Ind, ClaimsOK
    <3> QED BY <3>1, <3>2
  <2>2. ASSUME NEW d \in Calls, call'[d].pc = "claimed" PROVE writer'[call'[d].key] = d
    <3>1. CASE d = c BY <1>1, <1>4, <3>1
    <3>2. CASE d # c
      <4>1. writer[call[d].key] = d /\ call[d].key \in Keys
        BY <1>1, <1>4, <2>2, <3>2, CallFields DEF Ind, ClaimsOK
      <4>2. call[d].key # k BY <1>3, <4>1, IdempotencyAssumptions
      <4> QED BY <1>4, <3>2, <4>1, <4>2
    <3> QED BY <3>1, <3>2
  <2> QED BY <2>1, <2>2 DEF ClaimsOK
<1>9. LinksOK' /\ CommittedIsCompleted' /\ AnswersAgree'
  <2>1. \A t \in TxIds : tx[t] # None => tx[t].key \in Keys BY <1>1 DEF TypeOK, Transactions
  <2>2. \A a \in told : a.key \in Keys BY <1>1 DEF TypeOK, Answers
  <2>3. LinksOK' BY <1>4, <1>6, <1>7, <2>1 DEF Ind, LinksOK
  <2>4. CommittedIsCompleted' BY <1>4, <1>6, <1>7 DEF Ind, CommittedIsCompleted
  <2>5. AnswersAgree' BY <1>4, <1>6, <1>7, <2>2 DEF Ind, AnswersAgree
  <2> QED BY <2>3, <2>4, <2>5
<1> QED BY <1>5, <1>8, <1>9 DEF Ind

\* The key and its transaction are committed together, and the call ends.
LEMMA ResolveStep ==
  ASSUME Ind, NEW c \in Calls, NEW k \in Keys, NEW f \in Prints, NEW t \in TxIds,
         NEW o \in {"done", "failed"},
         call[c].pc # "idle", call[c].key = k,
         ~Committed(k), writer[k] \in {c, None}, call[c].pc = "claimed" \/ writer[k] = None,
         tx[t] = None, tx' = [tx EXCEPT ![t] = [key |-> k, print |-> f, outcome |-> o]],
         row' \in [Keys -> Rows \cup {None}], writer' \in [Keys -> Calls \cup {None}],
         \A j \in Keys : row'[j] = IF j = k THEN [print |-> f, tx |-> t] ELSE row[j],
         \A j \in Keys : writer'[j] = IF j = k THEN None ELSE writer[j],
         recent' = recent \cup {k}, Answer(k, f, t), Finish(c)
  PROVE  Ind'
<1> DEFINE new == [key |-> k, print |-> f, outcome |-> o]
           linked == [print |-> f, tx |-> t]
<1>1. /\ TypeOK
      /\ new \in Transactions /\ new # None /\ new.key = k /\ new.print = f
      /\ linked \in Rows /\ linked # None /\ linked.tx = t /\ linked.print = f
  BY IdempotencyAssumptions DEF Ind, Transactions, Rows
<1>2. /\ \A s \in TxIds : tx'[s] = IF s = t THEN new ELSE tx[s]
      /\ \A j \in Keys : row'[j] = IF j = k THEN linked ELSE row[j]
  BY <1>1 DEF TypeOK
<1>3. \A d \in Calls : call'[d] = IF d = c THEN Idle ELSE call[d]
  BY <1>1 DEF Finish, TypeOK
<1> HIDE DEF new, linked
<1>4. \A j \in Keys : Committed(j) => j # k /\ row'[j] = row[j] /\ writer'[j] = None
  BY DEF Committed
<1>5. told' \subseteq Answers /\ AnswersAgree'
  <2>1. \A s \in TxIds : tx[s] # None => tx'[s] = tx[s] BY <1>2
  <2>2. row'[k] # None /\ writer'[k] = None /\ row'[k].tx = t /\ tx'[t] # None BY <1>1, <1>2
  <2>3. \A j \in Keys : Committed(j) => row'[j] = row[j] /\ writer'[j] = None BY <1>4
  <2> QED BY <2>1, <2>2, <2>3, AnswerStep
<1>6. TypeOK'
  <2>1. tx' \in [TxIds -> Transactions \cup {None}]
    <3>1. tx' = [tx EXCEPT ![t] = new] BY DEF new
    <3> QED BY <1>1, <3>1 DEF TypeOK
  <2>2. call' \in [Calls -> CallStates] BY <1>1 DEF Finish, TypeOK, CallStates
  <2> QED BY <1>1, <1>5, <2>1, <2>2 DEF TypeOK
<1>7. ClaimsOK'
  <2>1. Idle.pc = "idle" BY DEF Idle
  <2>2. ASSUME NEW j \in Keys, writer'[j] # None
        PROVE  /\ call'[writer'[j]].pc = "claimed" /\ call'[writer'[j]].key = j
               /\ row'[j] = [print |-> call'[writer'[j]].print, tx |-> None]
    <3>1. j # k /\ writer'[j] = writer[j] /\ writer[j] \in Calls /\ row'[j] = row[j]
      BY <1>1, <1>2, <2>2 DEF TypeOK
    <3>2. call[writer[j]].key = j BY <2>2, <3>1 DEF Ind, ClaimsOK
    <3>3. writer[j] # c BY <3>1, <3>2
    <3> QED BY <1>3, <2>2, <3>1, <3>3 DEF Ind, ClaimsOK
  <2>3. ASSUME NEW d \in Calls, call'[d].pc = "claimed" PROVE writer'[call'[d].key] = d
    <3>1. d # c /\ call'[d] = call[d] BY <1>3, <2>1, <2>3
    <3>2. writer[call[d].key] = d /\ call[d].key \in Keys
      BY <1>1, <2>3, <3>1, CallFields DEF Ind, ClaimsOK
    <3>3. call[d].key # k BY <3>1, <3>2, IdempotencyAssumptions
    <3> QED BY <3>1, <3>2, <3>3
  <2> QED BY <2>2, <2>3 DEF ClaimsOK
<1>8. LinksOK'
  <2> SUFFICES ASSUME NEW s \in TxIds, tx'[s] # None
               PROVE  /\ row'[tx'[s].key] # None /\ writer'[tx'[s].key] = None
                      /\ row'[tx'[s].key].tx = s
    BY DEF LinksOK, Committed
  <2>1. CASE s = t BY <1>1, <1>2, <2>1
  <2>2. CASE s # t
    <3>1. tx'[s] = tx[s] /\ tx[s].key \in Keys
      BY <1>1, <1>2, <2>2 DEF TypeOK, Transactions
    <3>2. Committed(tx[s].key) /\ row[tx[s].key].tx = s BY <3>1 DEF Ind, LinksOK
    <3> QED BY <1>4, <3>1, <3>2 DEF Committed
  <2> QED BY <2>1, <2>2
<1>9. CommittedIsCompleted'
  <2> SUFFICES ASSUME NEW j \in Keys, row'[j] # None, writer'[j] = None
               PROVE  /\ row'[j].tx # None /\ tx'[row'[j].tx] # None
                      /\ tx'[row'[j].tx].key = j /\ tx'[row'[j].tx].print = row'[j].print
    BY DEF CommittedIsCompleted, Committed
  <2>1. CASE j = k BY <1>1, <1>2, <2>1, IdempotencyAssumptions
  <2>2. CASE j # k
    <3>1. Committed(j) /\ row'[j] = row[j] BY <1>2, <2>2 DEF Committed
    <3>2. /\ row[j].tx # None /\ tx[row[j].tx] # None
          /\ tx[row[j].tx].key = j /\ tx[row[j].tx].print = row[j].print
      BY <3>1 DEF Ind, CommittedIsCompleted
    <3>3. row[j].tx \in TxIds BY <1>1, <3>1, <3>2 DEF Committed, TypeOK, Rows
    <3> QED BY <1>2, <3>1, <3>2, <3>3
  <2> QED BY <2>1, <2>2
<1> QED BY <1>5, <1>6, <1>7, <1>8, <1>9 DEF Ind

LEMMA CompleteStep ==
  ASSUME Ind, NEW c \in Calls, NEW t \in TxIds, Complete(c, t)
  PROVE  Ind'
<1> DEFINE k == call[c].key f == call[c].print
<1>1. TypeOK /\ k \in Keys /\ f \in Prints /\ call[c].pc = "claimed"
  BY CallFields DEF Ind, Complete
<1>2. writer[k] = c /\ c # None /\ row[k] = [print |-> f, tx |-> None]
  BY <1>1, IdempotencyAssumptions DEF Ind, ClaimsOK
<1>3. [print |-> f, tx |-> t] \in Rows BY <1>1 DEF Rows
<1>4. row' = [row EXCEPT ![k] = [print |-> f, tx |-> t]]
  <2>1. [row[k] EXCEPT !.tx = t] = [print |-> f, tx |-> t] BY <1>2
  <2>2. row' = [row EXCEPT ![k] = [row[k] EXCEPT !.tx = t]] BY DEF Complete
  <2> QED BY <2>1, <2>2
<1>5. /\ row' \in [Keys -> Rows \cup {None}] /\ writer' \in [Keys -> Calls \cup {None}]
      /\ \A j \in Keys : row'[j] = IF j = k THEN [print |-> f, tx |-> t] ELSE row[j]
      /\ \A j \in Keys : writer'[j] = IF j = k THEN None ELSE writer[j]
  BY <1>1, <1>3, <1>4 DEF Complete, TypeOK
<1>6. /\ tx[t] = None /\ tx' = [tx EXCEPT ![t] = [key |-> k, print |-> f, outcome |-> "done"]]
      /\ recent' = recent \cup {k} /\ Answer(k, f, t) /\ Finish(c)
  BY DEF Complete
<1>7. ~Committed(k) BY <1>2 DEF Committed
<1>8. call[c].key = k OBVIOUS
<1> HIDE DEF k, f
<1>9. /\ Ind /\ k \in Keys /\ f \in Prints /\ "done" \in {"done", "failed"}
      /\ call[c].pc # "idle" /\ call[c].pc = "claimed"
      /\ writer[k] \in {c, None}
  BY <1>1, <1>2
<1> QED BY <1>5, <1>6, <1>7, <1>8, <1>9, ResolveStep

LEMMA RecordFailureStep ==
  ASSUME Ind, NEW c \in Calls, NEW t \in TxIds, RecordFailure(c, t)
  PROVE  Ind'
<1> DEFINE k == call[c].key f == call[c].print
<1>1. TypeOK /\ k \in Keys /\ f \in Prints /\ call[c].pc = "failing" /\ row[k] = None
  BY CallFields DEF Ind, RecordFailure
<1>2. writer[k] = None BY <1>1, ClaimedRow
<1>3. [print |-> f, tx |-> t] \in Rows BY <1>1 DEF Rows
<1>4. /\ row' \in [Keys -> Rows \cup {None}] /\ writer' \in [Keys -> Calls \cup {None}]
      /\ \A j \in Keys : row'[j] = IF j = k THEN [print |-> f, tx |-> t] ELSE row[j]
      /\ \A j \in Keys : writer'[j] = IF j = k THEN None ELSE writer[j]
  BY <1>1, <1>2, <1>3 DEF RecordFailure, TypeOK
<1>5. /\ tx[t] = None /\ tx' = [tx EXCEPT ![t] = [key |-> k, print |-> f, outcome |-> "failed"]]
      /\ recent' = recent \cup {k} /\ Answer(k, f, t) /\ Finish(c)
  BY DEF RecordFailure
<1>6. ~Committed(k) BY <1>1 DEF Committed
<1> HIDE DEF k, f
<1>7. call[c].key = k BY DEF k
<1> QED BY <1>1, <1>2, <1>4, <1>5, <1>6, <1>7, ResolveStep

\* A call leaves its claim, which goes.
LEMMA ReleaseStep ==
  ASSUME Ind, NEW c \in Calls, Fail(c) \/ Abort(c)
  PROVE  Ind'
<1> DEFINE k == call[c].key
<1>1. TypeOK /\ call[c] # Idle BY DEF Ind, Fail, Abort, Idle
<1>2. /\ call' \in [Calls -> CallStates]
      /\ call'[c].pc # "claimed" /\ \A d \in Calls \ {c} : call'[d] = call[d]
      /\ UNCHANGED <<tx, recent, told>>
  <2>1. CASE Fail(c)
    <3>1. call[c] \in [pc : {"checked", "claimed", "failing"}, key : Keys, print : Prints]
      BY <1>1, <2>1, CallFields DEF Fail
    <3>2. [call[c] EXCEPT !.pc = "failing"] \in CallStates
          /\ [call[c] EXCEPT !.pc = "failing"].pc = "failing"
      BY <3>1 DEF CallStates
    <3> QED BY <1>1, <2>1, <3>2 DEF Fail, TypeOK
  <2>2. CASE Abort(c)
    <3>1. Idle \in CallStates /\ Idle.pc = "idle" BY DEF CallStates, Idle
    <3> QED BY <1>1, <2>2, <3>1 DEF Abort, Finish, TypeOK
  <2> QED BY <2>1, <2>2
<1>3. Release(c) BY DEF Fail, Abort
<1>4. CASE call[c].pc # "claimed"
  <2>1. UNCHANGED <<row, writer, tx>> BY <1>2, <1>3, <1>4 DEF Release
  <2>2. told' \subseteq Answers /\ AnswersAgree'
    BY <1>1, <1>2, <2>1 DEF TypeOK, Ind, AnswersAgree, Committed
  <2>3. recent' \subseteq Keys BY <1>1, <1>2 DEF TypeOK
  <2> QED BY <1>2, <1>4, <2>1, <2>2, <2>3, QuietStep
<1>5. CASE call[c].pc = "claimed"
  <2>1. k \in Keys /\ writer[k] = c /\ c # None
    BY <1>1, <1>5, CallFields, IdempotencyAssumptions DEF Ind, ClaimsOK
  <2>2. /\ row' = [row EXCEPT ![k] = None] /\ writer' = [writer EXCEPT ![k] = None]
    BY <1>3, <1>5 DEF Release
  <2>3. /\ \A j \in Keys : row'[j] = IF j = k THEN None ELSE row[j]
        /\ \A j \in Keys : writer'[j] = IF j = k THEN None ELSE writer[j]
    BY <1>1, <2>2 DEF TypeOK
  <2>4. \A j \in Keys : (row'[j] # None /\ writer'[j] = None) <=> Committed(j)
    BY <2>1, <2>3 DEF Committed
  <2>5. \A j \in Keys : Committed(j) => row'[j] = row[j]
    BY <2>1, <2>3 DEF Committed
  <2>6. TypeOK' BY <1>1, <1>2, <2>2 DEF TypeOK
  <2>7. ClaimsOK'
    <3>1. ASSUME NEW j \in Keys, writer'[j] # None
          PROVE  /\ call'[writer'[j]].pc = "claimed" /\ call'[writer'[j]].key = j
                 /\ row'[j] = [print |-> call'[writer'[j]].print, tx |-> None]
      <4>1. j # k /\ writer'[j] = writer[j] /\ writer[j] \in Calls /\ row'[j] = row[j]
        BY <1>1, <2>3, <3>1 DEF TypeOK
      <4>2. call[writer[j]].key = j BY <3>1, <4>1 DEF Ind, ClaimsOK
      <4>3. writer[j] # c BY <4>1, <4>2
      <4> QED BY <1>2, <3>1, <4>1, <4>3 DEF Ind, ClaimsOK
    <3>2. ASSUME NEW d \in Calls, call'[d].pc = "claimed" PROVE writer'[call'[d].key] = d
      <4>1. d # c /\ call'[d] = call[d] BY <1>2, <3>2
      <4>2. writer[call[d].key] = d /\ call[d].key \in Keys
        BY <1>1, <3>2, <4>1, CallFields DEF Ind, ClaimsOK
      <4> QED BY <2>1, <2>3, <4>1, <4>2
    <3> QED BY <3>1, <3>2 DEF ClaimsOK
  <2>8. LinksOK' /\ CommittedIsCompleted' /\ AnswersAgree'
    <3>1. \A t \in TxIds : tx[t] # None => tx[t].key \in Keys BY <1>1 DEF TypeOK, Transactions
    <3>2. \A a \in told : a.key \in Keys BY <1>1 DEF TypeOK, Answers
    <3>3. LinksOK' BY <1>2, <2>4, <2>5, <3>1 DEF Ind, LinksOK, Committed
    <3>4. CommittedIsCompleted' BY <1>2, <2>4, <2>5 DEF Ind, CommittedIsCompleted, Committed
    <3>5. AnswersAgree' BY <1>2, <2>4, <2>5, <3>2 DEF Ind, AnswersAgree, Committed
    <3> QED BY <3>3, <3>4, <3>5
  <2> QED BY <2>6, <2>7, <2>8 DEF Ind
<1> QED BY <1>4, <1>5

LEMMA NextInd == Ind /\ [Next]_vars => Ind'
<1> SUFFICES ASSUME Ind, [Next]_vars PROVE Ind' OBVIOUS
<1>1. CASE UNCHANGED vars
  BY <1>1 DEF vars, Ind, TypeOK, ClaimsOK, LinksOK, CommittedIsCompleted, AnswersAgree, Committed
<1>2. ASSUME NEW c \in Calls, NEW k \in Keys, NEW f \in Prints,
             Replay(c, k, f) \/ \E b \in BOOLEAN : Check(c, k, f, b)
      PROVE  Ind'
  BY <1>2, ReadersStep
<1>3. ASSUME NEW c \in Calls, ClaimLost(c) \/ FailureRaceResolved(c) PROVE Ind'
  <2>1. call[c].key \in Keys /\ call[c].print \in Prints
    BY <1>3, CallFields DEF Ind, ClaimLost, FailureRaceResolved
  <2> QED BY <1>3, <2>1, ReadersStep
<1>4. ASSUME NEW k \in Keys, Age(k) PROVE Ind'
  BY <1>4, AgeStep
<1>5. ASSUME NEW c \in Calls, Claim(c) \/ Fail(c) \/ Abort(c) PROVE Ind'
  BY <1>5, ClaimStep, ReleaseStep
<1>6. ASSUME NEW c \in Calls, NEW t \in TxIds, Complete(c, t) \/ RecordFailure(c, t) PROVE Ind'
  BY <1>6, CompleteStep, RecordFailureStep
<1> QED BY <1>1, <1>2, <1>3, <1>4, <1>5, <1>6 DEF Next

\* The rows, the claims and the transactions always stand for one another.
THEOREM AlwaysInd == Spec => []Ind
<1> QED BY InitInd, NextInd, PTL DEF Spec

\* However its calls race, fail and are repeated, execute() leaves at most one
\* transaction under a key.
THEOREM RunsAtMostOnce == Spec => []AtMostOnce
<1>1. Ind => AtMostOnce BY DEF Ind, LinksOK, AtMostOnce
<1> QED BY <1>1, AlwaysInd, PTL

\* All that execute() answers under a key, done or failed, first or replayed, is the
\* same committed transaction.
THEOREM AnswersAlwaysAgree == Spec => []AnswersAgree
<1>1. Ind => AnswersAgree BY DEF Ind
<1> QED BY <1>1, AlwaysInd, PTL

\* No reader ever finds a key in_progress: resolveExisting's error for one is
\* unreachable.
THEOREM NeverSeenInProgress == Spec => []CommittedIsCompleted
<1>1. Ind => CommittedIsCompleted BY DEF Ind
<1> QED BY <1>1, AlwaysInd, PTL

\* No rollback, recorded failure or lost race of execute() reopens a resolved key.
THEOREM StaysResolved == Spec => ResolvedForGood
<1>1. Ind /\ [Next]_vars => [\A k \in Keys : Committed(k) => row'[k] = row[k] /\ writer'[k] = None]_vars
  <2> SUFFICES ASSUME Ind, Next, NEW k \in Keys, Committed(k)
               PROVE  row'[k] = row[k] /\ writer'[k] = None
    OBVIOUS
  <2>1. row[k] # None /\ writer[k] = None BY DEF Committed
  <2>2. ASSUME NEW c \in Calls, call[c].pc = "claimed"
        PROVE  call[c].key # k
    BY <2>1, <2>2, IdempotencyAssumptions DEF Ind, ClaimsOK
  <2>3. TypeOK BY DEF Ind
  <2>4. ASSUME NEW c \in Calls, Claim(c) PROVE row'[k] = row[k] /\ writer'[k] = None
    BY <2>1, <2>3, <2>4 DEF Claim, TypeOK
  <2>5. ASSUME NEW c \in Calls, Release(c) PROVE row'[k] = row[k] /\ writer'[k] = None
    BY <2>1, <2>2, <2>3, <2>5 DEF Release, TypeOK
  <2>6. ASSUME NEW c \in Calls, NEW t \in TxIds, Complete(c, t)
        PROVE  row'[k] = row[k] /\ writer'[k] = None
    <3>1. call[c].key # k BY <2>2, <2>6 DEF Complete
    <3> QED BY <2>1, <2>3, <2>6, <3>1 DEF Complete, TypeOK
  <2>7. ASSUME NEW c \in Calls, NEW t \in TxIds, RecordFailure(c, t)
        PROVE  row'[k] = row[k] /\ writer'[k] = None
    BY <2>1, <2>3, <2>7 DEF RecordFailure, TypeOK
  <2> QED
    BY <2>1, <2>4, <2>5, <2>6, <2>7
       DEF Next, Replay, Check, ClaimLost, Fail, Abort, FailureRaceResolved, Age
<1> QED BY <1>1, AlwaysInd, PTL DEF Spec, ResolvedForGood

==============================================================================
