---------------------------- MODULE ConsoleProofs ----------------------------
(***************************************************************************)
(* The administrators' console, for any store, any number of requests and  *)
(* of other administrators: reversals have one approval each, what is on   *)
(* show is current once it has settled, and the error above the queue is   *)
(* that of the decision asked for last.                                    *)
(***************************************************************************)
EXTENDS Console, FiniteSetTheorems, TLAPS

\* A proposal is of a transaction there is; of one transaction, one at a time waits or
\* was executed; and what waits to be reversed is posted.
ApprovalsOK ==
  /\ \A i \in DOMAIN approvals :
       /\ approvals[i].target \in DOMAIN transactions
       /\ approvals[i].maker # approvals[i].checker
       /\ approvals[i].status = "PENDING" => transactions[approvals[i].target].status = "POSTED"
  /\ \A i, j \in DOMAIN approvals :
       approvals[i].target = approvals[j].target /\ Blocking(i, approvals[i].target)
         /\ Blocking(j, approvals[i].target) => i = j

\* What is reversed, an approval was executed of and a transaction compensates.
ReversalsOK ==
  \A t \in DOMAIN transactions :
    /\ transactions[t].reverses \in DOMAIN transactions \union {0}
    /\ transactions[t].status = "REVERSED" <=>
         \E i \in DOMAIN approvals : approvals[i].target = t /\ approvals[i].status = "EXECUTED"
    /\ transactions[t].status = "REVERSED" <=>
         \E r \in DOMAIN transactions : transactions[r].reverses = t
    /\ \A r, s \in DOMAIN transactions :
         transactions[r].reverses = t /\ transactions[s].reverses = t => r = s

StoreOK == StoreTypeOK /\ ApprovalsOK /\ ReversalsOK

Verdict(op) == IF op = "approve" THEN "EXECUTED" ELSE "REJECTED"

\* This administrator decided i as op has it.
Took(op, i) ==
  op \in {"approve", "reject"} =>
    approvals[i].status = Verdict(op) /\ approvals[i].checker = Me

\* A request is about something there is.
ArgOK(op, arg) ==
  CASE op = "propose" -> arg \in DOMAIN transactions
    [] op \in {"approve", "reject"} -> arg \in DOMAIN approvals
    [] op \in {"freeze", "unfreeze"} -> arg \in Accounts
    [] op = "upsert" -> arg[1] \in Scopes /\ arg[2] \in Caps

CallOK(c) ==
  /\ c.op \in Ops /\ ArgOK(c.op, c.arg) /\ c.at \in 1..sends /\ c.by \in {"tab", "nobody"}
  /\ c = [op |-> c.op, arg |-> c.arg, at |-> c.at, by |-> c.by, answer |-> c.answer]
  /\ c.answer \in Answers \union {None}
  /\ c.by = "nobody" => c.answer = None
  /\ c.answer = Done => Took(c.op, c.arg)
  /\ hooks[c.op].at = c.at => hooks[c.op].arg = c.arg

HookOK(op) ==
  LET h == hooks[op] IN
  /\ h = [phase |-> h.phase, arg |-> h.arg, at |-> h.at]
  /\ h.phase \in {"idle", "loading", "done", "failed"}
  /\ h.at \in 0..sends /\ (h.phase = "idle" <=> h.at = 0)
  /\ h.phase # "idle" => ArgOK(op, h.arg)
  /\ h.phase = "done" => Took(op, h.arg)

\* What a list shows is there.
Shown(l, v) ==
  /\ l = "transactions" => DOMAIN v \subseteq DOMAIN transactions
  /\ l = "approvals" => v \subseteq DOMAIN approvals

ListOK(l) ==
  /\ cache[l] # None => Shown(l, cache[l])
  /\ \/ reading[l] \in {Unasked, Asked}
     \/ reading[l] = Answered(reading[l].value) /\ Shown(l, reading[l].value)

\* The tab has been told that l is no longer what it was, or will be.
Promised(l) == l \in stale \/ \E c \in Awaited(calls) : c.answer # None /\ l \in Invalidates(c.op)

ListCurrent(l) ==
  l \in untold \/ Promised(l) \/
    /\ reading[l].phase = "answered" => reading[l].value = Listed(l)
    /\ reading[l] = Unasked /\ cache[l] # None => cache[l] = Listed(l)

PlaceOK ==
  /\ tour \in Tours /\ screen \in tour
  /\ target # None => screen = "reversals" /\ target \in DOMAIN transactions
  /\ sends \in 0..MaxSends /\ upsets \in 0..MaxUpsets
  /\ stale \subseteq Lists /\ untold \subseteq Lists
  /\ page \in 0..LastPage
  /\ pages \in [0..LastPage -> (SUBSET (1..MaxEntries)) \union {None}]

HooksOK == hooks = [op \in Ops |-> hooks[op]] /\ \A op \in Ops : HookOK(op)
CallsOK == \A c \in calls : CallOK(c)

\* Of two requests one was sent before the other; the hook of one that is awaited waits;
\* and a hook knows of the last request of its kind, or of none since its screen opened.
SentOK ==
  /\ \A o, p \in Ops : hooks[o].at = hooks[p].at => o = p \/ hooks[o].at = 0
  /\ \A c \in calls :
       /\ \A d \in calls : d.at = c.at => d = c
       /\ hooks[c.op].at = c.at /\ c.by = "tab" => hooks[c.op].phase = "loading"
       /\ \/ c.at <= hooks[c.op].at
          \/ \A o \in Ops : hooks[o].at # 0 => c.at < hooks[o].at

ListsOK ==
  /\ cache = [l \in Lists |-> cache[l]] /\ reading = [l \in Lists |-> reading[l]]
  /\ \A l \in Lists : ListOK(l) /\ ListCurrent(l)

TabOK == PlaceOK /\ HooksOK /\ CallsOK /\ SentOK /\ ListsOK

ConsoleInv == StoreOK /\ TabOK

-----------------------------------------------------------------------------
(* Sequences.                                                               *)

LEMMA Appended ==
  ASSUME NEW S, NEW s \in Seq(S), NEW x \in S
  PROVE  /\ Append(s, x) \in Seq(S) /\ Len(Append(s, x)) = Len(s) + 1 /\ Len(s) \in Nat
         /\ DOMAIN s = 1..Len(s) /\ DOMAIN Append(s, x) = DOMAIN s \union {Len(s) + 1}
         /\ Len(s) + 1 \notin DOMAIN s
         /\ \A i \in DOMAIN s : Append(s, x)[i] = s[i]
         /\ Append(s, x)[Len(s) + 1] = x
OBVIOUS

LEMMA Replaced ==
  ASSUME NEW S, NEW s \in Seq(S), NEW i \in DOMAIN s, NEW x \in S
  PROVE  /\ [s EXCEPT ![i] = x] \in Seq(S) /\ Len([s EXCEPT ![i] = x]) = Len(s)
         /\ DOMAIN [s EXCEPT ![i] = x] = DOMAIN s
         /\ [s EXCEPT ![i] = x][i] = x
         /\ \A j \in DOMAIN s \ {i} : [s EXCEPT ![i] = x][j] = s[j]
OBVIOUS

-----------------------------------------------------------------------------
(* The store.                                                               *)

\* What every step of the store leaves: rows are added, and what was decided stays.
Onward ==
  /\ DOMAIN transactions \subseteq DOMAIN transactions'
  /\ DOMAIN approvals \subseteq DOMAIN approvals'
  /\ \A i \in DOMAIN approvals : approvals[i].status # "PENDING" => approvals'[i] = approvals[i]

LEMMA StoreSame ==
  ASSUME StoreOK, UNCHANGED adminVars
  PROVE  StoreOK' /\ Onward /\ \A l \in Lists : Listed(l)' = Listed(l)
BY DEF adminVars, StoreOK, StoreTypeOK, ApprovalsOK, ReversalsOK, Blocking, Onward, Listed, PendingApprovals

LEMMA ProposeStep ==
  ASSUME StoreOK, NEW admin \in Admins, NEW id \in DOMAIN transactions, NEW answer,
         ProposeReversal(admin, id, answer)
  PROVE  /\ StoreOK' /\ Onward
         /\ \A l \in Lists \ {"approvals"} : Listed(l)' = Listed(l)
<1>1. CASE UNCHANGED adminVars
  BY <1>1, StoreSame
<1> DEFINE new == [status |-> "PENDING", target |-> id, maker |-> admin, checker |-> None]
           k == Len(approvals) + 1
<1>2. CASE /\ IsReversible(transactions[id])
           /\ ~\E i \in DOMAIN approvals : Blocking(i, id)
           /\ Len(approvals) < MaxApprovals
           /\ approvals' = Append(approvals, new)
           /\ UNCHANGED <<transactions, account, limits, log>>
  <2>1. /\ transactions \in Seq(Transaction) /\ approvals \in Seq(Approval)
        /\ Len(transactions) <= MaxRows /\ MaxRows \in Nat /\ MaxApprovals \in Nat
    BY AdminAssumptions DEF StoreOK, StoreTypeOK
  <2>2. id \in 1..MaxRows
    BY <2>1
  <2>3. new \in Approval
    BY <2>2 DEF Approval
  <2> HIDE DEF new
  <2>4. /\ approvals' \in Seq(Approval) /\ Len(approvals') = Len(approvals) + 1
        /\ DOMAIN approvals' = DOMAIN approvals \union {k} /\ k \notin DOMAIN approvals
        /\ \A i \in DOMAIN approvals : approvals'[i] = approvals[i]
        /\ approvals'[k] = new /\ Len(approvals) \in Nat
    BY <1>2, <2>1, <2>3, Appended
  <2> HIDE DEF k
  <2>5. new.status = "PENDING" /\ new.target = id /\ new.maker = admin /\ new.checker = None
    BY DEF new
  <2>6. StoreTypeOK'
    BY <1>2, <2>1, <2>4 DEF StoreOK, StoreTypeOK
  <2>7. ApprovalsOK'
    <3>1. ASSUME NEW i \in DOMAIN approvals'
          PROVE  /\ approvals'[i].target \in DOMAIN transactions'
                 /\ approvals'[i].maker # approvals'[i].checker
                 /\ approvals'[i].status = "PENDING" =>
                      transactions'[approvals'[i].target].status = "POSTED"
      <4>1. CASE i = k
        BY <1>2, <2>4, <2>5, <4>1, AdminAssumptions DEF IsReversible
      <4>2. CASE i # k
        BY <1>2, <2>4, <4>2 DEF StoreOK, ApprovalsOK
      <4> QED BY <4>1, <4>2
    <3>2. ASSUME NEW i \in DOMAIN approvals', NEW j \in DOMAIN approvals',
                 approvals'[i].target = approvals'[j].target,
                 approvals'[i].status \in {"PENDING", "EXECUTED"},
                 approvals'[j].status \in {"PENDING", "EXECUTED"}
          PROVE  i = j
      <4>1. CASE i # k /\ j # k
        BY <2>4, <3>2, <4>1 DEF StoreOK, ApprovalsOK, Blocking
      <4>2. CASE i = k \/ j = k
        BY <1>2, <2>4, <2>5, <3>2, <4>2 DEF Blocking
      <4> QED BY <4>1, <4>2
    <3> QED BY <3>1, <3>2 DEF ApprovalsOK, Blocking
  <2>8. ReversalsOK'
    BY <1>2, <2>4, <2>5 DEF StoreOK, ReversalsOK
  <2>9. \A l \in Lists \ {"approvals"} : Listed(l)' = Listed(l)
    BY <1>2 DEF Lists, Listed
  <2>10. Onward
    BY <1>2, <2>4 DEF Onward
  <2> QED BY <2>6, <2>7, <2>8, <2>9, <2>10 DEF StoreOK
<1> QED BY <1>1, <1>2 DEF ProposeReversal, Refuse

\* A decision, and what becomes of the rest of the approvals.
LEMMA Decided ==
  ASSUME StoreOK, NEW admin \in Admins, NEW i \in DOMAIN approvals,
         NEW verdict \in {"EXECUTED", "REJECTED"},
         NotDecidable(admin, i) = None, Decide(admin, i, verdict)
  PROVE  /\ approvals' \in Seq(Approval) /\ Len(approvals') = Len(approvals)
         /\ DOMAIN approvals' = DOMAIN approvals
         /\ approvals[i].status = "PENDING" /\ approvals[i].maker # admin
         /\ approvals'[i].status = verdict /\ approvals'[i].checker = admin
         /\ approvals'[i].maker = approvals[i].maker /\ approvals'[i].target = approvals[i].target
         /\ \A j \in DOMAIN approvals \ {i} : approvals'[j] = approvals[j]
<1> DEFINE row == [approvals[i] EXCEPT !.status = verdict, !.checker = admin]
<1>1. approvals \in Seq(Approval) /\ approvals[i] \in Approval
  BY DEF StoreOK, StoreTypeOK
<1>2. /\ row \in Approval /\ row.status = verdict /\ row.checker = admin
      /\ row.maker = approvals[i].maker /\ row.target = approvals[i].target
  BY <1>1 DEF Approval
<1>3. approvals' = [approvals EXCEPT ![i] = row]
  BY <1>1 DEF Decide
<1>4. approvals[i].status = "PENDING" /\ approvals[i].maker # admin
  BY ConsoleAssumptions DEF NotDecidable, Codes
<1> HIDE DEF row
<1> QED BY <1>1, <1>2, <1>3, <1>4, Replaced

LEMMA RejectStep ==
  ASSUME StoreOK, NEW admin \in Admins, NEW i \in DOMAIN approvals, NEW answer,
         RejectReversal(admin, i, answer)
  PROVE  /\ StoreOK' /\ Onward
         /\ \A l \in Lists \ {"approvals"} : Listed(l)' = Listed(l)
         /\ answer.ok => approvals'[i].status = "REJECTED" /\ approvals'[i].checker = admin
<1>1. CASE UNCHANGED adminVars /\ ~answer.ok
  BY <1>1, StoreSame
<1>2. CASE /\ NotDecidable(admin, i) = None
           /\ Decide(admin, i, "REJECTED")
           /\ UNCHANGED <<transactions, account, limits, log>>
  <2>1. /\ approvals' \in Seq(Approval) /\ Len(approvals') = Len(approvals)
        /\ DOMAIN approvals' = DOMAIN approvals
        /\ approvals[i].status = "PENDING" /\ approvals[i].maker # admin
        /\ approvals'[i].status = "REJECTED" /\ approvals'[i].checker = admin
        /\ approvals'[i].maker = approvals[i].maker /\ approvals'[i].target = approvals[i].target
        /\ \A j \in DOMAIN approvals \ {i} : approvals'[j] = approvals[j]
    BY <1>2, Decided
  <2>2. StoreTypeOK'
    BY <1>2, <2>1 DEF StoreOK, StoreTypeOK
  <2>3. ApprovalsOK'
    <3>1. ASSUME NEW j \in DOMAIN approvals'
          PROVE  /\ approvals'[j].target \in DOMAIN transactions'
                 /\ approvals'[j].maker # approvals'[j].checker
                 /\ approvals'[j].status = "PENDING" =>
                      transactions'[approvals'[j].target].status = "POSTED"
      <4>1. CASE j = i
        BY <1>2, <2>1, <4>1 DEF StoreOK, ApprovalsOK
      <4>2. CASE j # i
        BY <1>2, <2>1, <4>2 DEF StoreOK, ApprovalsOK
      <4> QED BY <4>1, <4>2
    <3>2. ASSUME NEW j \in DOMAIN approvals', NEW k \in DOMAIN approvals',
                 approvals'[j].target = approvals'[k].target,
                 approvals'[j].status \in {"PENDING", "EXECUTED"},
                 approvals'[k].status \in {"PENDING", "EXECUTED"}
          PROVE  j = k
      BY <2>1, <3>2 DEF StoreOK, ApprovalsOK, Blocking
    <3> QED BY <3>1, <3>2 DEF ApprovalsOK, Blocking
  <2>4. ReversalsOK'
    <3>1. \A t : (\E j \in DOMAIN approvals' :
                     approvals'[j].target = t /\ approvals'[j].status = "EXECUTED")
                 <=> \E j \in DOMAIN approvals :
                     approvals[j].target = t /\ approvals[j].status = "EXECUTED"
      BY <2>1
    <3> QED BY <1>2, <3>1 DEF StoreOK, ReversalsOK
  <2>5. \A l \in Lists \ {"approvals"} : Listed(l)' = Listed(l)
    BY <1>2 DEF Lists, Listed
  <2>6. Onward
    BY <1>2, <2>1 DEF Onward
  <2> QED BY <2>1, <2>2, <2>3, <2>4, <2>5, <2>6 DEF StoreOK
<1> QED BY <1>1, <1>2 DEF RejectReversal, Refuse, Refuses

\* A transaction that is posted gets its reversal, and one that compensates it.
LEMMA Compensated ==
  ASSUME StoreOK, NEW id \in DOMAIN transactions, transactions[id].status = "POSTED",
         Compensate(id)
  PROVE  LET k == Len(transactions) + 1 IN
         /\ transactions' \in Seq(Transaction) /\ Len(transactions') <= MaxRows
         /\ DOMAIN transactions' = DOMAIN transactions \union {k} /\ k \notin DOMAIN transactions
         /\ k # 0 /\ 0 \notin DOMAIN transactions
         /\ transactions'[k].status = "POSTED" /\ transactions'[k].reverses = id
         /\ transactions'[id].status = "REVERSED"
         /\ transactions'[id].reverses = transactions[id].reverses
         /\ \A t \in DOMAIN transactions \ {id} : transactions'[t] = transactions[t]
<1> DEFINE k == Len(transactions) + 1
           old == [transactions[id] EXCEPT !.status = "REVERSED"]
           new == [type |-> transactions[id].type, status |-> "POSTED", reverses |-> id]
           rest == [transactions EXCEPT ![id] = old]
<1>1. /\ transactions \in Seq(Transaction) /\ transactions[id] \in Transaction
      /\ Len(transactions) < MaxRows /\ MaxRows \in Nat
      /\ transactions' = Append([transactions EXCEPT ![id].status = "REVERSED"], new)
  <2>1. /\ transactions \in Seq(Transaction) /\ transactions[id] \in Transaction
        /\ MaxRows \in Nat
    BY AdminAssumptions DEF StoreOK, StoreTypeOK
  <2>2. /\ Len(transactions) < MaxRows
        /\ transactions' = Append([transactions EXCEPT ![id].status = "REVERSED"], new)
    BY DEF Compensate
  <2> QED BY <2>1, <2>2
<1>2. old \in Transaction /\ old.status = "REVERSED" /\ old.reverses = transactions[id].reverses
  BY <1>1 DEF Transaction
<1>3. id \in 0..MaxRows
  BY <1>1
<1>4. new \in Transaction /\ new.status = "POSTED" /\ new.reverses = id
  BY <1>1, <1>3 DEF Transaction
<1>5. transactions' = Append(rest, new)
  BY <1>1
<1> HIDE DEF old, new
<1>6. /\ rest \in Seq(Transaction) /\ Len(rest) = Len(transactions)
      /\ DOMAIN rest = DOMAIN transactions /\ rest[id] = old
      /\ \A t \in DOMAIN transactions \ {id} : rest[t] = transactions[t]
  BY <1>1, <1>2, Replaced
<1> HIDE DEF rest
<1>7. /\ transactions' \in Seq(Transaction) /\ Len(transactions') = Len(rest) + 1
      /\ DOMAIN transactions' = DOMAIN rest \union {Len(rest) + 1}
      /\ Len(rest) + 1 \notin DOMAIN rest /\ Len(rest) \in Nat /\ DOMAIN rest = 1..Len(rest)
      /\ \A t \in DOMAIN rest : transactions'[t] = rest[t]
      /\ transactions'[Len(rest) + 1] = new
  BY <1>4, <1>5, <1>6, Appended
<1>8. Len(transactions') <= MaxRows /\ k # 0 /\ 0 \notin DOMAIN transactions
  BY <1>1, <1>6, <1>7
<1> QED BY <1>2, <1>4, <1>6, <1>7, <1>8

LEMMA ApproveStep ==
  ASSUME StoreOK, NEW admin \in Admins, NEW i \in DOMAIN approvals, NEW answer,
         ApproveReversal(admin, i, answer)
  PROVE  /\ StoreOK' /\ Onward
         /\ \A l \in Lists \ {"approvals", "transactions"} : Listed(l)' = Listed(l)
         /\ answer.ok => approvals'[i].status = "EXECUTED" /\ approvals'[i].checker = admin
<1>1. CASE UNCHANGED adminVars /\ ~answer.ok
  BY <1>1, StoreSame
<1>2. CASE /\ NotDecidable(admin, i) = None
           /\ Decide(admin, i, "EXECUTED")
           /\ Compensate(approvals[i].target)
           /\ UNCHANGED <<account, limits, log>>
  <2> DEFINE id == approvals[i].target
             k == Len(transactions) + 1
  <2>1. /\ approvals' \in Seq(Approval) /\ Len(approvals') = Len(approvals)
        /\ DOMAIN approvals' = DOMAIN approvals
        /\ approvals[i].status = "PENDING" /\ approvals[i].maker # admin
        /\ approvals'[i].status = "EXECUTED" /\ approvals'[i].checker = admin
        /\ approvals'[i].maker = approvals[i].maker /\ approvals'[i].target = id
        /\ \A j \in DOMAIN approvals \ {i} : approvals'[j] = approvals[j]
    BY <1>2, Decided
  <2>2. id \in DOMAIN transactions /\ transactions[id].status = "POSTED"
    BY <2>1 DEF StoreOK, ApprovalsOK
  <2> HIDE DEF id
  <2>3. /\ transactions' \in Seq(Transaction) /\ Len(transactions') <= MaxRows
        /\ DOMAIN transactions' = DOMAIN transactions \union {k} /\ k \notin DOMAIN transactions
        /\ k # 0 /\ 0 \notin DOMAIN transactions
        /\ transactions'[k].status = "POSTED" /\ transactions'[k].reverses = id
        /\ transactions'[id].status = "REVERSED"
        /\ transactions'[id].reverses = transactions[id].reverses
        /\ \A t \in DOMAIN transactions \ {id} : transactions'[t] = transactions[t]
    BY <1>2, <2>2, Compensated DEF id
  <2> HIDE DEF k
  <2>4. StoreTypeOK'
    BY <1>2, <2>1, <2>3 DEF StoreOK, StoreTypeOK
  <2>5. \A j \in DOMAIN approvals \ {i} :
          approvals[j].target = id => approvals[j].status \notin {"PENDING", "EXECUTED"}
    BY <2>1 DEF StoreOK, ApprovalsOK, Blocking, id
  <2>6. ApprovalsOK'
    <3>1. ASSUME NEW j \in DOMAIN approvals'
          PROVE  /\ approvals'[j].target \in DOMAIN transactions'
                 /\ approvals'[j].maker # approvals'[j].checker
                 /\ approvals'[j].status = "PENDING" =>
                      transactions'[approvals'[j].target].status = "POSTED"
      <4>1. CASE j = i
        BY <2>1, <2>2, <2>3, <4>1
      <4>2. CASE j # i
        BY <2>1, <2>3, <2>5, <4>2 DEF StoreOK, ApprovalsOK
      <4> QED BY <4>1, <4>2
    <3>2. ASSUME NEW j \in DOMAIN approvals', NEW m \in DOMAIN approvals',
                 approvals'[j].target = approvals'[m].target,
                 approvals'[j].status \in {"PENDING", "EXECUTED"},
                 approvals'[m].status \in {"PENDING", "EXECUTED"}
          PROVE  j = m
      BY <2>1, <2>5, <3>2 DEF StoreOK, ApprovalsOK, Blocking, id
    <3> QED BY <3>1, <3>2 DEF ApprovalsOK, Blocking
  <2>7. ReversalsOK'
    <3>1. ~\E r \in DOMAIN transactions : transactions[r].reverses = id
      BY <2>2 DEF StoreOK, ReversalsOK
    <3>2. \A r \in DOMAIN transactions : transactions'[r].reverses = transactions[r].reverses
      BY <2>3
    <3>3. ASSUME NEW t \in DOMAIN transactions \ {id}
          PROVE  /\ transactions'[t].status = "REVERSED" <=> transactions[t].status = "REVERSED"
                 /\ (\E j \in DOMAIN approvals' :
                       approvals'[j].target = t /\ approvals'[j].status = "EXECUTED")
                    <=> \E j \in DOMAIN approvals :
                       approvals[j].target = t /\ approvals[j].status = "EXECUTED"
                 /\ (\E r \in DOMAIN transactions' : transactions'[r].reverses = t)
                    <=> \E r \in DOMAIN transactions : transactions[r].reverses = t
      <4>1. transactions'[t].status = "REVERSED" <=> transactions[t].status = "REVERSED"
        BY <2>3
      <4>2. (\E j \in DOMAIN approvals' :
               approvals'[j].target = t /\ approvals'[j].status = "EXECUTED")
            <=> \E j \in DOMAIN approvals :
                  approvals[j].target = t /\ approvals[j].status = "EXECUTED"
        BY <2>1
      <4>3. (\E r \in DOMAIN transactions' : transactions'[r].reverses = t)
            <=> \E r \in DOMAIN transactions : transactions[r].reverses = t
        BY <2>3, <3>2
      <4> QED BY <4>1, <4>2, <4>3
    <3>4. ~\E r \in DOMAIN transactions : transactions[r].reverses = k
      BY <2>3 DEF StoreOK, ReversalsOK
    <3> SUFFICES ASSUME NEW t \in DOMAIN transactions'
                 PROVE  /\ transactions'[t].reverses \in DOMAIN transactions' \union {0}
                        /\ transactions'[t].status = "REVERSED" <=>
                             \E j \in DOMAIN approvals' :
                               approvals'[j].target = t /\ approvals'[j].status = "EXECUTED"
                        /\ transactions'[t].status = "REVERSED" <=>
                             \E r \in DOMAIN transactions' : transactions'[r].reverses = t
                        /\ \A r, s \in DOMAIN transactions' :
                             transactions'[r].reverses = t /\ transactions'[s].reverses = t => r = s
      BY DEF ReversalsOK
    <3>5. transactions'[t].reverses \in DOMAIN transactions' \union {0}
      BY <2>2, <2>3, <3>2 DEF StoreOK, ReversalsOK
    <3>6. CASE t = id
      BY <2>1, <2>2, <2>3, <3>1, <3>2, <3>5, <3>6
    <3>7. CASE t = k
      <4>1. ~\E j \in DOMAIN approvals' : approvals'[j].target = k
        BY <2>1, <2>2, <2>3 DEF StoreOK, ApprovalsOK
      <4>2. ~\E r \in DOMAIN transactions' : transactions'[r].reverses = k
        BY <2>2, <2>3, <3>2, <3>4
      <4> QED BY <2>3, <3>5, <3>7, <4>1, <4>2
    <3>8. CASE t \in DOMAIN transactions \ {id}
      <4>1. /\ transactions[t].status = "REVERSED" <=>
                 \E j \in DOMAIN approvals :
                   approvals[j].target = t /\ approvals[j].status = "EXECUTED"
            /\ transactions[t].status = "REVERSED" <=>
                 \E r \in DOMAIN transactions : transactions[r].reverses = t
            /\ \A r, s \in DOMAIN transactions :
                 transactions[r].reverses = t /\ transactions[s].reverses = t => r = s
        BY <3>8 DEF StoreOK, ReversalsOK
      <4>2. \A r, s \in DOMAIN transactions' :
              transactions'[r].reverses = t /\ transactions'[s].reverses = t => r = s
        BY <2>3, <3>2, <3>8, <4>1
      <4> QED BY <3>3, <3>5, <3>8, <4>1, <4>2
    <3> QED BY <2>3, <3>6, <3>7, <3>8
  <2>8. \A l \in Lists \ {"approvals", "transactions"} : Listed(l)' = Listed(l)
    BY <1>2 DEF Lists, Listed
  <2>9. Onward
    BY <2>1, <2>3 DEF Onward
  <2> QED BY <2>1, <2>4, <2>6, <2>7, <2>8, <2>9 DEF StoreOK
<1> QED BY <1>1, <1>2 DEF ApproveReversal, Refuse, Refuses

LEMMA HandleStep ==
  ASSUME StoreOK, NEW admin \in Admins, NEW op \in Ops, NEW arg, ArgOK(op, arg), NEW answer,
         Handle(admin, op, arg, answer)
  PROVE  /\ StoreOK' /\ Onward
         /\ \A l \in Lists \ Invalidates(op) : Listed(l)' = Listed(l)
         /\ answer.ok /\ op \in {"approve", "reject"} =>
              approvals'[arg].status = Verdict(op) /\ approvals'[arg].checker = admin
<1>1. CASE op = "propose"
  BY <1>1, ProposeStep DEF Handle, ArgOK, Invalidates
<1>2. CASE op = "approve"
  BY <1>2, ApproveStep DEF Handle, ArgOK, Invalidates, Verdict
<1>3. CASE op = "reject"
  BY <1>3, RejectStep DEF Handle, ArgOK, Invalidates, Verdict
<1>4. CASE op \in {"freeze", "unfreeze"}
  <2>1. PICK s \in {"active", "frozen"} : SetAccountStatus(arg, s, answer)
    BY <1>4 DEF Handle
  <2>2. StoreTypeOK'
    BY <1>4, <2>1 DEF StoreOK, StoreTypeOK, SetAccountStatus
  <2>3. ApprovalsOK' /\ ReversalsOK'
    BY <2>1 DEF StoreOK, ApprovalsOK, ReversalsOK, Blocking, SetAccountStatus
  <2> QED BY <1>4, <2>1, <2>2, <2>3
          DEF StoreOK, Onward, SetAccountStatus, Invalidates, Lists, Listed, PendingApprovals
<1>5. CASE op = "upsert"
  <2>1. UpsertLimits(arg[1], arg[2], answer)
    BY <1>5 DEF Handle
  <2>2. arg[1] \in Scopes /\ arg[2] \in Caps
    BY <1>5 DEF ArgOK
  <2>3. StoreTypeOK'
    BY <2>1, <2>2 DEF StoreOK, StoreTypeOK, UpsertLimits
  <2>4. ApprovalsOK' /\ ReversalsOK'
    BY <2>1 DEF StoreOK, ApprovalsOK, ReversalsOK, Blocking, UpsertLimits
  <2> QED BY <1>5, <2>1, <2>3, <2>4
          DEF StoreOK, Onward, UpsertLimits, Invalidates, Lists, Listed, PendingApprovals
<1> QED BY <1>1, <1>2, <1>3, <1>4, <1>5 DEF Ops

\* Other administrators do what this one may.
LEMMA ElsewhereStore ==
  ASSUME StoreOK, Elsewhere
  PROVE  StoreOK' /\ Onward
<1>1. PICK admin \in Admins \ {Me} :
        \/ \E id \in DOMAIN transactions : ProposeReversal(admin, id, Done)
        \/ \E i \in DOMAIN approvals :
             ApproveReversal(admin, i, Done) \/ RejectReversal(admin, i, Done)
        \/ \E a \in Accounts, s \in {"active", "frozen"} : SetAccountStatus(a, s, Done)
  BY DEF Elsewhere
<1>2. CASE \E id \in DOMAIN transactions : ProposeReversal(admin, id, Done)
  BY <1>2, ProposeStep
<1>3. CASE \E i \in DOMAIN approvals :
             ApproveReversal(admin, i, Done) \/ RejectReversal(admin, i, Done)
  BY <1>3, ApproveStep, RejectStep
<1>4. CASE \E a \in Accounts, s \in {"active", "frozen"} : SetAccountStatus(a, s, Done)
  <2>1. PICK a \in Accounts, s \in {"active", "frozen"} : SetAccountStatus(a, s, Done)
    BY <1>4
  <2>2. \/ s = "frozen" /\ Handle(admin, "freeze", a, Done)
        \/ s = "active" /\ Handle(admin, "unfreeze", a, Done)
    BY <2>1 DEF Handle
  <2>3. ArgOK("freeze", a) /\ ArgOK("unfreeze", a)
    BY DEF ArgOK
  <2> QED BY <2>2, <2>3, HandleStep DEF Ops
<1> QED BY <1>1, <1>2, <1>3, <1>4

\* What was there to be acted on and what was decided is still so.
LEMMA Lasting ==
  ASSUME StoreOK, Onward
  PROVE  /\ \A op \in Ops : \A arg : ArgOK(op, arg) => ArgOK(op, arg)'
         /\ \A op \in Ops : \A arg : ArgOK(op, arg) /\ Took(op, arg) => Took(op, arg)'
         /\ \A l \in Lists : \A v : Shown(l, v) => Shown(l, v)'
<1>1. ASSUME NEW op \in Ops, NEW arg, ArgOK(op, arg) PROVE ArgOK(op, arg)'
  BY <1>1 DEF ArgOK, Onward, Ops
<1>2. ASSUME NEW op \in Ops, NEW arg, ArgOK(op, arg), Took(op, arg) PROVE Took(op, arg)'
  <2>1. CASE op \in {"approve", "reject"}
    <3>1. arg \in DOMAIN approvals
      BY <1>2, <2>1 DEF ArgOK
    <3>2. approvals[arg].status # "PENDING"
      BY <1>2, <2>1 DEF Took, Verdict
    <3>3. approvals'[arg] = approvals[arg]
      BY <3>1, <3>2 DEF Onward
    <3> QED BY <1>2, <3>3 DEF Took
  <2> QED BY <2>1 DEF Took
<1>3. ASSUME NEW l \in Lists, NEW v, Shown(l, v) PROVE Shown(l, v)'
  BY <1>3 DEF Shown, Onward
<1> QED BY <1>1, <1>2, <1>3

\* Nothing that a list shows of the store has changed.
SameLists == \A l \in Lists : Listed(l)' = Listed(l)

LEMMA ListedIsShown ==
  ASSUME NEW l \in Lists
  PROVE  Shown(l, Listed(l))
BY DEF Shown, Listed, Lists, PendingApprovals

LEMMA InitStore == StoreInit /\ log \subseteq 1..MaxEntries => StoreOK
<1> SUFFICES ASSUME StoreInit, log \subseteq 1..MaxEntries PROVE StoreOK
  OBVIOUS
<1>1. PICK admin \in Admins \ {Me} :
        approvals = <<[status |-> "PENDING", target |-> 1, maker |-> admin, checker |-> None]>>
  BY DEF StoreInit
<1> DEFINE first == [status |-> "PENDING", target |-> 1, maker |-> admin, checker |-> None]
<1>2. /\ transactions = Fixture /\ Fixture \in Seq(Transaction) /\ 1 \in DOMAIN Fixture
      /\ Len(Fixture) \in Nat /\ Len(Fixture) <= MaxRows /\ MaxRows \in Nat /\ 1 \in 1..MaxRows
      /\ DOMAIN Fixture = 1..Len(Fixture) /\ Fixture[1].status = "POSTED"
      /\ \A t \in DOMAIN Fixture : Fixture[t].status # "REVERSED" /\ Fixture[t].reverses = 0
      /\ MaxApprovals \in Nat /\ MaxApprovals > 0
  BY AdminAssumptions, FixtureAssumptions DEF StoreInit, IsReversible
<1>3. first \in Approval
  BY <1>2 DEF Approval
<1>4. first.status = "PENDING" /\ first.target = 1 /\ first.maker = admin /\ first.checker = None
  OBVIOUS
<1> HIDE DEF first
<1>5. approvals \in Seq(Approval) /\ Len(approvals) = 1 /\ DOMAIN approvals = {1} /\ approvals[1] = first
  <2>1. approvals = <<first>>
    BY <1>1 DEF first
  <2> QED BY <1>3, <2>1
<1>6. StoreTypeOK
  BY <1>2, <1>5 DEF StoreTypeOK, StoreInit
<1>7. ApprovalsOK
  BY <1>2, <1>4, <1>5, AdminAssumptions DEF ApprovalsOK
<1>8. ReversalsOK
  BY <1>2, <1>4, <1>5 DEF ReversalsOK
<1> QED BY <1>6, <1>7, <1>8 DEF StoreOK

-----------------------------------------------------------------------------
(* The tab.                                                                 *)

LEMMA InitConsole == Init => ConsoleInv
<1> SUFFICES ASSUME Init PROVE ConsoleInv
  OBVIOUS
<1>0. /\ MaxEntries \in Nat /\ LastPage \in Nat /\ MaxSends \in Nat /\ MaxUpsets \in Nat
      /\ log \subseteq 1..MaxEntries
  BY AdminAssumptions, ConsoleAssumptions DEF Init
<1>1. StoreOK
  BY <1>0, InitStore DEF Init
<1>2. PlaceOK
  BY <1>0 DEF Init, PlaceOK
<1>3. HooksOK
  BY DEF Init, HooksOK, HookOK, Fresh, Untriggered
<1>4. CallsOK /\ SentOK
  BY DEF Init, CallsOK, SentOK, Fresh, Untriggered
<1>5. ListsOK
  <2>1. ASSUME NEW l \in Lists
        PROVE  cache[l] = None /\ reading[l] \in {Unasked, Asked}
    BY DEF Init
  <2>2. cache = [l \in Lists |-> cache[l]] /\ reading = [l \in Lists |-> reading[l]]
    BY DEF Init
  <2> QED BY <2>1, <2>2 DEF ListsOK, ListOK, ListCurrent, Unasked, Asked
<1> QED BY <1>1, <1>2, <1>3, <1>4, <1>5 DEF ConsoleInv, TabOK

\* A step of which the lists and the calls see nothing.
LEMMA CallsSame ==
  ASSUME ConsoleInv, Onward, UNCHANGED <<hooks, sends, calls>>
  PROVE  HooksOK' /\ CallsOK' /\ SentOK'
<1>1. ASSUME NEW op \in Ops PROVE HookOK(op)'
  <2>1. HookOK(op)
    BY DEF ConsoleInv, TabOK, HooksOK
  <2>2. hooks[op].phase # "idle" => ArgOK(op, hooks[op].arg)'
    BY <2>1, Lasting DEF ConsoleInv, HookOK
  <2>3. hooks[op].phase = "done" => Took(op, hooks[op].arg)'
    BY <2>1, Lasting DEF ConsoleInv, HookOK
  <2> QED BY <2>1, <2>2, <2>3 DEF HookOK, ArgOK, Took
<1>2. ASSUME NEW c \in calls PROVE CallOK(c)'
  <2>1. CallOK(c)
    BY DEF ConsoleInv, TabOK, CallsOK
  <2>2. c.op \in Ops /\ ArgOK(c.op, c.arg)' /\ (c.answer = Done => Took(c.op, c.arg)')
    BY <2>1, Lasting DEF ConsoleInv, CallOK
  <2> QED BY <2>1, <2>2 DEF CallOK
<1> QED BY <1>1, <1>2 DEF ConsoleInv, TabOK, HooksOK, CallsOK, SentOK

LEMMA ListsSame ==
  ASSUME ConsoleInv, Onward, SameLists,
         UNCHANGED <<cache, reading, untold>>,
         \A l \in Lists : Promised(l) => Promised(l)'
  PROVE  ListsOK'
<1>1. ASSUME NEW l \in Lists PROVE ListOK(l)' /\ ListCurrent(l)'
  <2>1. ListOK(l) /\ ListCurrent(l)
    BY DEF ConsoleInv, TabOK, ListsOK
  <2>2. ListOK(l)'
    BY <2>1, Lasting DEF ConsoleInv, ListOK
  <2>3. ListCurrent(l)'
    BY <2>1 DEF ListCurrent, SameLists
  <2> QED BY <2>2, <2>3
<1> QED BY <1>1 DEF ConsoleInv, TabOK, ListsOK

LEMMA AdminSame ==
  ASSUME ConsoleInv, UNCHANGED adminVars
  PROVE  StoreOK' /\ Onward /\ SameLists
BY StoreSame DEF ConsoleInv, SameLists

\* A step that only moves about, or turns pages.
LEMMA MoveStep ==
  ASSUME ConsoleInv, StoreOK', Onward, SameLists, PlaceOK',
         UNCHANGED <<hooks, sends, calls, cache, reading, stale, untold>>
  PROVE  ConsoleInv'
<1>1. \A l \in Lists : Promised(l) => Promised(l)'
  BY DEF Promised, Awaited
<1> QED BY <1>1, CallsSame, ListsSame DEF ConsoleInv, TabOK

LEMMA TriggerStep ==
  ASSUME ConsoleInv, NEW op \in Ops, NEW arg, ArgOK(op, arg), Trigger(op, arg),
         target' \in {None, target}
  PROVE  ConsoleInv'
<1>1. StoreOK' /\ Onward /\ SameLists
  BY AdminSame DEF Trigger
<1>2. sends \in Nat /\ sends' = sends + 1 /\ MaxSends \in Nat /\ sends' <= MaxSends
  BY ConsoleAssumptions DEF ConsoleInv, TabOK, PlaceOK, Trigger
<1>3. PlaceOK'
  BY <1>1, <1>2 DEF ConsoleInv, TabOK, PlaceOK, Trigger, Onward, place, auditVars
<1>4. ArgOK(op, arg)'
  BY <1>1, Lasting DEF ConsoleInv
<1> DEFINE new == [op |-> op, arg |-> arg, at |-> sends', by |-> "tab", answer |-> None]
           h == [phase |-> "loading", arg |-> arg, at |-> sends']
<1>5. calls' = calls \union {new} /\ hooks' = [hooks EXCEPT ![op] = h]
  BY DEF Trigger
<1>6. /\ hooks' = [o \in Ops |-> hooks'[o]] /\ hooks'[op] = h
      /\ \A o \in Ops \ {op} : hooks'[o] = hooks[o]
  BY <1>5 DEF ConsoleInv, TabOK, HooksOK
<1>7. HooksOK'
  <2> SUFFICES ASSUME NEW o \in Ops PROVE HookOK(o)'
    BY <1>6 DEF HooksOK
  <2>1. CASE o = op
    BY <1>2, <1>4, <1>6, <2>1 DEF HookOK
  <2>2. CASE o # op
    <3>1. HookOK(o)
      BY DEF ConsoleInv, TabOK, HooksOK
    <3>2. hooks'[o] = hooks[o]
      BY <1>6, <2>2
    <3>3. PICK a : a = hooks[o].arg
      OBVIOUS
    <3>4. hooks[o].phase # "idle" => ArgOK(o, a)'
      BY <1>1, <3>1, <3>3, Lasting DEF ConsoleInv, HookOK
    <3>5. hooks[o].phase = "done" => Took(o, a)'
      BY <1>1, <3>1, <3>3, Lasting DEF ConsoleInv, HookOK
    <3>6. (hooks[o].phase # "idle" => ArgOK(o, hooks[o].arg))'
      BY <3>2, <3>3, <3>4 DEF ArgOK
    <3>7. (hooks[o].phase = "done" => Took(o, hooks[o].arg))'
      BY <3>2, <3>3, <3>5 DEF Took
    <3> QED BY <1>2, <3>1, <3>2, <3>6, <3>7 DEF HookOK
  <2> QED BY <2>1, <2>2
<1>8. CallsOK'
  <2> SUFFICES ASSUME NEW c \in calls' PROVE CallOK(c)'
    BY DEF CallsOK
  <2>1. CASE c = new
    <3>1. c.answer # Done
      BY <2>1, ConsoleAssumptions DEF Answers
    <3> QED BY <1>2, <1>4, <1>6, <2>1, <3>1 DEF CallOK
  <2>2. CASE c \in calls
    <3>1. CallOK(c)
      BY <2>2 DEF ConsoleInv, TabOK, CallsOK
    <3>2. c.op \in Ops /\ ArgOK(c.op, c.arg)' /\ (c.answer = Done => Took(c.op, c.arg)')
      BY <1>1, <3>1, Lasting DEF ConsoleInv, CallOK
    <3>3. c.at \in 1..sends' /\ c.at # sends'
      BY <1>2, <3>1 DEF CallOK
    <3>4. hooks'[c.op].at = c.at => hooks'[c.op].arg = c.arg
      BY <1>6, <3>1, <3>2, <3>3 DEF CallOK
    <3> QED BY <3>1, <3>2, <3>3, <3>4 DEF CallOK
  <2> QED BY <1>5, <2>1, <2>2
<1>9. \A l \in Lists : Promised(l) => Promised(l)'
  BY <1>5 DEF Promised, Awaited, Trigger
<1>10. ListsOK'
  BY <1>1, <1>9, ListsSame DEF Trigger
<1>11. SentOK'
  <2>1. ASSUME NEW o \in Ops PROVE hooks[o].at \in 0..sends
    BY DEF ConsoleInv, TabOK, HooksOK, HookOK
  <2>2. \A o \in Ops \ {op} : hooks'[o] = hooks[o]
    BY <1>6
  <2>3. hooks'[op].at = sends + 1 /\ hooks'[op].phase = "loading"
    BY <1>2, <1>6
  <2>4. ASSUME NEW o \in Ops, NEW p \in Ops, hooks'[o].at = hooks'[p].at
        PROVE  o = p \/ hooks'[o].at = 0
    BY <1>2, <2>1, <2>2, <2>3, <2>4 DEF ConsoleInv, TabOK, SentOK
  <2>5. ASSUME NEW c \in calls
        PROVE  /\ c.op \in Ops /\ c.at \in 1..sends
               /\ \A d \in calls : d.at = c.at => d = c
               /\ hooks[c.op].at = c.at /\ c.by = "tab" => hooks[c.op].phase = "loading"
               /\ \/ c.at <= hooks[c.op].at
                  \/ \A o \in Ops : hooks[o].at # 0 => c.at < hooks[o].at
    BY DEF ConsoleInv, TabOK, CallsOK, CallOK, SentOK
  <2>6. new.op = op /\ new.at = sends + 1
    BY <1>2
  <2> HIDE DEF new, h
  <2>7. ASSUME NEW c \in calls', NEW d \in calls', d.at = c.at
        PROVE  d = c
    BY <1>2, <1>5, <2>5, <2>6, <2>7
  <2>8. ASSUME NEW c \in calls', hooks'[c.op].at = c.at, c.by = "tab"
        PROVE  hooks'[c.op].phase = "loading"
    BY <1>2, <1>5, <2>2, <2>3, <2>5, <2>6, <2>8
  <2>9. ASSUME NEW c \in calls'
        PROVE  \/ c.at <= hooks'[c.op].at
               \/ \A o \in Ops : hooks'[o].at # 0 => c.at < hooks'[o].at
    <3>1. CASE c = new \/ (c \in calls /\ c.op = op)
      BY <1>2, <2>3, <2>5, <2>6, <3>1
    <3>2. CASE c \in calls /\ c.op # op
      BY <1>2, <2>2, <2>3, <2>5, <3>2
    <3> QED BY <1>5, <3>1, <3>2
  <2> QED BY <2>4, <2>7, <2>8, <2>9 DEF SentOK
<1> QED BY <1>1, <1>3, <1>7, <1>8, <1>10, <1>11 DEF ConsoleInv, TabOK

LEMMA TargetStep ==
  ASSUME ConsoleInv, (\E id \in 1..MaxRows : BeginReverse(id)) \/ CancelReverse
  PROVE  ConsoleInv'
<1>1. /\ UNCHANGED <<adminVars, place, hooks, sends, calls, cache, reading, stale, auditVars,
                     upsets, untold>>
      /\ \/ target' = None
         \/ /\ screen = "reversals" /\ cache["transactions"] # None
            /\ target' \in DOMAIN cache["transactions"]
  BY DEF BeginReverse, CancelReverse
<1>2. StoreOK' /\ Onward /\ SameLists
  BY <1>1, AdminSame
<1>3. cache["transactions"] # None => DOMAIN cache["transactions"] \subseteq DOMAIN transactions
  BY DEF ConsoleInv, TabOK, ListsOK, ListOK, Shown, Lists
<1>4. PlaceOK'
  BY <1>1, <1>2, <1>3 DEF ConsoleInv, TabOK, PlaceOK, Onward, place, auditVars
<1> QED BY <1>1, <1>2, <1>4, MoveStep

LEMMA AskStep ==
  ASSUME ConsoleInv,
         \/ ConfirmReverse
         \/ \E op \in {"approve", "reject"}, i \in 1..MaxApprovals : Decision(op, i)
         \/ \E a \in Accounts : FreezeOrUnfreeze(a)
         \/ \E s \in Scopes, caps \in Caps : SaveLimits(s, caps)
  PROVE  ConsoleInv'
<1>1. CASE ConfirmReverse
  <2>1. target \in DOMAIN transactions /\ target' = None /\ Trigger("propose", target)
    BY <1>1 DEF ConfirmReverse, ConsoleInv, TabOK, PlaceOK
  <2>2. "propose" \in Ops /\ ArgOK("propose", target)
    BY <2>1 DEF ArgOK, Ops
  <2> QED BY <2>1, <2>2, TriggerStep
<1>2. ASSUME NEW op \in {"approve", "reject"}, NEW i \in 1..MaxApprovals, Decision(op, i)
      PROVE  ConsoleInv'
  <2>1. cache["approvals"] # None /\ i \in cache["approvals"] /\ Trigger(op, i) /\ target' = target
    BY <1>2 DEF Decision
  <2>2. i \in DOMAIN approvals
    BY <2>1 DEF ConsoleInv, TabOK, ListsOK, ListOK, Shown, Lists
  <2>3. op \in Ops /\ ArgOK(op, i)
    BY <2>2 DEF ArgOK, Ops
  <2> QED BY <2>1, <2>3, TriggerStep
<1>3. ASSUME NEW a \in Accounts, FreezeOrUnfreeze(a)
      PROVE  ConsoleInv'
  <2>1. PICK op \in {"freeze", "unfreeze"} : Trigger(op, a)
    BY <1>3 DEF FreezeOrUnfreeze
  <2>2. op \in Ops /\ ArgOK(op, a) /\ target' = target
    BY <1>3 DEF ArgOK, Ops, FreezeOrUnfreeze
  <2> QED BY <2>1, <2>2, TriggerStep
<1>4. ASSUME NEW s \in Scopes, NEW caps \in Caps, SaveLimits(s, caps)
      PROVE  ConsoleInv'
  <2>1. Trigger("upsert", <<s, caps>>) /\ target' = target
    BY <1>4 DEF SaveLimits
  <2>2. "upsert" \in Ops /\ ArgOK("upsert", <<s, caps>>)
    BY DEF ArgOK, Ops
  <2> QED BY <2>1, <2>2, TriggerStep
<1> QED BY <1>1, <1>2, <1>3, <1>4

LEMMA OpenStep ==
  ASSUME ConsoleInv, NEW s \in tour, Open(s)
  PROVE  ConsoleInv'
<1>1. StoreOK' /\ Onward /\ SameLists
  BY AdminSame DEF Open
<1>2. PlaceOK'
  BY ConsoleAssumptions DEF ConsoleInv, TabOK, PlaceOK, Open
<1>3. HooksOK'
  BY DEF ConsoleInv, TabOK, PlaceOK, Open, HooksOK, HookOK, Fresh, Untriggered
<1>4. CallsOK'
  <2> SUFFICES ASSUME NEW c \in calls PROVE CallOK(c)'
    BY DEF CallsOK, Open
  <2>1. CallOK(c)
    BY DEF ConsoleInv, TabOK, CallsOK
  <2>2. c.op \in Ops /\ ArgOK(c.op, c.arg)' /\ (c.answer = Done => Took(c.op, c.arg)')
    BY <1>1, <2>1, Lasting DEF ConsoleInv, CallOK
  <2>3. hooks'[c.op].at = 0 /\ c.at # 0 /\ sends' = sends
    BY <2>1, <2>2 DEF Open, Fresh, Untriggered, CallOK
  <2> QED BY <2>1, <2>2, <2>3 DEF CallOK
<1>5. ListsOK'
  <2>1. reading' = [l \in Lists |-> reading'[l]] /\ cache' = cache /\ untold' = untold
    BY DEF Open
  <2>2. ASSUME NEW l \in Lists
        PROVE  reading'[l] = reading[l] \/ reading'[l] = Asked
    BY DEF Open
  <2>3. ASSUME NEW l \in Lists PROVE ListOK(l)' /\ ListCurrent(l)'
    <3>1. ListOK(l) /\ ListCurrent(l)
      BY DEF ConsoleInv, TabOK, ListsOK
    <3>2. ListOK(l)'
      BY <1>1, <2>1, <2>2, <3>1, Lasting DEF ConsoleInv, ListOK
    <3>3. Promised(l) => Promised(l)'
      BY DEF Promised, Awaited, Open
    <3>4. ListCurrent(l)'
      BY <1>1, <2>1, <2>2, <3>1, <3>3 DEF ListCurrent, SameLists, Asked, Unasked
    <3> QED BY <3>2, <3>4
  <2> QED BY <2>1, <2>3 DEF ConsoleInv, TabOK, ListsOK
<1>6. SentOK'
  <2>1. \A o \in Ops : hooks'[o].at = 0
    BY DEF Open, Fresh, Untriggered
  <2>2. \A c \in calls : c.op \in Ops /\ c.at \in 1..sends /\ \A d \in calls : d.at = c.at => d = c
    BY DEF ConsoleInv, TabOK, CallsOK, CallOK, SentOK
  <2>3. calls' = calls
    BY DEF Open
  <2>4. \A c \in calls' : hooks'[c.op].at # c.at
    BY <2>1, <2>2, <2>3
  <2> QED BY <2>1, <2>2, <2>3, <2>4 DEF SentOK
<1> QED BY <1>1, <1>2, <1>3, <1>4, <1>5, <1>6 DEF ConsoleInv, TabOK

LEMMA PageStep ==
  ASSUME ConsoleInv,
         ReadPage \/ NextPage \/ PreviousPage \/ (\E p \in 0..LastPage : ForgetPage(p)) \/ Grow
  PROVE  ConsoleInv'
<1>0. UNCHANGED <<transactions, approvals, account, limits, place, deskVars, upsets>>
  BY DEF ReadPage, NextPage, PreviousPage, ForgetPage, Grow, Record, adminVars
<1>1. log \subseteq 1..MaxEntries /\ MaxEntries \in Nat /\ LastPage \in Nat
  BY AdminAssumptions, ConsoleAssumptions DEF ConsoleInv, StoreOK, StoreTypeOK
<1>2. log' \subseteq 1..MaxEntries
  BY <1>1 DEF ReadPage, NextPage, PreviousPage, ForgetPage, Grow, Record, adminVars
<1>3. StoreOK' /\ Onward /\ SameLists
  <2>1. StoreTypeOK'
    BY <1>0, <1>2 DEF ConsoleInv, StoreOK, StoreTypeOK
  <2>2. ApprovalsOK' /\ ReversalsOK'
    BY <1>0 DEF ConsoleInv, StoreOK, ApprovalsOK, ReversalsOK, Blocking
  <2> QED BY <1>0, <2>1, <2>2 DEF StoreOK, Onward, SameLists, Listed, PendingApprovals
<1>4. page' \in 0..LastPage /\ pages' \in [0..LastPage -> (SUBSET (1..MaxEntries)) \union {None}]
  <2> DEFINE Snapshots == (SUBSET (1..MaxEntries)) \union {None}
  <2>1. page \in 0..LastPage /\ pages \in [0..LastPage -> Snapshots] /\ log \in Snapshots
        /\ None \in Snapshots
    BY <1>1 DEF ConsoleInv, TabOK, PlaceOK
  <2> HIDE DEF Snapshots
  <2>2. page' \in 0..LastPage /\ pages' \in [0..LastPage -> Snapshots]
    BY <1>1, <2>1 DEF ReadPage, NextPage, PreviousPage, ForgetPage, Grow, auditVars
  <2> QED BY <2>2 DEF Snapshots
<1>5. PlaceOK'
  BY <1>0, <1>3, <1>4 DEF ConsoleInv, TabOK, PlaceOK, place, deskVars, Onward
<1> QED BY <1>0, <1>3, <1>5, MoveStep DEF deskVars

-----------------------------------------------------------------------------
(* The lists.                                                               *)

\* A step of the lists: each is left with what it may show.
LEMMA ListsStep ==
  ASSUME ConsoleInv, UNCHANGED <<adminVars, place, target, hooks, sends, calls, auditVars, upsets>>,
         stale' \subseteq Lists, untold' \subseteq Lists,
         cache' = [l \in Lists |-> cache'[l]], reading' = [l \in Lists |-> reading'[l]],
         \A l \in Lists : ListOK(l)' /\ ListCurrent(l)'
  PROVE  ConsoleInv'
<1>1. StoreOK' /\ Onward
  BY AdminSame
<1>2. PlaceOK'
  BY <1>1 DEF ConsoleInv, TabOK, PlaceOK, place, auditVars, Onward
<1>3. HooksOK' /\ CallsOK' /\ SentOK'
  BY <1>1, CallsSame
<1> QED BY <1>1, <1>2, <1>3 DEF ConsoleInv, TabOK, ListsOK

LEMMA RefreshStep ==
  ASSUME ConsoleInv, Refresh
  PROVE  ConsoleInv'
<1>1. Onward /\ SameLists
  BY AdminSame DEF Refresh
<1>2. ASSUME NEW l \in Lists PROVE ListOK(l)' /\ ListCurrent(l)'
  <2>1. ListOK(l) /\ ListCurrent(l) /\ reading[l] = Unasked
    BY DEF ConsoleInv, TabOK, ListsOK, Refresh
  <2>2. /\ reading'[l] = IF l \in stale \intersect Shows[screen] THEN Asked ELSE Unasked
        /\ cache'[l] = IF l \in stale \ Shows[screen] THEN None ELSE cache[l]
    BY DEF Refresh
  <2>3. ListOK(l)'
    BY <1>1, <2>1, <2>2, Lasting DEF ConsoleInv, ListOK
  <2>4. Awaited(calls) = {} /\ untold' = untold
    BY DEF Refresh
  <2>5. ListCurrent(l)'
    BY <1>1, <2>1, <2>2, <2>4 DEF ListCurrent, Promised, SameLists, Asked, Unasked
  <2> QED BY <2>3, <2>5
<1> QED BY <1>2, ListsStep DEF Refresh, ConsoleInv, TabOK, PlaceOK

LEMMA ForgetStep ==
  ASSUME ConsoleInv, NEW k \in Lists, Forget(k)
  PROVE  ConsoleInv'
<1>1. Onward /\ SameLists
  BY AdminSame DEF Forget
<1>2. cache' = [l \in Lists |-> IF l = k THEN None ELSE cache[l]] /\ reading' = reading
  BY DEF Forget, ConsoleInv, TabOK, ListsOK
<1>3. ASSUME NEW l \in Lists PROVE ListOK(l)' /\ ListCurrent(l)'
  <2>1. ListOK(l) /\ ListCurrent(l)
    BY DEF ConsoleInv, TabOK, ListsOK
  <2>2. cache'[l] \in {None, cache[l]}
    BY <1>2
  <2>3. ListOK(l)'
    BY <1>1, <1>2, <2>1, <2>2, Lasting DEF ConsoleInv, ListOK
  <2>4. (Promised(l) => Promised(l)') /\ untold' = untold
    BY DEF Forget, Promised, Awaited
  <2>5. ListCurrent(l)'
    BY <1>1, <1>2, <2>1, <2>2, <2>4 DEF ListCurrent, SameLists
  <2> QED BY <2>3, <2>5
<1> QED BY <1>2, <1>3, ListsStep DEF Forget, ConsoleInv, TabOK, PlaceOK, ListsOK

LEMMA ServeReadStep ==
  ASSUME ConsoleInv, NEW k \in Lists, ServeRead(k)
  PROVE  ConsoleInv'
<1>1. Onward /\ SameLists
  BY AdminSame DEF ServeRead
<1>2. /\ reading' = [l \in Lists |-> IF l = k THEN Answered(Listed(k)) ELSE reading[l]]
      /\ cache' = cache /\ untold' = untold \ {k}
  BY DEF ServeRead, ConsoleInv, TabOK, ListsOK
<1>3. ASSUME NEW l \in Lists PROVE ListOK(l)' /\ ListCurrent(l)'
  <2>1. ListOK(l) /\ ListCurrent(l)
    BY DEF ConsoleInv, TabOK, ListsOK
  <2>2. (Promised(l) => Promised(l)')
    BY DEF ServeRead, Promised, Awaited
  <2>3. CASE l = k
    <3>1. PICK v : v = Listed(l)
      OBVIOUS
    <3>2. Shown(l, v)'
      BY <1>1, <3>1, ListedIsShown, Lasting DEF ConsoleInv
    <3>3. reading'[l] = [phase |-> "answered", value |-> v] /\ Listed(l)' = v
      BY <1>1, <1>2, <2>3, <3>1 DEF Answered, SameLists
    <3>4. ListOK(l)'
      <4>1. cache'[l] # None => Shown(l, cache[l])'
        BY <1>1, <1>2, <2>1, Lasting DEF ConsoleInv, ListOK
      <4> QED BY <1>2, <3>2, <3>3, <4>1 DEF ListOK, Answered, Shown
    <3>5. ListCurrent(l)'
      BY <3>3 DEF ListCurrent, Unasked
    <3> QED BY <3>4, <3>5
  <2>4. CASE l # k
    <3>1. reading'[l] = reading[l]
      BY <1>2, <2>4
    <3>2. ListOK(l)'
      BY <1>1, <1>2, <2>1, <3>1, Lasting DEF ConsoleInv, ListOK
    <3>3. ListCurrent(l)'
      BY <1>1, <1>2, <2>1, <2>2, <2>4, <3>1 DEF ListCurrent, SameLists
    <3> QED BY <3>2, <3>3
  <2> QED BY <2>3, <2>4
<1> QED BY <1>2, <1>3, ListsStep DEF ServeRead, ConsoleInv, TabOK, PlaceOK, ListsOK

LEMMA DeliverReadStep ==
  ASSUME ConsoleInv, NEW k \in Lists, DeliverRead(k)
  PROVE  ConsoleInv'
<1>1. Onward /\ SameLists
  BY AdminSame DEF DeliverRead
<1>2. /\ reading' = [l \in Lists |-> IF l = k THEN Unasked ELSE reading[l]]
      /\ cache' = [l \in Lists |-> IF l = k THEN reading[k].value ELSE cache[l]]
      /\ untold' = untold /\ reading[k].phase = "answered"
  BY DEF DeliverRead, ConsoleInv, TabOK, ListsOK
<1>3. ASSUME NEW l \in Lists PROVE ListOK(l)' /\ ListCurrent(l)'
  <2>1. ListOK(l) /\ ListCurrent(l)
    BY DEF ConsoleInv, TabOK, ListsOK
  <2>2. (Promised(l) => Promised(l)')
    BY DEF DeliverRead, Promised, Awaited
  <2>3. CASE l = k
    <3>1. PICK v : v = reading[l].value
      OBVIOUS
    <3>2. Shown(l, v) /\ cache'[l] = v /\ reading'[l] = Unasked
      BY <1>2, <2>1, <2>3, <3>1 DEF ListOK, Unasked, Asked
    <3>3. Shown(l, v)'
      BY <1>1, <3>2, Lasting DEF ConsoleInv
    <3>4. ListOK(l)'
      BY <3>2, <3>3 DEF ListOK, Shown
    <3>5. ListCurrent(l)'
      BY <1>1, <1>2, <2>1, <2>2, <2>3, <3>1, <3>2 DEF ListCurrent, Unasked, SameLists
    <3> QED BY <3>4, <3>5
  <2>4. CASE l # k
    <3>1. reading'[l] = reading[l] /\ cache'[l] = cache[l]
      BY <1>2, <2>4
    <3>2. ListOK(l)'
      BY <1>1, <2>1, <3>1, Lasting DEF ConsoleInv, ListOK
    <3>3. ListCurrent(l)'
      BY <1>1, <1>2, <2>1, <2>2, <3>1 DEF ListCurrent, SameLists
    <3> QED BY <3>2, <3>3
  <2> QED BY <2>3, <2>4
<1> QED BY <1>2, <1>3, ListsStep DEF DeliverRead, ConsoleInv, TabOK, PlaceOK, ListsOK

-----------------------------------------------------------------------------
(* The calls.                                                               *)

LEMMA ServeStep ==
  ASSUME ConsoleInv, NEW c \in calls, Serve(c)
  PROVE  ConsoleInv'
<1>1. CallOK(c) /\ c.answer = None
  BY DEF ConsoleInv, TabOK, CallsOK, Serve
<1>2. PICK answer \in Answers :
        /\ Handle(Me, c.op, c.arg, answer)
        /\ calls' = IF c.by = "nobody" THEN calls \ {c}
                    ELSE (calls \ {c}) \union {[c EXCEPT !.answer = answer]}
  BY DEF Serve
<1>3. /\ StoreOK' /\ Onward
      /\ \A l \in Lists \ Invalidates(c.op) : Listed(l)' = Listed(l)
      /\ answer.ok /\ c.op \in {"approve", "reject"} =>
           approvals'[c.arg].status = Verdict(c.op) /\ approvals'[c.arg].checker = Me
  BY <1>1, <1>2, HandleStep, AdminAssumptions DEF ConsoleInv, CallOK
<1>4. /\ untold' = IF c.by = "nobody" THEN untold \union {l \in Lists : Changed(l)} ELSE untold
      /\ UNCHANGED <<place, target, hooks, sends, cache, reading, stale, auditVars, upsets>>
  BY DEF Serve
<1>5. PlaceOK'
  BY <1>3, <1>4 DEF ConsoleInv, TabOK, PlaceOK, place, auditVars, Onward
<1>6. HooksOK'
  <2> SUFFICES ASSUME NEW op \in Ops PROVE HookOK(op)'
    BY <1>4 DEF ConsoleInv, TabOK, HooksOK
  <2>1. HookOK(op)
    BY DEF ConsoleInv, TabOK, HooksOK
  <2>2. hooks[op].phase # "idle" => ArgOK(op, hooks[op].arg)'
    BY <1>3, <1>4, <2>1, Lasting DEF ConsoleInv, HookOK
  <2>3. hooks[op].phase = "done" => Took(op, hooks[op].arg)'
    BY <1>3, <1>4, <2>1, Lasting DEF ConsoleInv, HookOK
  <2> QED BY <1>4, <2>1, <2>2, <2>3 DEF HookOK, ArgOK, Took
<1> DEFINE told == [c EXCEPT !.answer = answer]
<1>7. /\ told = [op |-> c.op, arg |-> c.arg, at |-> c.at, by |-> c.by, answer |-> answer]
      /\ told.op = c.op /\ told.arg = c.arg /\ told.at = c.at /\ told.by = c.by
      /\ told.answer = answer
  BY <1>1 DEF CallOK
<1> HIDE DEF told
<1>8. calls' \subseteq calls \union {told} /\ (told \in calls' => c.by = "tab")
      /\ (c.by = "tab" => told \in calls') /\ calls \ {c} \subseteq calls'
  <2>1. told \notin calls \/ told # c
    BY <1>1, <1>7, ConsoleAssumptions
  <2>2. c.by # "tab" => c.by = "nobody"
    BY <1>1 DEF CallOK
  <2>3. calls' = IF c.by = "nobody" THEN calls \ {c} ELSE (calls \ {c}) \union {told}
    BY <1>2 DEF told
  <2>4. ASSUME c.by = "nobody" PROVE told \notin calls
    <3>1. SUFFICES ASSUME told \in calls PROVE FALSE
      OBVIOUS
    <3>2. CallOK(told)
      BY <3>1 DEF ConsoleInv, TabOK, CallsOK
    <3> QED BY <1>7, <2>4, <3>2, ConsoleAssumptions DEF CallOK
  <2> QED BY <2>2, <2>3, <2>4
<1>9. CallsOK'
  <2> SUFFICES ASSUME NEW d \in calls' PROVE CallOK(d)'
    BY DEF CallsOK
  <2>1. CASE d = told
    <3>1. c.op \in Ops /\ ArgOK(c.op, c.arg)'
      BY <1>1, <1>3, Lasting DEF ConsoleInv, CallOK
    <3>2. answer = Done => Took(c.op, c.arg)'
      BY <1>3 DEF Done, Took
    <3>3. c.by = "tab"
      BY <1>8, <2>1
    <3>4. hooks'[c.op].at = c.at => hooks'[c.op].arg = c.arg
      BY <1>1, <1>4 DEF CallOK
    <3> QED BY <1>1, <1>4, <1>7, <2>1, <3>1, <3>2, <3>3, <3>4 DEF CallOK
  <2>2. CASE d \in calls
    <3>1. CallOK(d)
      BY <2>2 DEF ConsoleInv, TabOK, CallsOK
    <3>2. d.op \in Ops /\ ArgOK(d.op, d.arg)' /\ (d.answer = Done => Took(d.op, d.arg)')
      BY <1>3, <3>1, Lasting DEF ConsoleInv, CallOK
    <3> QED BY <1>4, <3>1, <3>2 DEF CallOK
  <2> QED BY <1>8, <2>1, <2>2
<1>10. ListsOK'
  <2> SUFFICES ASSUME NEW l \in Lists PROVE ListOK(l)' /\ ListCurrent(l)'
    BY <1>4 DEF ConsoleInv, TabOK, ListsOK
  <2>1. ListOK(l) /\ ListCurrent(l)
    BY DEF ConsoleInv, TabOK, ListsOK
  <2>2. ListOK(l)'
    BY <1>3, <1>4, <2>1, Lasting DEF ConsoleInv, ListOK
  <2>3. Promised(l) => Promised(l)'
    <3>1. CASE l \in stale
      BY <1>4, <3>1 DEF Promised
    <3>2. ASSUME NEW d \in Awaited(calls), d.answer # None, l \in Invalidates(d.op)
          PROVE  Promised(l)'
      <4>1. d \in calls' /\ d.by = "tab"
        BY <1>1, <1>8, <3>2 DEF Awaited
      <4> QED BY <3>2, <4>1 DEF Promised, Awaited
    <3> QED BY <3>1, <3>2 DEF Promised
  <2>4. CASE Listed(l)' = Listed(l)
    BY <1>4, <2>1, <2>2, <2>3, <2>4 DEF ListCurrent
  <2>5. CASE Listed(l)' # Listed(l) /\ c.by = "nobody"
    <3>1. l \in untold'
      BY <1>4, <2>5 DEF Changed
    <3> QED BY <2>2, <3>1 DEF ListCurrent
  <2>6. CASE Listed(l)' # Listed(l) /\ c.by # "nobody"
    <3>1. c.by = "tab" /\ l \in Invalidates(c.op)
      BY <1>1, <1>3, <2>6 DEF CallOK
    <3>2. told \in Awaited(calls)' /\ told.answer # None
      BY <1>7, <1>8, <3>1, ConsoleAssumptions DEF Awaited
    <3>3. Promised(l)'
      BY <1>7, <3>1, <3>2 DEF Promised
    <3> QED BY <2>2, <3>3 DEF ListCurrent
  <2> QED BY <2>2, <2>4, <2>5, <2>6
<1>11. SentOK'
  <2>1. ASSUME NEW d \in calls'
        PROVE  \E e \in calls : /\ d.op = e.op /\ d.at = e.at /\ d.by = e.by
                               /\ d = IF e = c THEN told ELSE e
    <3>1. d = told \/ (d \in calls /\ d # c)
      BY <1>1, <1>2, <1>8 DEF told
    <3> QED BY <1>7, <3>1
  <2>2. SentOK
    BY DEF ConsoleInv, TabOK
  <2>3. \A d, e \in calls' : d.at = e.at => d = e
    BY <2>1, <2>2 DEF SentOK
  <2> QED BY <1>4, <2>1, <2>2, <2>3 DEF SentOK
<1> QED BY <1>3, <1>5, <1>6, <1>9, <1>10, <1>11 DEF ConsoleInv, TabOK

\* The answer to a call, the server's or a failure, is heard.
LEMMA HearStep ==
  ASSUME ConsoleInv, NEW c \in calls, NEW answer, NEW rest, Hear(c, answer, rest),
         UNCHANGED <<adminVars, untold>>, upsets' \in 0..MaxUpsets,
         answer.ok => Took(c.op, c.arg),
         \A d \in rest : d \in calls \ {c} \/ (d = [c EXCEPT !.by = "nobody"] /\ c.answer = None),
         calls \ {c} \subseteq rest
  PROVE  ConsoleInv'
<1>1. StoreOK' /\ Onward /\ SameLists
  BY AdminSame
<1>2. CallOK(c) /\ calls' = rest /\ HookOK(c.op) /\ c.op \in Ops
  BY DEF ConsoleInv, TabOK, CallsOK, HooksOK, CallOK, Hear
<1>3. /\ UNCHANGED <<place, target, sends, cache, reading, auditVars>>
      /\ stale' = stale \union Invalidates(c.op)
  BY DEF Hear
<1>4. Invalidates(c.op) \subseteq Lists
  BY <1>2 DEF Invalidates, Ops, Lists
<1>5. PlaceOK'
  BY <1>1, <1>3, <1>4 DEF ConsoleInv, TabOK, PlaceOK, place, auditVars, Onward
<1>6. /\ hooks' = [op \in Ops |-> hooks'[op]]
      /\ \A op \in Ops : hooks'[op].at = hooks[op].at /\ hooks'[op].arg = hooks[op].arg
      /\ \A op \in Ops : hooks'[op] = [phase |-> hooks'[op].phase, arg |-> hooks[op].arg,
                                       at |-> hooks[op].at]
      /\ \A op \in Ops :
           \/ hooks'[op].phase = hooks[op].phase
           \/ /\ op = c.op /\ hooks[op].at = c.at
              /\ \/ hooks'[op].phase = "failed"
                 \/ hooks'[op].phase = "done" /\ answer.ok
  <2>0. \A op \in Ops : HookOK(op)
    BY DEF ConsoleInv, TabOK, HooksOK
  <2>1. CASE hooks[c.op].at # c.at
    <3>1. hooks' = hooks
      BY <2>1 DEF Hear
    <3> QED BY <2>0, <3>1 DEF ConsoleInv, TabOK, HooksOK, HookOK
  <2>2. CASE hooks[c.op].at = c.at
    <3> DEFINE ph == IF answer.ok THEN "done" ELSE "failed"
               h == [hooks[c.op] EXCEPT !.phase = ph]
    <3>1. hooks' = [hooks EXCEPT ![c.op] = h]
      BY <2>2 DEF Hear
    <3>2. h = [phase |-> ph, arg |-> hooks[c.op].arg, at |-> hooks[c.op].at]
      BY <1>2 DEF HookOK
    <3>3. hooks = [op \in Ops |-> hooks[op]]
      BY DEF ConsoleInv, TabOK, HooksOK
    <3> HIDE DEF h
    <3>4. /\ hooks' = [op \in Ops |-> hooks'[op]] /\ hooks'[c.op] = h
          /\ \A op \in Ops \ {c.op} : hooks'[op] = hooks[op]
      BY <1>2, <3>1, <3>3
    <3>5. h.phase = ph /\ h.arg = hooks[c.op].arg /\ h.at = hooks[c.op].at
      BY <3>2
    <3>6. ASSUME NEW op \in Ops, op # c.op
          PROVE  /\ hooks'[op] = hooks[op]
                 /\ hooks'[op] = [phase |-> hooks[op].phase, arg |-> hooks[op].arg,
                                  at |-> hooks[op].at]
      BY <2>0, <3>4, <3>6 DEF HookOK
    <3>7. ph = "failed" \/ (ph = "done" /\ answer.ok)
      OBVIOUS
    <3> HIDE DEF ph
    <3> QED BY <2>2, <3>2, <3>4, <3>5, <3>6, <3>7
  <2> QED BY <2>1, <2>2
<1>7. HooksOK'
  <2> SUFFICES ASSUME NEW op \in Ops PROVE HookOK(op)'
    BY <1>6 DEF HooksOK
  <2>1. HookOK(op)
    BY DEF ConsoleInv, TabOK, HooksOK
  <2>2. PICK a : a = hooks[op].arg
    OBVIOUS
  <2>3. hooks'[op].at = hooks[op].at /\ hooks'[op].arg = a
    BY <1>6, <2>2
  <2>4. hooks'[op].phase # "idle" => ArgOK(op, a) /\ hooks[op].phase # "idle"
    BY <1>2, <1>6, <2>1, <2>2 DEF HookOK, CallOK
  <2>5. hooks'[op].phase = "done" => ArgOK(op, a) /\ Took(op, a)
    BY <1>2, <1>6, <2>1, <2>2, <2>4 DEF HookOK, CallOK
  <2>6. (hooks'[op].phase # "idle" => ArgOK(op, a)') /\ (hooks'[op].phase = "done" => Took(op, a)')
    BY <1>1, <2>4, <2>5, Lasting DEF ConsoleInv
  <2>7. (hooks[op].phase # "idle" => ArgOK(op, hooks[op].arg))'
    BY <2>3, <2>6 DEF ArgOK
  <2>8. (hooks[op].phase = "done" => Took(op, hooks[op].arg))'
    BY <2>3, <2>6 DEF Took
  <2>9. hooks'[op].phase \in {"idle", "loading", "done", "failed"}
        /\ (hooks'[op].phase = "idle" <=> hooks'[op].at = 0)
    BY <1>2, <1>6, <2>1 DEF HookOK, CallOK
  <2> QED BY <1>3, <1>6, <2>1, <2>2, <2>3, <2>7, <2>8, <2>9 DEF HookOK
<1>8. CallsOK'
  <2> SUFFICES ASSUME NEW d \in rest PROVE CallOK(d)'
    BY <1>2 DEF CallsOK
  <2>1. CASE d \in calls
    <3>1. CallOK(d)
      BY <2>1 DEF ConsoleInv, TabOK, CallsOK
    <3>2. d.op \in Ops /\ ArgOK(d.op, d.arg)' /\ (d.answer = Done => Took(d.op, d.arg)')
      BY <1>1, <3>1, Lasting DEF ConsoleInv, CallOK
    <3> QED BY <1>3, <1>6, <3>1, <3>2 DEF CallOK
  <2>2. CASE d = [c EXCEPT !.by = "nobody"] /\ c.answer = None
    <3>1. /\ d = [op |-> c.op, arg |-> c.arg, at |-> c.at, by |-> "nobody", answer |-> None]
          /\ d.op = c.op /\ d.arg = c.arg /\ d.at = c.at /\ d.by = "nobody" /\ d.answer = None
      BY <1>2, <2>2 DEF CallOK
    <3>2. ArgOK(c.op, c.arg)'
      BY <1>1, <1>2, Lasting DEF ConsoleInv, CallOK
    <3>3. None # Done
      BY ConsoleAssumptions DEF Answers
    <3> QED BY <1>2, <1>3, <1>6, <3>1, <3>2, <3>3 DEF CallOK
  <2> QED BY <2>1, <2>2
<1>9. \A l \in Lists : Promised(l) => Promised(l)'
  <2> SUFFICES ASSUME NEW l \in Lists, Promised(l) PROVE Promised(l)'
    OBVIOUS
  <2>1. CASE l \in stale \union Invalidates(c.op)
    BY <1>3, <2>1 DEF Promised
  <2>2. ASSUME NEW d \in Awaited(calls), d.answer # None, l \in Invalidates(d.op), d # c
        PROVE  Promised(l)'
    <3>1. d \in calls' /\ d.by = "tab"
      BY <1>2, <2>2 DEF Awaited
    <3> QED BY <2>2, <3>1 DEF Promised, Awaited
  <2> QED BY <2>1, <2>2 DEF Promised
<1>10. ListsOK'
  BY <1>1, <1>3, <1>9, ListsSame
<1>11. SentOK'
  <2>1. ASSUME NEW d \in rest
        PROVE  \E e \in calls : /\ d.op = e.op /\ d.at = e.at
                               /\ IF e = c THEN d = [c EXCEPT !.by = "nobody"] /\ d.by = "nobody"
                                  ELSE d = e
    <3>1. CASE d \in calls \ {c}
      BY <3>1
    <3>2. CASE d = [c EXCEPT !.by = "nobody"]
      BY <1>2, <3>2 DEF CallOK
    <3> QED BY <3>1, <3>2
  <2>2. SentOK
    BY DEF ConsoleInv, TabOK
  <2>3. \A d \in calls : d.op \in Ops
    BY DEF ConsoleInv, TabOK, CallsOK, CallOK
  <2>4. ASSUME NEW d \in rest, NEW e \in rest, d.at = e.at PROVE d = e
    BY <2>1, <2>2, <2>4 DEF SentOK
  <2>5. ASSUME NEW d \in rest, hooks'[d.op].at = d.at, d.by = "tab"
        PROVE  hooks'[d.op].phase = "loading"
    <3>1. d \in calls /\ d # c
      BY <2>1, <2>5
    <3>2. hooks[d.op].at = d.at /\ hooks[d.op].phase = "loading"
      BY <1>6, <2>2, <2>3, <2>5, <3>1 DEF SentOK
    <3>3. d.op # c.op \/ d.at # c.at
      BY <2>2, <3>1 DEF SentOK
    <3> QED BY <1>6, <2>3, <3>1, <3>2, <3>3
  <2>6. ASSUME NEW d \in rest
        PROVE  \/ d.at <= hooks'[d.op].at
               \/ \A o \in Ops : hooks'[o].at # 0 => d.at < hooks'[o].at
    BY <1>6, <2>1, <2>2, <2>3 DEF SentOK
  <2>7. \A o, p \in Ops : hooks'[o].at = hooks'[p].at => o = p \/ hooks'[o].at = 0
    BY <1>6, <2>2 DEF SentOK
  <2> QED BY <1>2, <2>4, <2>5, <2>6, <2>7 DEF SentOK
<1> QED BY <1>1, <1>5, <1>7, <1>8, <1>10, <1>11 DEF ConsoleInv, TabOK

LEMMA DeliverStep ==
  ASSUME ConsoleInv, NEW c \in calls, Deliver(c)
  PROVE  ConsoleInv'
<1>1. CallOK(c) /\ c.answer # None
  BY DEF ConsoleInv, TabOK, CallsOK, Deliver
<1>2. c.answer.ok => c.answer = Done
  BY <1>1 DEF CallOK, Answers, Refuses
<1>3. c.answer.ok => Took(c.op, c.arg)
  BY <1>1, <1>2 DEF CallOK
<1>4. upsets' \in 0..MaxUpsets
  BY DEF Deliver, ConsoleInv, TabOK, PlaceOK
<1> DEFINE rest == calls \ {c}
<1>5. Hear(c, c.answer, rest) /\ UNCHANGED <<adminVars, untold>>
  BY DEF Deliver
<1> HIDE DEF rest
<1>6. \A d \in rest : d \in calls \ {c} \/ (d = [c EXCEPT !.by = "nobody"] /\ c.answer = None)
  BY DEF rest
<1>7. calls \ {c} \subseteq rest
  BY DEF rest
<1> QED BY <1>3, <1>4, <1>5, <1>6, <1>7, HearStep

LEMMA LoseStep ==
  ASSUME ConsoleInv, NEW c \in calls, Lose(c)
  PROVE  ConsoleInv'
<1>1. PICK onItsWay \in BOOLEAN :
        /\ onItsWay => c.answer = None
        /\ Hear(c, Refuses("FETCH_ERROR"),
                (calls \ {c}) \union (IF onItsWay THEN {[c EXCEPT !.by = "nobody"]} ELSE {}))
  BY DEF Lose
<1> DEFINE rest == (calls \ {c}) \union (IF onItsWay THEN {[c EXCEPT !.by = "nobody"]} ELSE {})
<1>2. upsets' \in 0..MaxUpsets /\ UNCHANGED <<adminVars, untold>>
  BY ConsoleAssumptions DEF Lose, ConsoleInv, TabOK, PlaceOK
<1>3. ~Refuses("FETCH_ERROR").ok
  BY DEF Refuses
<1>4. \A d \in rest : d \in calls \ {c} \/ (d = [c EXCEPT !.by = "nobody"] /\ c.answer = None)
  BY <1>1
<1>5. Hear(c, Refuses("FETCH_ERROR"), rest) /\ calls \ {c} \subseteq rest
  BY <1>1
<1> HIDE DEF rest
<1> QED BY <1>2, <1>3, <1>4, <1>5, HearStep

LEMMA ElsewhereStep ==
  ASSUME ConsoleInv, Elsewhere
  PROVE  ConsoleInv'
<1>1. StoreOK' /\ Onward
  BY ElsewhereStore DEF ConsoleInv
<1>2. /\ untold' = untold \union {l \in Lists : Changed(l)}
      /\ UNCHANGED <<place, target, hooks, sends, calls, cache, reading, stale, auditVars>>
      /\ upsets' \in 0..MaxUpsets
  BY ConsoleAssumptions DEF Elsewhere, ConsoleInv, TabOK, PlaceOK
<1>3. PlaceOK'
  BY <1>1, <1>2 DEF ConsoleInv, TabOK, PlaceOK, place, auditVars, Onward
<1>4. HooksOK' /\ CallsOK' /\ SentOK'
  BY <1>1, <1>2, CallsSame
<1>5. ListsOK'
  <2> SUFFICES ASSUME NEW l \in Lists PROVE ListOK(l)' /\ ListCurrent(l)'
    BY <1>2 DEF ConsoleInv, TabOK, ListsOK
  <2>1. ListOK(l) /\ ListCurrent(l)
    BY DEF ConsoleInv, TabOK, ListsOK
  <2>2. ListOK(l)'
    BY <1>1, <1>2, <2>1, Lasting DEF ConsoleInv, ListOK
  <2>3. Promised(l) => Promised(l)'
    BY <1>2 DEF Promised, Awaited
  <2>4. CASE Listed(l)' = Listed(l)
    BY <1>2, <2>1, <2>2, <2>3, <2>4 DEF ListCurrent
  <2>5. CASE Listed(l)' # Listed(l)
    BY <1>2, <2>2, <2>5 DEF ListCurrent, Changed
  <2> QED BY <2>2, <2>4, <2>5
<1> QED BY <1>1, <1>3, <1>4, <1>5 DEF ConsoleInv, TabOK

LEMMA IdleStep ==
  ASSUME ConsoleInv, UNCHANGED vars
  PROVE  ConsoleInv'
<1>1. StoreOK' /\ Onward /\ SameLists
  BY AdminSame DEF vars
<1>2. PlaceOK'
  BY <1>1 DEF ConsoleInv, TabOK, PlaceOK, vars, place, deskVars, auditVars, Onward
<1> QED BY <1>1, <1>2, MoveStep DEF vars, deskVars

LEMMA ConsoleInductive == ConsoleInv /\ [Next]_vars => ConsoleInv'
<1> SUFFICES ASSUME ConsoleInv, [Next]_vars PROVE ConsoleInv'
  OBVIOUS
<1>1. ASSUME Administrator PROVE ConsoleInv'
  BY <1>1, TargetStep, AskStep, OpenStep, PageStep DEF Administrator
<1>2. ASSUME Network PROVE ConsoleInv'
  BY <1>2, ServeStep, DeliverStep, LoseStep, ServeReadStep, DeliverReadStep, ForgetStep,
     RefreshStep, PageStep DEF Network
<1> QED BY <1>1, <1>2, ElsewhereStep, PageStep, IdleStep DEF Next

-----------------------------------------------------------------------------
(* The theorems.                                                            *)

\* The strengthening is an invariant of the console.
THEOREM AlwaysConsole == Spec => []ConsoleInv
<1>1. Init => ConsoleInv
  BY InitConsole
<1>2. ConsoleInv /\ [Next]_vars => ConsoleInv'
  BY ConsoleInductive
<1> QED BY <1>1, <1>2, PTL DEF Spec

\* Every variable keeps its type, and what is asked for is on the screen it is asked from.
THEOREM TypeCorrect == Spec => []ConsoleTypeOK
<1>1. ConsoleInv => ConsoleTypeOK
  <2> SUFFICES ASSUME ConsoleInv PROVE ConsoleTypeOK
    OBVIOUS
  <2>1. StoreTypeOK /\ PlaceOK
    BY DEF ConsoleInv, TabOK, StoreOK
  <2>2. target # None => target \in 1..MaxRows
    BY <2>1, AdminAssumptions DEF StoreTypeOK, PlaceOK
  <2>3. \A op \in Ops : hooks[op].phase \in {"idle", "loading", "done", "failed"}
                        /\ hooks[op].at \in 0..sends
    BY DEF ConsoleInv, TabOK, HooksOK, HookOK
  <2>4. \A c \in calls : c.by \in {"tab", "nobody"} /\ c.answer \in Answers \union {None}
    BY DEF ConsoleInv, TabOK, CallsOK, CallOK
  <2>5. \A l \in Lists : reading[l].phase \in {"idle", "asked", "answered"}
    BY DEF ConsoleInv, TabOK, ListsOK, ListOK, Unasked, Asked, Answered
  <2> QED BY <2>1, <2>2, <2>3, <2>4, <2>5 DEF ConsoleTypeOK, PlaceOK
<1> QED BY <1>1, AlwaysConsole, PTL

LEMMA OneOrNone ==
  ASSUME NEW S, NEW T, NEW b \in BOOLEAN, b <=> \E x \in S : x \in T,
         \A x, y \in S : x \in T /\ y \in T => x = y
  PROVE  Cardinality({x \in S : x \in T}) = IF b THEN 1 ELSE 0
<1>1. CASE b
  <2>1. PICK x \in S : x \in T
    BY <1>1
  <2>2. {y \in S : y \in T} = {x}
    BY <2>1
  <2> QED BY <1>1, <2>2, FS_Singleton
<1>2. CASE ~b
  <2>1. {y \in S : y \in T} = {}
    BY <1>2
  <2> QED BY <1>2, <2>1, FS_EmptySet
<1> QED BY <1>1, <1>2

\* A transaction is reversed exactly if one approval of it was executed and one other
\* transaction compensates it, and nobody decides on their own proposal, whatever
\* two administrators propose and decide at once (proposeReversal, approveReversal).
THEOREM AlwaysReversedByOne == Spec => []ReversedByOneApproval
<1>1. ConsoleInv => ReversedByOneApproval
  <2> SUFFICES ASSUME ConsoleInv PROVE ReversedByOneApproval
    OBVIOUS
  <2>1. ASSUME NEW t \in DOMAIN transactions
        PROVE  /\ Cardinality({i \in DOMAIN approvals :
                     approvals[i].target = t /\ approvals[i].status = "EXECUTED"})
                  = IF transactions[t].status = "REVERSED" THEN 1 ELSE 0
               /\ Cardinality({r \in DOMAIN transactions : transactions[r].reverses = t})
                  = IF transactions[t].status = "REVERSED" THEN 1 ELSE 0
    <3> DEFINE b == transactions[t].status = "REVERSED"
               E == {i \in DOMAIN approvals :
                       approvals[i].target = t /\ approvals[i].status = "EXECUTED"}
               C == {r \in DOMAIN transactions : transactions[r].reverses = t}
    <3>1. /\ b <=> \E i \in DOMAIN approvals : i \in E
          /\ b <=> \E r \in DOMAIN transactions : r \in C
          /\ \A r, s \in DOMAIN transactions : r \in C /\ s \in C => r = s
      BY DEF ConsoleInv, StoreOK, ReversalsOK
    <3>2. \A i, j \in DOMAIN approvals : i \in E /\ j \in E => i = j
      BY DEF ConsoleInv, StoreOK, ApprovalsOK, Blocking
    <3>3. b \in BOOLEAN
      OBVIOUS
    <3>4. {i \in DOMAIN approvals : i \in E} = E /\ {r \in DOMAIN transactions : r \in C} = C
      OBVIOUS
    <3> HIDE DEF b, E, C
    <3>5. Cardinality({i \in DOMAIN approvals : i \in E}) = IF b THEN 1 ELSE 0
      BY <3>1, <3>2, <3>3, OneOrNone
    <3>6. Cardinality({r \in DOMAIN transactions : r \in C}) = IF b THEN 1 ELSE 0
      BY <3>1, <3>3, OneOrNone
    <3> QED BY <3>4, <3>5, <3>6 DEF b, E, C
  <2>2. \A i \in DOMAIN approvals : approvals[i].maker # approvals[i].checker
    BY DEF ConsoleInv, StoreOK, ApprovalsOK
  <2> QED BY <2>1, <2>2 DEF ReversedByOneApproval
<1> QED BY <1>1, AlwaysConsole, PTL

\* Once nothing is on the wire and no tag waits, what is on show is what the server has,
\* apart from what others changed or calls the tab was told had failed (the tags that
\* each mutation invalidates).
THEOREM AlwaysListsCurrent == Spec => []ListsAreCurrent
<1>1. ConsoleInv => ListsAreCurrent
  <2> SUFFICES ASSUME ConsoleInv, Awaited(calls) = {}, stale = {},
                      NEW l \in Shows[screen] \ untold,
                      reading[l] = Unasked, cache[l] # None
               PROVE  cache[l] = Listed(l)
    BY DEF ListsAreCurrent
  <2>1. screen \in DOMAIN Shows
    BY ConsoleAssumptions DEF ConsoleInv, TabOK, PlaceOK
  <2>2. l \in Lists
    BY <2>1 DEF Shows, Lists
  <2>3. ListCurrent(l) /\ ~Promised(l)
    BY <2>2 DEF ConsoleInv, TabOK, ListsOK, Promised
  <2> QED BY <2>3 DEF ListCurrent
<1> QED BY <1>1, AlwaysConsole, PTL

\* The error on show is that of the decision asked for last, never while one asked for
\* later is on the wire; and above a queue that shows anything, no error means that the
\* decision asked for last was taken, by this administrator (latestFailed of the
\* reversals page).  Of an empty queue, which has no Alert, nothing is claimed.
THEOREM AlwaysBannerTells == Spec => []BannerTellsLatest
<1>1. ConsoleInv => BannerTellsLatest
  <2> SUFFICES ASSUME ConsoleInv PROVE BannerTellsLatest
    OBVIOUS
  <2> DEFINE op == LatestDecision
             latest == hooks[op]
  <2>1. HookOK("approve") /\ HookOK("reject") /\ sends \in Nat
    BY ConsoleAssumptions DEF ConsoleInv, TabOK, HooksOK, PlaceOK, Ops
  <2>2. /\ hooks["approve"].at \in Nat /\ hooks["reject"].at \in Nat
        /\ HookOK(op) /\ op \in Decisions
    BY <2>1 DEF HookOK, LatestDecision, Decisions
  <2>3. LatestOf("approve", "reject") = op /\ \A o \in Decisions : hooks[o].at <= latest.at
    BY <2>2 DEF LatestOf, LatestDecision, Decisions
  <2> HIDE DEF op
  <2>4. /\ latest.phase \in {"idle", "loading", "done", "failed"}
        /\ latest.phase # "idle" => latest.at # 0
        /\ latest.phase = "done" => Took(op, latest.arg)
    BY <2>2 DEF HookOK
  <2>5. ASSUME Banner("approve", "reject") PROVE latest.phase = "failed"
    BY <2>3, <2>5 DEF Banner
  <2>6. ASSUME latest.phase = "failed", NEW c \in Awaited(calls), c.op \in Decisions
        PROVE  c.at < latest.at
    <3>1. /\ c \in calls /\ c.by = "tab" /\ c.at \in 1..sends /\ SentOK
          /\ op \in Ops /\ c.op \in Ops
      BY <2>2, <2>6 DEF ConsoleInv, TabOK, CallsOK, CallOK, Awaited, Decisions, Ops
    <3>2. /\ hooks[c.op].at = c.at => hooks[c.op].phase = "loading"
          /\ \/ c.at <= hooks[c.op].at
             \/ \A o \in Ops : hooks[o].at # 0 => c.at < hooks[o].at
      BY <3>1 DEF SentOK
    <3>3. /\ hooks[c.op].at \in Nat /\ latest.at \in Nat /\ latest.at # 0
          /\ hooks[c.op].at <= latest.at
      BY <2>2, <2>3, <2>4, <2>6 DEF Decisions
    <3>4. CASE c.op = op
      BY <2>6, <3>1, <3>2, <3>3, <3>4
    <3>5. CASE c.op # op
      <4>1. hooks[c.op].at # latest.at
        BY <3>1, <3>3, <3>5 DEF SentOK
      <4> QED BY <3>1, <3>2, <3>3, <4>1
    <3> QED BY <3>4, <3>5
  <2>7. ASSUME cache["approvals"] \notin {None, {}}, ~Banner("approve", "reject"),
               latest.phase \notin {"idle", "loading"}
        PROVE  /\ approvals[latest.arg].status =
                    (IF op = "approve" THEN "EXECUTED" ELSE "REJECTED")
               /\ approvals[latest.arg].checker = Me
    <3>1. latest.phase = "done"
      BY <2>3, <2>4, <2>7 DEF Banner
    <3> QED BY <2>2, <2>4, <3>1 DEF Took, Verdict, Decisions
  <2> QED BY <2>5, <2>6, <2>7 DEF BannerTellsLatest, op
<1> QED BY <1>1, AlwaysConsole, PTL

\* Of the pages up to one, a first is the first of which something holds.
LEMMA FirstPage ==
  ASSUME NEW n \in Nat, NEW S, S \subseteq 0..n, S # {}
  PROVE  \E p \in S : \A q \in S : p <= q
<1> DEFINE Upto(p) == {q \in S : q <= p}
           all == {Upto(p) : p \in S}
<1>1. S \subseteq Nat /\ IsFiniteSet(0..n) /\ IsFiniteSet(S)
  <2>1. S \subseteq Nat /\ 0 \in Int /\ n \in Int
    OBVIOUS
  <2>2. IsFiniteSet(0..n)
    BY <2>1, FS_Interval
  <2> QED BY <2>1, <2>2, FS_Subset
<1>2. all \subseteq FiniteSubsetsOf(S) /\ all # {}
  <2>1. ASSUME NEW p \in S PROVE Upto(p) \in FiniteSubsetsOf(S)
    <3>1. Upto(p) \subseteq S
      OBVIOUS
    <3> HIDE DEF Upto
    <3> QED BY <1>1, <3>1, FS_Subset DEF FiniteSubsetsOf
  <2> HIDE DEF Upto
  <2> QED BY <2>1
<1>3. PICK L \in all : \A M \in all : <<M, L>> \notin StrictSubsetOrdering(S)
  BY <1>2, FS_StrictSubsetOrderingWellFounded, WFMin
<1>4. PICK p \in S : L = Upto(p)
  OBVIOUS
<1>5. ASSUME NEW q \in S, q < p PROVE FALSE
  <2>1. Upto(q) \subseteq Upto(p) /\ p \in Upto(p) /\ p \notin Upto(q)
    <3>1. p \in Nat /\ q \in Nat /\ \A m \in S : m \in Nat
      BY <1>1
    <3>2. \A m \in S : m <= q => m <= p
      BY <1>5, <3>1
    <3>3. p <= p /\ ~(p <= q)
      BY <1>5, <3>1
    <3> QED BY <3>2, <3>3
  <2>2. <<Upto(q), Upto(p)>> \in StrictSubsetOrdering(S)
    BY <1>2, <2>1 DEF StrictSubsetOrdering
  <2> QED BY <1>3, <1>4, <2>2
<1> QED BY <1>1, <1>5

\* Of fewer rows, or past a newer one, fewer are newer.
LEMMA NewerMonotone ==
  ASSUME NEW n \in Nat, NEW T \in SUBSET (1..n), NEW S \in SUBSET T,
         NEW k \in 1..n, NEW r \in 1..n, r <= k
  PROVE  /\ Newer(k, S) \in Nat /\ Newer(k, T) \in Nat /\ Newer(r, T) \in Nat
         /\ Newer(k, S) <= Newer(k, T) /\ Newer(k, T) <= Newer(r, T)
<1> DEFINE Above(j, rows) == {i \in rows : i > j}
<1>1. IsFiniteSet(1..n) /\ IsFiniteSet(T)
  <2>1. IsFiniteSet(1..n)
    BY FS_Interval
  <2> QED BY <2>1, FS_Subset
<1>2. Above(k, S) \subseteq Above(k, T) /\ Above(k, T) \subseteq Above(r, T) /\ Above(r, T) \subseteq T
  <2>1. \A i \in T : i \in Nat /\ (i > k => i > r)
    OBVIOUS
  <2>2. Above(k, T) \subseteq Above(r, T)
    BY <2>1
  <2> QED BY <2>2
<1>3. /\ Newer(k, S) = Cardinality(Above(k, S)) /\ Newer(k, T) = Cardinality(Above(k, T))
      /\ Newer(r, T) = Cardinality(Above(r, T))
  BY DEF Newer
<1> HIDE DEF Above
<1>4. IsFiniteSet(Above(r, T))
  BY <1>1, <1>2, FS_Subset
<1>5. IsFiniteSet(Above(k, T)) /\ Cardinality(Above(k, T)) <= Cardinality(Above(r, T))
  BY <1>2, <1>4, FS_Subset
<1>6. IsFiniteSet(Above(k, S)) /\ Cardinality(Above(k, S)) <= Cardinality(Above(k, T))
  BY <1>2, <1>5, FS_Subset
<1> QED BY <1>3, <1>4, <1>5, <1>6, FS_CardinalityType

\* The pages of the audit log, none read before the one ahead of it, leave out no row
\* that the first was read with, between the newest and the oldest on show (the offsets
\* of the pages).
THEOREM AlwaysNothingSkipped == Spec => []NothingSkipped
<1>1. ConsoleInv => NothingSkipped
  <2> SUFFICES ASSUME ConsoleInv,
                      \A p \in 0..page : pages[p] # None,
                      \A p \in 1..page : pages[p - 1] \subseteq pages[p],
                      NEW k \in pages[0],
                      \E r \in UNION {Rows(p) : p \in 0..page} : r <= k
               PROVE  k \in UNION {Rows(p) : p \in 0..page}
    BY DEF NothingSkipped
  <2>1. /\ page \in 0..LastPage /\ LastPage \in Nat /\ PageSize \in Nat
        /\ MaxEntries \in Nat
        /\ pages \in [0..LastPage -> (SUBSET (1..MaxEntries)) \union {None}]
    BY ConsoleAssumptions, AdminAssumptions DEF ConsoleInv, TabOK, PlaceOK
  <2>2. page \in Nat /\ 0 \in 0..page
    BY <2>1
  <2>3. \A p \in 0..page : pages[p] \in SUBSET (1..MaxEntries)
    BY <2>1
  <2> DEFINE Before(p) == Newer(k, pages[p])
             Reached == {p \in 0..page : Before(p) < (p + 1) * PageSize \/ k \notin pages[p]}
  <2>4. \A p \in 0..page : \A r :
          r \in Rows(p) <=> /\ r \in pages[p] /\ p * PageSize <= Newer(r, pages[p])
                           /\ Newer(r, pages[p]) < (p + 1) * PageSize
    BY DEF Rows, AuditPage
  <2>5. k \in 1..MaxEntries
    BY <2>2, <2>3
  <2>6. \A p \in 0..page : Before(p) \in Nat
    <3>1. k <= k
      BY <2>5
    <3> QED BY <2>1, <2>3, <2>5, <3>1, NewerMonotone
  <2>7. PICK q \in 0..page : \E r \in Rows(q) : r <= k
    OBVIOUS
  <2>8. q \in Reached
    <3>1. PICK r \in Rows(q) : r <= k
      BY <2>7
    <3>2. r \in pages[q] /\ Newer(r, pages[q]) < (q + 1) * PageSize /\ r \in 1..MaxEntries
      BY <2>3, <2>4, <3>1
    <3>3. Before(q) <= Newer(r, pages[q]) /\ Newer(r, pages[q]) \in Nat
      BY <2>1, <2>3, <2>5, <3>1, <3>2, NewerMonotone
    <3>4. (q + 1) * PageSize \in Int
      BY <2>1, <2>7
    <3> QED BY <2>6, <3>2, <3>3, <3>4
  <2>9. PICK p \in Reached : \A j \in Reached : p <= j
    <3>1. Reached \subseteq 0..page /\ Reached # {}
      BY <2>8
    <3> HIDE DEF Reached
    <3> QED BY <2>2, <3>1, FirstPage
  <2>10. CASE p = 0
    <3>1. 0 * PageSize = 0 /\ k \in pages[p]
      BY <2>1, <2>10
    <3>2. p * PageSize <= Before(p) /\ Before(p) < (p + 1) * PageSize
      BY <2>6, <2>9, <2>10, <3>1
    <3> QED BY <2>4, <3>1, <3>2
  <2>11. CASE p # 0
    <3>1. p - 1 \in 0..page /\ p \in 1..page /\ ~(p <= p - 1) /\ (p - 1) + 1 = p
      BY <2>2, <2>11
    <3>2. p - 1 \notin Reached
      BY <2>9, <3>1
    <3>3. k \in pages[p - 1] /\ ~(Before(p - 1) < p * PageSize)
      BY <3>1, <3>2
    <3>4. pages[p - 1] \subseteq pages[p] /\ k \in pages[p]
      BY <3>1, <3>3
    <3>5. Before(p - 1) <= Before(p)
      <4>1. pages[p] \in SUBSET (1..MaxEntries) /\ k <= k
        BY <2>3, <2>5
      <4> QED BY <2>1, <2>5, <3>4, <4>1, NewerMonotone
    <3>6. p * PageSize \in Int /\ Before(p - 1) \in Int /\ Before(p) \in Int
      BY <2>1, <2>6, <3>1
    <3>7. p * PageSize <= Before(p) /\ Before(p) < (p + 1) * PageSize
      BY <2>9, <3>3, <3>4, <3>5, <3>6
    <3> QED BY <2>4, <3>4, <3>7
  <2> QED BY <2>10, <2>11
<1> QED BY <1>1, AlwaysConsole, PTL

===============================================================================
