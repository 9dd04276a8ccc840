----------------------------- MODULE ClientProofs -----------------------------
(***************************************************************************)
(* The safety of the client application and of the server it is tested     *)
(* against, for every value of the constants.  First the server: what each *)
(* handler does is one of few effects on its rows.  Then the tab: what its *)
(* wizard, its calls on the wire and its feed may believe of those rows.   *)
(***************************************************************************)
EXTENDS ClientApp, SumTheorems

Finals == {"POSTED", "CANCELLED", "EXPIRED"}

-----------------------------------------------------------------------------
(* The server.                                                              *)

\* Ids are handed out in order, and only a transfer has a status and a hold.
Numbered ==
  /\ \E n \in 0..MaxTransfers : Stored = 1..n
  /\ \A i \in Ids : (status[i] # None <=> i \in Stored) /\ (hold[i] # None => i \in Stored)

\* A key names the one transfer made under it.
KeysKept ==
  /\ \A k \in Keys : byKey[k] # None => byKey[k] \in Stored
  /\ \A i \in Stored : terms[i].key # None => byKey[terms[i].key] = i

StoreOK == StoreTypeOK /\ Numbered /\ KeysKept /\ OnePending /\ HoldsAddUp

\* What the forms ask for.
Wishes ==
  [kind : {"internal"}, source : Accounts, dest : Destinations, amount : Amounts,
   key : Keys \union {None}, confirmDuplicate : BOOLEAN]
  \union
  [kind : {"external_outbound"}, source : Accounts, dest : Payees, amount : Amounts,
   key : Keys \union {None}, confirmDuplicate : BOOLEAN]

\* No transfer disappears or changes its terms, and one that has ended stays so.
Kept ==
  /\ \A i \in Stored : i \in Stored' /\ terms'[i] = terms[i]
  /\ \A i \in Ids : status[i] \in Finals => status'[i] = status[i]

-----------------------------------------------------------------------------
(* The tab.                                                                 *)

Wizards ==
  [step : Steps, dest : Destinations \union {None}, key : Keys \union {None},
   suspected : BOOLEAN, view : Ids \union {None}]

\* Past the resolution the page knows whom it pays, past the initiate which transfer
\* it is about, and what it says of its outcome is so.
WizardOK ==
  /\ wizard \in Wizards
  /\ wizard.step \in {"confirmPayee", "amount"} => wizard.dest \in Destinations
  /\ wizard.step \in {"awaitingOtp", "posted", "cancelled"} => wizard.view \in Stored
  /\ ScreenTellsOutcome

CallRecords ==
  [op : {"initiate", "confirm", "cancel"}, req : Wishes \union {Nothing},
   id : Ids \union {None}, by : {"page", "store", "nobody"}, answer : Answers \union {None}]

\* A call asks for what there is, and an answer that is no error stays true.
CallOK(c) ==
  /\ c \in CallRecords
  /\ c.op = "initiate" =>
       c.req \in Wishes /\ (c.answer # None /\ c.answer.ok => c.answer.id \in Stored)
  /\ c.op = "confirm" =>
       c.id \in Stored /\ (c.answer # None /\ c.answer.ok => status[c.id] = "POSTED")
  /\ c.op = "cancel" =>
       c.id \in Stored /\ (c.answer # None /\ c.answer.ok => status[c.id] \in {"CANCELLED", "EXPIRED"})

\* The page has one question about its transfer on the wire at a time, and stays with
\* that transfer until it is answered.
Deciding(c) == c.by = "page" /\ c.op \in {"confirm", "cancel"}

CallsOK ==
  /\ \A c \in calls : CallOK(c)
  /\ \A c \in calls : Deciding(c) => wizard.step = "awaitingOtp" /\ wizard.view = c.id
  /\ \A c, d \in calls : Deciding(c) /\ Deciding(d) => c = d

Readings == {Unasked, Asked} \union {Answered(v) : v \in SUBSET Ids}

\* What was read is some transfers, and it is what is pending unless an answer is
\* outstanding, a refresh is due or the tab could not know.
FeedOK ==
  /\ feed \in {None} \union SUBSET Ids /\ (feed # None => feed \subseteq Stored)
  /\ reading \in Readings /\ (reading.phase = "answered" => reading.value \subseteq Stored)
  /\ Awaited(calls) = {} /\ ~stale /\ ~untold =>
       /\ reading.phase = "answered" => reading.value = PendingAuthorization
       /\ reading = Unasked /\ feed # None => feed = PendingAuthorization

TabOK ==
  /\ page \in Pages /\ {resumed, untold, stale} \subseteq BOOLEAN
  /\ minted \in 0..MaxKeys /\ upsets \in 0..MaxUpsets
  /\ WizardOK /\ CallsOK /\ FeedOK

ClientInv == StoreOK /\ TabOK

-----------------------------------------------------------------------------
(* The effects on the rows of the server.                                   *)

LEMMA TransferOf ==
  ASSUME StoreTypeOK
  PROVE  /\ IsFiniteSet(Ids) /\ None \notin Ids
         /\ \A i \in Stored : /\ i \in Ids /\ terms[i] \in Terms /\ terms[i].source \in Accounts
                              /\ terms[i].amount \in Nat /\ terms[i].key \in Keys \union {None}
                              /\ terms[i].at \in Nat
<1>1. IsFiniteSet(Ids) /\ None \notin Ids
  <2>1. 1 \in Int /\ MaxTransfers \in Int BY StoreAssumptions
  <2>2. IsFiniteSet(1..MaxTransfers) BY <2>1, FS_Interval
  <2>3. Ids \subseteq Nat BY DEF Ids
  <2> QED BY <2>2, <2>3, StoreAssumptions DEF Ids
<1>2. ASSUME NEW i \in Stored
      PROVE  /\ i \in Ids /\ terms[i] \in Terms /\ terms[i].source \in Accounts
             /\ terms[i].amount \in Nat /\ terms[i].key \in Keys \union {None}
             /\ terms[i].at \in Nat
  <2>1. i \in Ids /\ terms[i] \in Terms BY DEF Stored, StoreTypeOK
  <2>2. /\ terms[i].source \in Accounts /\ terms[i].amount \in Amounts
        /\ terms[i].key \in Keys \union {None} /\ terms[i].at \in 0..MaxClock
    BY <2>1 DEF Terms
  <2>3. Amounts \subseteq Nat /\ 0..MaxClock \subseteq Nat
    BY StoreAssumptions
  <2> QED BY <2>1, <2>2, <2>3
<1> QED BY <1>1, <1>2

\* The terms of the sum of the holds are finitely many naturals.
LEMMA HeldTerms ==
  ASSUME StoreTypeOK, NEW a
  PROVE  /\ IsFiniteSet(PlacedOn(a))
         /\ [i \in PlacedOn(a) |-> terms[i].amount] \in [PlacedOn(a) -> Nat]
<1>1. PlacedOn(a) \subseteq Ids /\ PlacedOn(a) \subseteq Stored
  BY DEF PlacedOn, Stored
<1>2. IsFiniteSet(PlacedOn(a))
  BY <1>1, TransferOf, FS_Subset
<1>3. \A i \in PlacedOn(a) : terms[i].amount \in Nat
  BY <1>1, TransferOf
<1> QED BY <1>2, <1>3

\* The hold of i leaves the sum of its account.
LEMMA HeldLess ==
  ASSUME StoreOK, NEW i \in Stored, hold[i] = "PLACED", UNCHANGED terms,
         \A j \in Ids : hold'[j] = "PLACED" <=> hold[j] = "PLACED" /\ j # i,
         NEW a \in Accounts,
         held'[a] = held[a] - (IF terms[i].source = a THEN terms[i].amount ELSE 0)
  PROVE  held'[a] = Total([j \in PlacedOn(a)' |-> terms'[j].amount])
<1> DEFINE S == PlacedOn(a)
           f == [j \in S |-> terms[j].amount]
<1>0. /\ IsFiniteSet(S) /\ f \in [S -> Nat] /\ held[a] = Total(f) /\ held[a] \in Int
      /\ Stored' = Stored
  BY HeldTerms DEF StoreOK, HoldsAddUp, StoreTypeOK, Stored
<1>1. CASE terms[i].source = a
  <2>1. i \in S /\ PlacedOn(a)' = S \ {i} /\ f[i] = terms[i].amount
    BY <1>0, <1>1 DEF PlacedOn, Stored
  <2>2. [j \in PlacedOn(a)' |-> terms'[j].amount] = [j \in S \ {i} |-> f[j]]
    BY <2>1
  <2> HIDE DEF S, f
  <2>3. Total([j \in S \ {i} |-> f[j]]) = Total(f) - f[i]
    BY <1>0, <2>1, TotalRemove
  <2> QED BY <1>0, <1>1, <2>1, <2>2, <2>3
<1>2. CASE terms[i].source # a
  <2>1. PlacedOn(a)' = S
    BY <1>0, <1>2 DEF PlacedOn, Stored
  <2>2. [j \in PlacedOn(a)' |-> terms'[j].amount] = f
    BY <2>1
  <2> QED BY <1>0, <1>2, <2>2
<1> QED BY <1>1, <1>2

\* A pending transfer ends.
LEMMA EndsOK ==
  ASSUME StoreOK, NEW i \in Ids, NEW s \in Finals, Pending(i), Ends(i, s), UNCHANGED others
  PROVE  StoreOK' /\ Kept /\ status'[i] = s
<1>0. /\ StoreTypeOK /\ i \in Stored /\ i = activePending
      /\ status' = [status EXCEPT ![i] = s] /\ terms' = terms /\ Stored' = Stored
      /\ activePending' = None
  BY StoreAssumptions DEF StoreOK, Numbered, OnePending, Pending, Ends, Stored
<1>1. /\ terms[i].source \in Accounts /\ terms[i].amount \in Nat /\ None \notin Ids
  BY <1>0, TransferOf
<1>2. /\ hold' \in [Ids -> {None, "PLACED", "SETTLED", "RELEASED"}]
      /\ held' \in [Accounts -> Int] /\ balance' \in [Accounts -> Int]
      /\ \A j \in Ids : hold'[j] # None => hold[j] # None
  <2>1. \A a \in Accounts : held[a] - terms[i].amount \in Int /\ balance[a] - terms[i].amount \in Int
    BY <1>0, <1>1 DEF StoreTypeOK
  <2>2. CASE hold[i] = "PLACED"
    <3>1. /\ hold' = [hold EXCEPT ![i] = IF s = "POSTED" THEN "SETTLED" ELSE "RELEASED"]
          /\ held' = [held EXCEPT ![terms[i].source] = @ - terms[i].amount]
          /\ balance' = [balance EXCEPT ![terms[i].source] =
                           IF s = "POSTED" THEN @ - terms[i].amount ELSE @]
      BY <2>2 DEF Ends, SettleOrRelease
    <3> QED BY <1>0, <2>1, <2>2, <3>1, StoreAssumptions DEF StoreTypeOK
  <2>3. CASE hold[i] # "PLACED"
    BY <1>0, <2>3 DEF Ends, SettleOrRelease, StoreTypeOK
  <2> QED BY <2>2, <2>3
<1>3. StoreTypeOK'
  <2>1. status' \in [Ids -> {None, "PENDING", "POSTED", "CANCELLED", "EXPIRED"}]
    BY <1>0 DEF StoreTypeOK, Finals
  <2> QED BY <1>0, <1>2, <2>1 DEF StoreTypeOK, others
<1>4. Numbered'
  BY <1>0, <1>2, StoreAssumptions DEF StoreOK, Numbered, Finals, StoreTypeOK
<1>5. KeysKept'
  BY <1>0 DEF StoreOK, KeysKept, others
<1>6. OnePending'
  <2>1. \A j \in Ids : Pending(j) => j = i
    BY <1>0, <1>1 DEF StoreOK, OnePending
  <2>2. \A j \in Ids : ~(status'[j] = "PENDING")
    BY <1>0, <2>1 DEF Pending, Finals, StoreTypeOK
  <2> QED BY <1>0, <1>1, <2>2 DEF OnePending, Pending
<1>7. HoldsAddUp'
  <2> SUFFICES ASSUME NEW a \in Accounts
               PROVE  /\ held'[a] = Total([j \in PlacedOn(a)' |-> terms'[j].amount])
                      /\ held'[a] <= balance'[a]
    BY DEF HoldsAddUp
  <2>1. held[a] \in Int /\ balance[a] \in Int /\ held[a] <= balance[a]
    BY <1>0 DEF StoreTypeOK, StoreOK, HoldsAddUp
  <2>2. CASE hold[i] = "PLACED"
    <3>1. /\ hold' = [hold EXCEPT ![i] = IF s = "POSTED" THEN "SETTLED" ELSE "RELEASED"]
          /\ held' = [held EXCEPT ![terms[i].source] = @ - terms[i].amount]
          /\ balance' = [balance EXCEPT ![terms[i].source] =
                           IF s = "POSTED" THEN @ - terms[i].amount ELSE @]
      BY <2>2 DEF Ends, SettleOrRelease
    <3>2. \A j \in Ids : hold'[j] = "PLACED" <=> hold[j] = "PLACED" /\ j # i
      BY <1>0, <3>1 DEF StoreTypeOK
    <3>3. held'[a] = held[a] - (IF terms[i].source = a THEN terms[i].amount ELSE 0)
      BY <1>0, <1>1, <2>1, <3>1 DEF StoreTypeOK
    <3>4. balance'[a] \in {balance[a], held'[a] - held[a] + balance[a]}
      BY <1>0, <1>1, <2>1, <3>1, <3>3 DEF StoreTypeOK
    <3>5. held'[a] \in Int /\ held'[a] <= held[a]
      BY <1>1, <2>1, <3>3
    <3>6. held'[a] <= balance'[a]
      BY <2>1, <3>4, <3>5
    <3> QED BY <1>0, <2>2, <3>2, <3>3, <3>6, HeldLess
  <2>3. CASE hold[i] # "PLACED"
    <3>1. UNCHANGED <<hold, held, balance>>
      BY <2>3 DEF Ends, SettleOrRelease
    <3>2. PlacedOn(a)' = PlacedOn(a)
      BY <1>0, <3>1 DEF PlacedOn
    <3>3. [j \in PlacedOn(a)' |-> terms'[j].amount] = [j \in PlacedOn(a) |-> terms[j].amount]
      BY <1>0, <3>2
    <3> QED BY <2>1, <3>1, <3>3 DEF StoreOK, HoldsAddUp
  <2> QED BY <2>2, <2>3
<1>8. Kept
  <2>1. \A j \in Ids : status[j] \in Finals => j # i
    BY DEF Pending, Finals
  <2> QED BY <1>0, <2>1 DEF Kept, StoreTypeOK
<1>9. status'[i] = s
  BY <1>0 DEF StoreTypeOK
<1> QED BY <1>3, <1>4, <1>5, <1>6, <1>7, <1>8, <1>9 DEF StoreOK

LEMMA NextIdFresh ==
  ASSUME StoreOK, NextId \in Ids
  PROVE  NextId \notin Stored /\ Stored \union {NextId} = 1..NextId /\ NextId \in 0..MaxTransfers
<1>1. PICK n \in 0..MaxTransfers : Stored = 1..n
  BY DEF StoreOK, Numbered
<1>2. n \in Nat
  OBVIOUS
<1>3. Cardinality(Stored) = n
  <2>1. Cardinality(1..n) = IF 1 <= n THEN n - 1 + 1 ELSE 0
    BY <1>2, FS_Interval
  <2> QED BY <1>1, <1>2, <2>1
<1>4. NextId = n + 1
  BY <1>3 DEF NextId
<1> QED BY <1>1, <1>2, <1>4 DEF Ids

\* The terms of a new transfer.
LEMMA RequestTerms ==
  ASSUME StoreTypeOK, NEW r \in Wishes
  PROVE  /\ Request(r) \in Terms /\ Request(r) # None /\ Request(r).key = r.key
         /\ Request(r).source = r.source /\ Request(r).amount = r.amount
         /\ r.source \in Accounts /\ r.amount \in Nat /\ r.key \in Keys \union {None}
<1>1. clock \in 0..MaxClock /\ Amounts \subseteq Nat
  BY StoreAssumptions DEF StoreTypeOK
<1>2. CASE r \in [kind : {"internal"}, source : Accounts, dest : Destinations, amount : Amounts,
                  key : Keys \union {None}, confirmDuplicate : BOOLEAN]
  <2>1. /\ r.kind = "internal" /\ r.source \in Accounts /\ r.dest \in Destinations
        /\ r.amount \in Amounts /\ r.key \in Keys \union {None}
    BY <1>2
  <2>2. Request(r) \in [kind : {"internal"}, source : Accounts, dest : Destinations,
                       amount : Amounts, at : 0..MaxClock, key : Keys \union {None}]
    BY <1>1, <2>1 DEF Request
  <2>3. Request(r) \in Terms
    BY <2>2 DEF Terms
  <2> QED BY <1>1, <2>1, <2>3, NoneIsNothing DEF Request
<1>3. CASE r \in [kind : {"external_outbound"}, source : Accounts, dest : Payees, amount : Amounts,
                  key : Keys \union {None}, confirmDuplicate : BOOLEAN]
  <2>1. /\ r.kind = "external_outbound" /\ r.source \in Accounts /\ r.dest \in Payees
        /\ r.amount \in Amounts /\ r.key \in Keys \union {None}
    BY <1>3
  <2>2. Request(r) \in [kind : {"external_outbound"}, source : Accounts, dest : Payees,
                       amount : Amounts, at : 0..MaxClock, key : Keys \union {None}]
    BY <1>1, <2>1 DEF Request
  <2>3. Request(r) \in Terms
    BY <2>2 DEF Terms
  <2> QED BY <1>1, <2>1, <2>3, NoneIsNothing DEF Request
<1> QED BY <1>2, <1>3 DEF Wishes

\* A new transfer takes the place of the pending one.
LEMMA NewTransfer ==
  ASSUME StoreOK, NEW r \in Wishes, ~Known(r), NextId \in Ids,
         NEW superseded \in {"CANCELLED", "EXPIRED"}, Store(NextId, r, superseded),
         UNCHANGED <<clock, tokens, usableFrom, balance>>,
         hold' \in [Ids -> {None, "PLACED", "SETTLED", "RELEASED"}],
         held' \in [Accounts -> Int],
         \A j \in Ids : hold'[j] # None => hold[j] # None \/ j = NextId,
         HoldsAddUp'
  PROVE  StoreOK' /\ Kept /\ NextId \in Stored'
<1> DEFINE new == NextId
<1>0. /\ StoreTypeOK /\ new \in Ids /\ new \notin Stored /\ Stored \union {new} = 1..new
      /\ new \in 0..MaxTransfers /\ None \notin Ids
  BY NextIdFresh, TransferOf DEF StoreOK
<1>1. /\ Request(r) \in Terms /\ Request(r) # None /\ Request(r).key = r.key
      /\ r.key \in Keys \union {None}
  BY <1>0, RequestTerms
<1>2. /\ terms' = [terms EXCEPT ![new] = Request(r)]
      /\ byKey' = IF r.key = None THEN byKey ELSE [byKey EXCEPT ![r.key] = new]
      /\ activePending' = new
      /\ status' = [j \in Ids |-> IF j = new THEN "PENDING"
                                  ELSE IF j \in Prior THEN superseded ELSE status[j]]
  BY DEF Store
<1> HIDE DEF new
<1>3. StoreTypeOK'
  <2>1. /\ terms' \in [Ids -> Terms \union {None}]
        /\ byKey' \in [Keys -> Ids \union {None}]
        /\ status' \in [Ids -> {None, "PENDING", "POSTED", "CANCELLED", "EXPIRED"}]
    BY <1>0, <1>1, <1>2 DEF StoreTypeOK
  <2> QED BY <1>0, <1>2, <2>1 DEF StoreTypeOK
<1>4. /\ Stored' = Stored \union {new}
      /\ \A j \in Ids : terms'[j] = IF j = new THEN Request(r) ELSE terms[j]
  BY <1>0, <1>1, <1>2 DEF Stored, StoreTypeOK
<1>5. \A j \in Ids : j \in Prior <=> Pending(j)
  BY DEF Prior, StoreOK, OnePending
<1>6. Numbered'
  <2>1. \A j \in Ids : (status'[j] # None <=> j \in Stored') /\ (hold'[j] # None => j \in Stored')
    BY <1>0, <1>2, <1>4, <1>5, StoreAssumptions DEF StoreOK, Numbered, Pending, new
  <2> QED BY <1>0, <1>4, <2>1 DEF Numbered
<1>7. KeysKept'
  <2>1. \A k \in Keys : byKey'[k] = IF k = r.key THEN new ELSE byKey[k]
    BY <1>0, <1>1, <1>2, StoreAssumptions DEF StoreTypeOK, Keys
  <2>2. \A k \in Keys : byKey'[k] # None => byKey'[k] \in Stored'
    BY <1>4, <2>1 DEF StoreOK, KeysKept
  <2>3. ASSUME NEW j \in Stored', terms'[j].key # None PROVE byKey'[terms'[j].key] = j
    <3>1. CASE j = new
      <4>1. terms'[j].key = r.key BY <1>0, <1>1, <1>4, <3>1
      <4> QED BY <1>1, <2>1, <2>3, <3>1, <4>1
    <3>2. CASE j # new
      <4>1. j \in Stored /\ terms'[j] = terms[j] /\ terms[j].key \in Keys
        BY <1>0, <1>4, <2>3, <3>2, TransferOf
      <4>2. byKey[terms[j].key] = j BY <2>3, <4>1 DEF StoreOK, KeysKept
      <4>3. terms[j].key # r.key
        <5>1. j # None BY <1>0, <4>1 DEF Stored
        <5> QED BY <1>1, <2>3, <4>1, <4>2, <5>1 DEF Known
      <4> QED BY <2>1, <4>1, <4>2, <4>3
    <3> QED BY <3>1, <3>2
  <2> QED BY <2>2, <2>3 DEF KeysKept
<1>8. OnePending'
  BY <1>0, <1>2, <1>5 DEF OnePending, Pending
<1>9. Kept
  BY <1>0, <1>2, <1>4, <1>5, StoreAssumptions
     DEF Kept, Finals, Pending, StoreOK, Numbered, StoreTypeOK, Stored
<1> QED BY <1>3, <1>4, <1>6, <1>7, <1>8, <1>9 DEF StoreOK, new

LEMMA InternalOK ==
  ASSUME StoreOK, NEW r \in Wishes, ~Known(r), NextId \in Ids, Store(NextId, r, "CANCELLED"),
         UNCHANGED <<clock, hold, tokens, held, balance, usableFrom>>
  PROVE  StoreOK' /\ Kept /\ NextId \in Stored'
<1> DEFINE new == NextId
<1>0. /\ StoreTypeOK /\ new \in Ids /\ new \notin Stored
      /\ Request(r) # None
      /\ terms' = [terms EXCEPT ![new] = Request(r)]
  BY NextIdFresh, RequestTerms DEF StoreOK, Store
<1> HIDE DEF new
<1>1. hold[new] # "PLACED"
  BY <1>0, StoreAssumptions DEF StoreOK, Numbered
<1>2. ASSUME NEW a \in Accounts
      PROVE  /\ held'[a] = Total([j \in PlacedOn(a)' |-> terms'[j].amount])
             /\ held'[a] <= balance'[a]
  <2>1. \A j \in Ids : hold[j] = "PLACED" => j \in Stored' /\ terms'[j] = terms[j]
    BY <1>0, <1>1, StoreAssumptions DEF StoreOK, Numbered, StoreTypeOK, Stored
  <2>2. PlacedOn(a)' = PlacedOn(a) /\ \A j \in PlacedOn(a) : terms'[j] = terms[j]
    BY <2>1, StoreAssumptions DEF PlacedOn, Stored, StoreOK, Numbered
  <2>3. [j \in PlacedOn(a)' |-> terms'[j].amount] = [j \in PlacedOn(a) |-> terms[j].amount]
    BY <2>2
  <2> QED BY <2>3 DEF StoreOK, HoldsAddUp
<1>3. HoldsAddUp'
  BY <1>2 DEF HoldsAddUp
<1>4. /\ hold' \in [Ids -> {None, "PLACED", "SETTLED", "RELEASED"}] /\ held' \in [Accounts -> Int]
      /\ \A j \in Ids : hold'[j] # None => hold[j] # None
  BY <1>0 DEF StoreTypeOK
<1> QED BY <1>3, <1>4, NewTransfer

\* What an account has held once the prior transfer has given its hold back.
LEMMA GivenBackOf ==
  ASSUME StoreOK, NEW a \in Accounts
  PROVE  LET M == PlacedOn(a) \ Reserving
             m == [j \in M |-> terms[j].amount]
         IN /\ IsFiniteSet(M) /\ m \in [M -> Nat]
            /\ Total(m) = held[a] - GivenBack(a)
            /\ GivenBack(a) \in Nat
<1> DEFINE S == PlacedOn(a)
           f == [j \in S |-> terms[j].amount]
           M == S \ Reserving
           m == [j \in M |-> terms[j].amount]
<1>0. /\ IsFiniteSet(S) /\ f \in [S -> Nat] /\ held[a] = Total(f) /\ held[a] \in Int
  BY HeldTerms DEF StoreOK, HoldsAddUp, StoreTypeOK
<1>1. \A i \in Reserving : i = activePending /\ i \in Stored /\ hold[i] = "PLACED"
  BY StoreAssumptions DEF Reserving, Prior, StoreOK, Numbered
<1>2. CASE \E i \in Reserving : terms[i].source = a
  <2>1. /\ activePending \in S /\ M = S \ {activePending}
        /\ GivenBack(a) = f[activePending]
    BY <1>1, <1>2 DEF PlacedOn, GivenBack
  <2>2. m = [j \in S \ {activePending} |-> f[j]] /\ m \in [M -> Nat] /\ f[activePending] \in Nat
    BY <1>0, <2>1
  <2>3. IsFiniteSet(M)
    BY <1>0, <2>1, FS_RemoveElement
  <2> HIDE DEF S, f, m
  <2>4. Total([j \in S \ {activePending} |-> f[j]]) = Total(f) - f[activePending]
    BY <1>0, <2>1, TotalRemove
  <2> QED BY <1>0, <2>1, <2>2, <2>3, <2>4 DEF S, m
<1>3. CASE ~\E i \in Reserving : terms[i].source = a
  <2>1. M = S /\ GivenBack(a) = 0
    BY <1>3 DEF PlacedOn, GivenBack
  <2>2. m = f
    BY <2>1
  <2> HIDE DEF S, f, m
  <2> QED BY <1>0, <2>1, <2>2 DEF S, m
<1> QED BY <1>2, <1>3

LEMMA ExternalOK ==
  ASSUME StoreOK, NEW r \in Wishes, ~Known(r), NextId \in Ids, EnoughFunds(r),
         NEW superseded \in {"CANCELLED", "EXPIRED"}, Store(NextId, r, superseded),
         Reserve(NextId, r), UNCHANGED <<clock, tokens, balance, usableFrom>>
  PROVE  StoreOK' /\ Kept /\ NextId \in Stored'
<1> DEFINE new == NextId
<1>0. /\ StoreTypeOK /\ new \in Ids /\ new \notin Stored
      /\ Request(r) # None /\ Request(r).source = r.source /\ Request(r).amount = r.amount
      /\ r.source \in Accounts /\ r.amount \in Nat
      /\ terms' = [terms EXCEPT ![new] = Request(r)]
      /\ hold' = [j \in Ids |-> IF j = new THEN "PLACED"
                                ELSE IF j \in Reserving THEN "RELEASED" ELSE hold[j]]
      /\ held' = [a \in Accounts |->
                    held[a] - GivenBack(a) + IF a = r.source THEN r.amount ELSE 0]
  BY NextIdFresh, RequestTerms DEF StoreOK, Store, Reserve
<1> HIDE DEF new
<1>1. \A a \in Accounts : held[a] \in Int /\ balance[a] \in Int /\ held[a] <= balance[a]
                          /\ GivenBack(a) \in Nat
  BY GivenBackOf DEF StoreOK, StoreTypeOK, HoldsAddUp
<1>2. \A j \in Reserving : j \in Ids /\ hold[j] # None
  BY StoreAssumptions DEF Reserving, Prior
<1>3. /\ hold' \in [Ids -> {None, "PLACED", "SETTLED", "RELEASED"}]
      /\ held' \in [Accounts -> Int]
      /\ \A j \in Ids : hold'[j] # None => hold[j] # None \/ j = new
  BY <1>0, <1>1, <1>2 DEF StoreTypeOK
<1>4. /\ Stored' = Stored \union {new}
      /\ \A j \in Stored : terms'[j] = terms[j]
      /\ terms'[new] = Request(r)
  BY <1>0 DEF Stored, StoreTypeOK
<1>5. \A j \in Ids : hold'[j] = "PLACED" <=> j = new \/ (hold[j] = "PLACED" /\ j \notin Reserving)
  BY <1>0
<1>6. ASSUME NEW a \in Accounts
      PROVE  /\ held'[a] = Total([j \in PlacedOn(a)' |-> terms'[j].amount])
             /\ held'[a] <= balance'[a]
  <2> DEFINE M == PlacedOn(a) \ Reserving
             m == [j \in M |-> terms[j].amount]
             g == [j \in PlacedOn(a)' |-> terms'[j].amount]
  <2>1. /\ IsFiniteSet(M) /\ m \in [M -> Nat] /\ Total(m) = held[a] - GivenBack(a)
        /\ M \subseteq Stored /\ new \notin M
    BY <1>0, GivenBackOf DEF PlacedOn
  <2>2. CASE a = r.source
    <3>1. PlacedOn(a)' = M \union {new}
      BY <1>0, <1>4, <1>5, <2>2 DEF PlacedOn, Stored
    <3>2. g \in [M \union {new} -> Nat] /\ g[new] = r.amount /\ [j \in M |-> g[j]] = m
      BY <1>0, <1>4, <2>1, <3>1
    <3>3. held'[a] = held[a] - GivenBack(a) + r.amount
      BY <1>0, <2>2
    <3>4. r.amount <= balance[a] - held[a] + GivenBack(a)
      BY <2>2 DEF EnoughFunds, Available
    <3>5. held'[a] <= balance'[a]
      BY <1>0, <1>1, <3>3, <3>4
    <3> HIDE DEF M, m, g
    <3>6. Total(g) = Total([j \in M |-> g[j]]) + g[new]
      BY <2>1, <3>2, TotalAdd
    <3>7. held'[a] = Total(g)
      BY <2>1, <3>2, <3>3, <3>6
    <3> QED BY <3>5, <3>7 DEF g
  <2>3. CASE a # r.source
    <3>1. PlacedOn(a)' = M
      BY <1>0, <1>4, <1>5, <2>3 DEF PlacedOn, Stored
    <3>2. g = m
      BY <1>4, <2>1, <3>1
    <3>3. held'[a] = held[a] - GivenBack(a) /\ held'[a] <= balance'[a]
      BY <1>0, <1>1, <2>3
    <3> HIDE DEF m, g
    <3>4. held'[a] = Total(g)
      BY <2>1, <3>2, <3>3
    <3> QED BY <3>3, <3>4 DEF g
  <2> QED BY <2>2, <2>3
<1>7. HoldsAddUp'
  BY <1>6 DEF HoldsAddUp
<1> QED BY <1>3, <1>7, NewTransfer DEF new

-----------------------------------------------------------------------------
(* The handlers.                                                            *)

LEMMA SameRows ==
  ASSUME StoreOK, UNCHANGED <<rows, byKey>>, clock' \in 0..MaxClock,
         tokens' \subseteq Destinations,
         usableFrom' \in [Payees -> 0..(MaxClock + CoolingOff) \union {None}]
  PROVE  StoreOK' /\ Kept
<1>1. StoreTypeOK' BY DEF StoreOK, StoreTypeOK, rows
<1>2. Stored' = Stored BY DEF rows, Stored
<1>3. Numbered' /\ KeysKept' /\ OnePending' /\ Kept
  BY <1>2 DEF StoreOK, Numbered, KeysKept, OnePending, Pending, Kept, rows
<1>4. \A a : PlacedOn(a)' = PlacedOn(a) BY <1>2 DEF PlacedOn, rows
<1>5. HoldsAddUp' BY <1>4 DEF StoreOK, HoldsAddUp, rows
<1> QED BY <1>1, <1>3, <1>5 DEF StoreOK

LEMMA NothingDone ==
  ASSUME StoreOK, UNCHANGED storeVars
  PROVE  StoreOK' /\ Kept
BY SameRows DEF StoreOK, StoreTypeOK, storeVars, rows

LEMMA ExpiryOK ==
  ASSUME StoreOK, NEW i \in Ids, ApplyLazyExpiry(i), UNCHANGED others
  PROVE  StoreOK' /\ Kept /\ (Expired(i) => status'[i] = "EXPIRED")
<1>1. CASE Overdue(i)
  BY <1>1, EndsOK DEF ApplyLazyExpiry, Overdue, Finals
<1>2. CASE ~Overdue(i)
  BY <1>2, SameRows DEF ApplyLazyExpiry, Expired, rows, others, StoreOK, StoreTypeOK
<1> QED BY <1>1, <1>2

\* What an initiate answers with is a transfer that exists.
LEMMA InitiateOK ==
  ASSUME StoreOK, NEW r \in Wishes, NEW answer, Initiate(r, answer)
  PROVE  StoreOK' /\ Kept /\ (answer.ok => answer.id \in Stored')
<1>0. /\ r.key \in Keys \union {None}
      /\ \A code : ~Refuses(code).ok
      /\ \A i : Returns(i).id = i
  BY RequestTerms DEF Refuses, Returns, StoreOK
<1>1. ASSUME Replay(r, answer) PROVE StoreOK' /\ Kept /\ (answer.ok => answer.id \in Stored')
  <2>1. byKey[r.key] \in Stored /\ byKey[r.key] \in Ids /\ answer.id = byKey[r.key]
    BY <1>0, <1>1 DEF Replay, Known, StoreOK, KeysKept, Stored
  <2>2. StoreOK' /\ Kept
    BY <1>1, <2>1, ExpiryOK DEF Replay
  <2> QED BY <2>1, <2>2 DEF Kept
<1>2. ASSUME NEW code, Refuse(code, answer)
      PROVE  StoreOK' /\ Kept /\ (answer.ok => answer.id \in Stored')
  BY <1>0, <1>2, NothingDone DEF Refuse
<1>3. ASSUME InitiateTransfer(r, answer)
      PROVE  StoreOK' /\ Kept /\ (answer.ok => answer.id \in Stored')
  <2>1. CASE /\ ~Known(r) /\ NextId \in Ids /\ answer = Returns(NextId)
             /\ Store(NextId, r, "CANCELLED")
             /\ UNCHANGED <<clock, hold, tokens, held, balance, usableFrom>>
    BY <1>0, <2>1, InternalOK
  <2> QED BY <1>1, <1>2, <1>3, <2>1 DEF InitiateTransfer
<1>4. ASSUME InitiateExternalTransfer(r, answer)
      PROVE  StoreOK' /\ Kept /\ (answer.ok => answer.id \in Stored')
  <2> DEFINE lapsed == \E i \in Prior : Overdue(i)
  <2>1. CASE /\ answer = Refuses("INSUFFICIENT_FUNDS")
             /\ IF lapsed THEN ApplyLazyExpiry(activePending) ELSE UNCHANGED rows
             /\ UNCHANGED others
    <3>1. CASE lapsed
      <4>1. activePending \in Ids BY <3>1 DEF Prior
      <4> QED BY <1>0, <2>1, <3>1, <4>1, ExpiryOK
    <3>2. CASE ~lapsed
      BY <1>0, <2>1, <3>2, NothingDone DEF storeVars, rows, others
    <3> QED BY <3>1, <3>2
  <2>2. CASE /\ ~Known(r) /\ EnoughFunds(r) /\ NextId \in Ids /\ answer = Returns(NextId)
             /\ Store(NextId, r, IF lapsed THEN "EXPIRED" ELSE "CANCELLED")
             /\ Reserve(NextId, r)
             /\ UNCHANGED <<clock, tokens, balance, usableFrom>>
    <3>1. (IF lapsed THEN "EXPIRED" ELSE "CANCELLED") \in {"CANCELLED", "EXPIRED"}
      OBVIOUS
    <3> HIDE DEF lapsed
    <3> QED BY <1>0, <2>2, <3>1, ExternalOK
  <2> QED BY <1>1, <1>2, <1>4, <2>1, <2>2 DEF InitiateExternalTransfer
<1> QED BY <1>3, <1>4 DEF Initiate

LEMMA ConfirmOK ==
  ASSUME StoreOK, NEW i \in Ids, NEW codeIsRight, NEW answer,
         ConfirmTransfer(i, codeIsRight, answer)
  PROVE  StoreOK' /\ Kept /\ (answer.ok => status'[i] = "POSTED")
<1>0. \A code : ~Refuses(code).ok
  BY DEF Refuses
<1>1. UNCHANGED others
  BY DEF ConfirmTransfer
<1>2. CASE answer = Refuses("TRANSFER_EXPIRED") /\ ApplyLazyExpiry(i)
  BY <1>0, <1>1, <1>2, ExpiryOK
<1>3. CASE UNCHANGED rows /\ (answer.ok => status[i] = "POSTED")
  <2>1. StoreOK' /\ Kept BY <1>1, <1>3, NothingDone DEF storeVars, rows, others
  <2> QED BY <1>3, <2>1 DEF rows
<1>4. CASE Pending(i) /\ Ends(i, "POSTED")
  BY <1>1, <1>4, EndsOK DEF Finals
<1> QED BY <1>0, <1>2, <1>3, <1>4 DEF ConfirmTransfer

LEMMA CancelOK ==
  ASSUME StoreOK, NEW i \in Ids, NEW answer, CancelTransfer(i, answer)
  PROVE  StoreOK' /\ Kept /\ (answer.ok => status'[i] \in {"CANCELLED", "EXPIRED"})
<1>0. \A code : ~Refuses(code).ok
  BY DEF Refuses
<1>1. UNCHANGED others
  BY DEF CancelTransfer
<1>2. CASE Expired(i) /\ ApplyLazyExpiry(i)
  BY <1>1, <1>2, ExpiryOK
<1>3. CASE UNCHANGED rows /\ (answer.ok => status[i] = "CANCELLED")
  <2>1. StoreOK' /\ Kept BY <1>1, <1>3, NothingDone DEF storeVars, rows, others
  <2> QED BY <1>3, <2>1 DEF rows
<1>4. CASE Pending(i) /\ Ends(i, "CANCELLED")
  BY <1>1, <1>4, EndsOK DEF Finals
<1> QED BY <1>0, <1>2, <1>3, <1>4 DEF CancelTransfer

\* A read of the feed expires what is overdue, which the feed does not show anyway.
LEMMA FeedReadOK ==
  ASSUME StoreOK, GetPendingAuthorization, UNCHANGED others
  PROVE  StoreOK' /\ Kept /\ PendingAuthorization' = PendingAuthorization
<1>1. CASE UNCHANGED rows
  <2>1. StoreOK' /\ Kept BY <1>1, NothingDone DEF storeVars, rows, others
  <2>2. PendingAuthorization' = PendingAuthorization
    BY <1>1 DEF rows, others, PendingAuthorization, Prior, Pending, Overdue
  <2> QED BY <2>1, <2>2
<1>2. CASE Prior # {} /\ Overdue(activePending) /\ Ends(activePending, "EXPIRED")
  <2>1. activePending \in Ids /\ Pending(activePending)
    BY <1>2 DEF Prior
  <2>2. StoreOK' /\ Kept
    BY <1>2, <2>1, EndsOK DEF Finals
  <2>3. PendingAuthorization = {}
    BY <1>2 DEF PendingAuthorization, Prior
  <2>4. activePending' = None
    BY <1>2 DEF Ends
  <2>5. PendingAuthorization' = {}
    BY <2>2, <2>4, TransferOf DEF PendingAuthorization, Prior, StoreOK
  <2> QED BY <2>2, <2>3, <2>5
<1> QED BY <1>1, <1>2 DEF GetPendingAuthorization, ApplyLazyExpiry

-----------------------------------------------------------------------------
(* What the tab believes, whatever the rows do.                             *)

LEMMA CallKept ==
  ASSUME Kept, NEW c, CallOK(c)
  PROVE  CallOK(c)'
BY DEF Kept, CallOK, Finals, Stored

LEMMA WizardKept ==
  ASSUME Kept, WizardOK, wizard' = wizard
  PROVE  WizardOK'
<1>1. wizard.view \in Stored => wizard.view \in Ids
  BY DEF Stored
<1> QED BY <1>1 DEF Kept, WizardOK, ScreenTellsOutcome, Finals

\* The feed stays current as long as nothing pending changes behind its back.
LEMMA FeedKept ==
  ASSUME Kept, FeedOK, UNCHANGED <<feed, reading>>, stale => stale', untold => untold',
         Awaited(calls') = {} => Awaited(calls) = {},
         stale' \/ untold' \/ Awaited(calls') # {} \/ PendingAuthorization' = PendingAuthorization
  PROVE  FeedOK'
BY DEF FeedOK, Kept, Awaited

\* The wizard moves on by itself, away from a page that decides nothing.
LEMMA WizardStep ==
  ASSUME StoreOK, TabOK, Kept, UNCHANGED <<page, resumed, calls, feed, reading, stale, upsets, untold>>,
         PendingAuthorization' = PendingAuthorization,
         minted' \in 0..MaxKeys,
         wizard.step # "awaitingOtp", wizard' \in Wizards,
         wizard'.step \in {"confirmPayee", "amount"} => wizard'.dest \in Destinations,
         wizard'.step \notin {"awaitingOtp", "posted", "cancelled"}
  PROVE  TabOK'
<1>1. WizardOK' BY DEF WizardOK, ScreenTellsOutcome
<1>2. CallsOK' BY CallKept DEF TabOK, CallsOK, Deciding
<1>3. FeedOK' BY FeedKept DEF TabOK
<1> QED BY <1>1, <1>2, <1>3 DEF TabOK

LEMMA BlankOK ==
  /\ Blank \in Wizards /\ Blank.step = "resolve"
  /\ \A k \in Keys : Compose(k) \in Wizards /\ Compose(k).step = "compose"
  /\ \A i \in Ids : /\ ResumePending(i) \in Wizards /\ ResumePending(i).step = "awaitingOtp"
                    /\ ResumePending(i).view = i
BY DEF Blank, Compose, ResumePending, Wizards, Steps

\* The pages move on.
LEMMA LocalSteps ==
  ASSUME StoreOK, TabOK,
         (\E d \in Destinations : Resolve(d)) \/ ConfirmPayee \/ StartOver \/ StartNew
  PROVE  StoreOK' /\ TabOK'
<1>0. wizard \in Wizards /\ minted \in 0..MaxKeys /\ MaxKeys \in Nat
  BY StoreAssumptions DEF TabOK, WizardOK
<1>1. ASSUME NEW d \in Destinations, Resolve(d) PROVE StoreOK' /\ TabOK'
  <2>1. StoreOK' /\ Kept
    BY <1>1, SameRows DEF Resolve, ResolveDestination, StoreOK, StoreTypeOK
  <2>2. PendingAuthorization' = PendingAuthorization
    BY <1>1 DEF Resolve, ResolveDestination, PendingAuthorization, Prior, Pending, Overdue, rows
  <2>3. wizard' = [wizard EXCEPT !.step = "confirmPayee", !.dest = d]
    BY <1>1 DEF Resolve, DestinationResolved
  <2>4. wizard' \in Wizards /\ wizard'.dest = d /\ wizard'.step = "confirmPayee"
    BY <1>0, <2>3 DEF Wizards, Steps
  <2>5. wizard.step # "awaitingOtp"
        /\ UNCHANGED <<page, resumed, minted, calls, feed, reading, stale, upsets, untold>>
    BY <1>1 DEF Resolve
  <2> QED BY <1>0, <2>1, <2>2, <2>4, <2>5, WizardStep
<1>2. ASSUME UNCHANGED storeVars
      PROVE  /\ StoreOK' /\ Kept /\ PendingAuthorization' = PendingAuthorization
  <2>1. StoreOK' /\ Kept BY <1>2, NothingDone
  <2> QED BY <1>2, <2>1 DEF storeVars, PendingAuthorization, Prior, Pending, Overdue
<1>3. ASSUME ConfirmPayee PROVE StoreOK' /\ TabOK'
  <2>1. minted' \in Keys /\ minted' \in 0..MaxKeys
    BY <1>0, <1>3 DEF ConfirmPayee, Keys
  <2>2. /\ wizard' = [wizard EXCEPT !.step = "amount", !.key = minted', !.suspected = FALSE]
        /\ wizard.step = "confirmPayee"
    BY <1>3 DEF ConfirmPayee, PayeeConfirmed
  <2>3. wizard' \in Wizards /\ wizard'.dest = wizard.dest /\ wizard'.step = "amount"
    BY <1>0, <2>1, <2>2 DEF Wizards, Steps
  <2>4. UNCHANGED storeVars
        /\ UNCHANGED <<page, resumed, calls, feed, reading, stale, upsets, untold>>
    BY <1>3 DEF ConfirmPayee
  <2>5. wizard.dest \in Destinations
    BY <2>2 DEF TabOK, WizardOK
  <2> QED BY <1>2, <2>1, <2>2, <2>3, <2>4, <2>5, WizardStep
<1>4. ASSUME StartOver PROVE StoreOK' /\ TabOK'
  BY <1>0, <1>2, <1>4, BlankOK, WizardStep DEF StartOver
<1>5. ASSUME StartNew PROVE StoreOK' /\ TabOK'
  <2>1. minted' \in Keys /\ minted' \in 0..MaxKeys
    BY <1>0, <1>5 DEF StartNew, Keys
  <2> QED BY <1>2, <1>5, <2>1, BlankOK, WizardStep DEF StartNew
<1> QED BY <1>1, <1>3, <1>4, <1>5

\* What is pending does not depend on the other variables of the server.
LEMMA PendingSame ==
  ASSUME UNCHANGED <<rows, clock>>
  PROVE  PendingAuthorization' = PendingAuthorization
BY DEF PendingAuthorization, Prior, Pending, Overdue, rows

LEMMA SendOK ==
  ASSUME StoreOK, TabOK, NEW c, NEW ops, Send(c, ops), CallOK(c), c.by = "page",
         Deciding(c) => ops = {"confirm", "cancel"}
                        /\ wizard.step = "awaitingOtp" /\ wizard.view = c.id,
         UNCHANGED <<page, wizard, resumed, minted, feed, reading, stale>>
  PROVE  StoreOK' /\ TabOK'
<1>1. StoreOK' /\ Kept
  BY NothingDone DEF Send
<1>2. calls' = calls \union {c} /\ UNCHANGED <<upsets, untold>>
  BY DEF Send
<1>3. WizardOK'
  BY <1>1, WizardKept DEF TabOK
<1>4. CallsOK'
  <2>1. \A d \in calls' : CallOK(d)'
    BY <1>1, <1>2, CallKept DEF TabOK, CallsOK
  <2>2. ASSUME NEW d \in calls', Deciding(d) PROVE wizard'.step = "awaitingOtp" /\ wizard'.view = d.id
    BY <1>2, <2>2 DEF TabOK, CallsOK
  <2>3. Deciding(c) => \A d \in calls : ~Deciding(d)
    BY DEF Send, OnTheWire, Deciding
  <2>4. \A d, e \in calls' : Deciding(d) /\ Deciding(e) => d = e
    BY <1>2, <2>3 DEF TabOK, CallsOK
  <2> QED BY <2>1, <2>2, <2>4 DEF CallsOK, Deciding
<1>5. FeedOK'
  <2>1. c \in Awaited(calls') /\ Awaited(calls) \subseteq Awaited(calls')
    BY <1>2 DEF Awaited
  <2> QED BY <1>1, <1>2, <2>1, FeedKept DEF TabOK
<1> QED BY <1>1, <1>2, <1>3, <1>4, <1>5 DEF TabOK

\* The customer asks for something.
LEMMA SendSteps ==
  ASSUME StoreOK, TabOK,
         \/ \E a \in Accounts, x \in Inputs :
              SubmitAmount(a, x) \/ \E p \in Payees : SubmitExternal(a, p, x)
         \/ Confirm \/ Cancel
  PROVE  StoreOK' /\ TabOK'
<1>0. wizard \in Wizards
  BY DEF TabOK, WizardOK
<1>1. ASSUME NEW req \in Wishes PROVE CallOK(Call("initiate", req, None))
  BY <1>1 DEF CallOK, Call, CallRecords
<1>2. ASSUME NEW req \in Wishes, Send(Call("initiate", req, None), {"initiate"}),
             UNCHANGED <<page, wizard, resumed, minted, feed, reading, stale>>
      PROVE  StoreOK' /\ TabOK'
  <2>1. Call("initiate", req, None).by = "page" /\ ~Deciding(Call("initiate", req, None))
    BY DEF Call, Deciding
  <2> QED BY <1>1, <1>2, <2>1, SendOK
<1>3. ASSUME NEW a \in Accounts, NEW x \in Inputs, SubmitAmount(a, x)
      PROVE  StoreOK' /\ TabOK'
  <2> DEFINE req == [kind |-> "internal", source |-> a, dest |-> wizard.dest, amount |-> ToMinor(x),
                     key |-> wizard.key, confirmDuplicate |-> wizard.suspected]
  <2>1. wizard.dest \in Destinations /\ wizard.key \in Keys \union {None}
        /\ wizard.suspected \in BOOLEAN
    BY <1>0, <1>3 DEF SubmitAmount, TabOK, WizardOK, Wizards
  <2>a. ToMinor(x) \in Amounts
    BY <1>3, AppAssumptions DEF SubmitAmount, Attempt
  <2>2. req \in Wishes
    BY <2>1, <2>a DEF Wishes
  <2>3. Send(Call("initiate", req, None), {"initiate"})
        /\ UNCHANGED <<page, wizard, resumed, minted, feed, reading, stale>>
    BY <1>3 DEF SubmitAmount, Attempt
  <2> HIDE DEF req
  <2> QED BY <1>2, <2>2, <2>3
<1>4. ASSUME NEW a \in Accounts, NEW x \in Inputs, NEW p \in Payees, SubmitExternal(a, p, x)
      PROVE  StoreOK' /\ TabOK'
  <2> DEFINE req == [kind |-> "external_outbound", source |-> a, dest |-> p, amount |-> ToMinor(x),
                     key |-> wizard.key, confirmDuplicate |-> wizard.suspected]
  <2>1. wizard.key \in Keys \union {None} /\ wizard.suspected \in BOOLEAN
    BY <1>0 DEF Wizards
  <2>a. ToMinor(x) \in Amounts
    BY <1>4, AppAssumptions DEF SubmitExternal, Attempt
  <2>2. req \in Wishes
    BY <2>1, <2>a DEF Wishes
  <2>3. Send(Call("initiate", req, None), {"initiate"})
        /\ UNCHANGED <<page, wizard, resumed, minted, feed, reading, stale>>
    BY <1>4 DEF SubmitExternal, Attempt
  <2> HIDE DEF req
  <2> QED BY <1>2, <2>2, <2>3
<1>5. ASSUME NEW op \in {"confirm", "cancel"}, wizard.step = "awaitingOtp",
             Send(Call(op, Nothing, wizard.view), {"confirm", "cancel"}),
             UNCHANGED <<page, wizard, resumed, minted, feed, reading, stale>>
      PROVE  StoreOK' /\ TabOK'
  <2> DEFINE c == Call(op, Nothing, wizard.view)
  <2>1. wizard.view \in Stored /\ wizard.view \in Ids
    BY <1>5 DEF TabOK, WizardOK, Stored
  <2>2. CallOK(c) /\ c.by = "page" /\ c.id = wizard.view
    BY <2>1 DEF CallOK, Call, CallRecords
  <2> HIDE DEF c
  <2> QED BY <1>5, <2>2, SendOK DEF c
<1>6. CASE Confirm
  BY <1>5, <1>6 DEF Confirm
<1>7. CASE Cancel
  BY <1>5, <1>7 DEF Cancel
<1> QED BY <1>3, <1>4, <1>6, <1>7

LEMMA EnrollOK ==
  ASSUME StoreOK, TabOK, NEW p \in Payees, Enroll(p)
  PROVE  StoreOK' /\ TabOK'
<1>1. UNCHANGED <<rows, clock, byKey, tokens>> /\ UNCHANGED <<tabVars, upsets, untold>>
  BY DEF Enroll, RegisterPayee, Refuse, storeVars, rows
<1>2. usableFrom' \in [Payees -> 0..(MaxClock + CoolingOff) \union {None}]
  <2>1. clock + CoolingOff \in 0..(MaxClock + CoolingOff)
    BY StoreAssumptions DEF StoreOK, StoreTypeOK
  <2>2. usableFrom' = usableFrom \/ usableFrom' = [usableFrom EXCEPT ![p] = clock + CoolingOff]
    BY DEF Enroll, RegisterPayee, Refuse, storeVars
  <2> QED BY <2>1, <2>2 DEF StoreOK, StoreTypeOK
<1>3. StoreOK' /\ Kept
  BY <1>1, <1>2, SameRows DEF StoreOK, StoreTypeOK
<1>4. WizardOK' /\ CallsOK' /\ FeedOK'
  BY <1>1, <1>3, WizardKept, CallKept, FeedKept, PendingSame
     DEF TabOK, tabVars, CallsOK, Deciding
<1> QED BY <1>1, <1>3, <1>4 DEF TabOK, tabVars

LEMMA OpenOK ==
  ASSUME StoreOK, TabOK, NEW p \in Pages, Open(p)
  PROVE  StoreOK' /\ TabOK'
<1>0. /\ UNCHANGED <<storeVars, feed, stale, upsets, untold>> /\ page' = p
      /\ wizard.step \in Steps
  BY DEF Open, TabOK, WizardOK, Wizards
<1>1. StoreOK' /\ Kept /\ PendingAuthorization' = PendingAuthorization /\ Stored' = Stored
  BY <1>0, NothingDone, PendingSame DEF storeVars, rows, Stored
<1>2. minted' \in 0..MaxKeys /\ (p = "ExternalTransferPage" => minted' \in Keys)
  BY StoreAssumptions DEF Open, TabOK, Keys
<1>3. resumed' \in BOOLEAN
  BY DEF Open
<1>4. WizardOK'
  <2>1. CASE feed \in {None, {}}
    <3>1. wizard' = IF p = "ExternalTransferPage" THEN Compose(minted') ELSE Blank
      BY <2>1 DEF Open
    <3>2. wizard' \in Wizards /\ wizard'.step \in {"resolve", "compose"}
      BY <1>2, <3>1, BlankOK
    <3> QED BY <3>2 DEF WizardOK, ScreenTellsOutcome
  <2>2. CASE feed \notin {None, {}}
    <3>1. \E i \in Stored : wizard' = ResumePending(i)
      BY <2>2 DEF Open, TabOK, FeedOK
    <3>2. PICK i \in Stored : wizard' = ResumePending(i)
      BY <3>1
    <3>3. i \in Ids /\ i \in Stored'
      BY <1>1 DEF Stored
    <3> QED BY <3>2, <3>3, BlankOK DEF WizardOK, ScreenTellsOutcome
  <2> QED BY <2>1, <2>2
<1>5. calls' = {IF c.by = "page" THEN [c EXCEPT !.by = "store"] ELSE c : c \in calls}
  BY DEF Open
<1>6. CallsOK'
  <2>1. ASSUME NEW c \in calls
        PROVE  CallOK(IF c.by = "page" THEN [c EXCEPT !.by = "store"] ELSE c)'
               /\ ~Deciding(IF c.by = "page" THEN [c EXCEPT !.by = "store"] ELSE c)
    <3>1. CallOK(c) BY DEF TabOK, CallsOK
    <3>2. CASE c.by = "page"
      <4>1. CallOK([c EXCEPT !.by = "store"]) /\ ~Deciding([c EXCEPT !.by = "store"])
        BY <3>1 DEF CallOK, CallRecords, Deciding
      <4> QED BY <1>1, <3>2, <4>1, CallKept
    <3>3. CASE c.by # "page"
      BY <1>1, <3>1, <3>3, CallKept DEF Deciding
    <3> QED BY <3>2, <3>3
  <2>2. ASSUME NEW d \in calls' PROVE CallOK(d)' /\ ~Deciding(d)
    <3>1. PICK c \in calls : d = IF c.by = "page" THEN [c EXCEPT !.by = "store"] ELSE c
      BY <1>5
    <3> QED BY <2>1, <3>1
  <2> QED BY <2>2 DEF CallsOK, Deciding
<1>7. FeedOK'
  <2>1. Awaited(calls') = {} => Awaited(calls) = {}
    <3>1. ASSUME NEW c \in calls, c.by # "nobody"
          PROVE  Awaited(calls') # {}
      <4> DEFINE d == IF c.by = "page" THEN [c EXCEPT !.by = "store"] ELSE c
      <4>1. d \in calls' BY <1>5
      <4>2. d.by # "nobody"
        BY <3>1 DEF TabOK, CallsOK, CallOK, CallRecords
      <4> HIDE DEF d
      <4> QED BY <4>1, <4>2 DEF Awaited
    <3> QED BY <3>1 DEF Awaited
  <2>2. reading' = IF feed = None /\ reading = Unasked THEN Asked ELSE reading
    BY DEF Open
  <2>3. Asked \in Readings /\ Asked.phase = "asked" /\ Asked # Unasked
    BY DEF Asked, Unasked, Readings
  <2> QED BY <1>0, <1>1, <2>1, <2>2, <2>3 DEF TabOK, FeedOK
<1> QED BY <1>0, <1>1, <1>2, <1>3, <1>4, <1>6, <1>7 DEF TabOK

-----------------------------------------------------------------------------
(* The wire.                                                                *)

\* An answer that is no error is true.
Truly(c, answer) ==
  /\ c.op = "initiate" /\ answer.ok => answer.id \in Stored
  /\ c.op = "confirm" /\ answer.ok => status[c.id] = "POSTED"
  /\ c.op = "cancel" /\ answer.ok => status[c.id] \in {"CANCELLED", "EXPIRED"}

LEMMA HandleOK ==
  ASSUME StoreOK, NEW c, CallOK(c), NEW answer, Handle(c, answer)
  PROVE  StoreOK' /\ Kept /\ Truly(c, answer)'
<1>1. CASE c.op = "initiate"
  <2>1. c.req \in Wishes /\ Initiate(c.req, answer)
    BY <1>1 DEF CallOK, Handle
  <2> QED BY <1>1, <2>1, InitiateOK DEF Truly
<1>2. CASE c.op = "confirm"
  <2>1. c.id \in Ids BY <1>2 DEF CallOK, Stored
  <2>2. PICK codeIsRight \in BOOLEAN : ConfirmTransfer(c.id, codeIsRight, answer)
    BY <1>2 DEF Handle
  <2> QED BY <1>2, <2>1, <2>2, ConfirmOK DEF Truly
<1>3. CASE c.op = "cancel"
  <2>1. c.id \in Ids BY <1>3 DEF CallOK, Stored
  <2>2. CancelTransfer(c.id, answer)
    BY <1>3 DEF Handle
  <2> QED BY <1>3, <2>1, <2>2, CancelOK DEF Truly
<1> QED BY <1>1, <1>2, <1>3 DEF CallOK, CallRecords

LEMMA ServeOK ==
  ASSUME StoreOK, TabOK, NEW c \in calls, Serve(c)
  PROVE  StoreOK' /\ TabOK'
<1>0. CallOK(c) /\ c \in CallRecords
  BY DEF TabOK, CallsOK, CallOK
<1>1. PICK answer \in Answers :
        /\ Handle(c, answer)
        /\ calls' = IF c.by = "nobody" THEN calls \ {c}
                    ELSE (calls \ {c}) \union {[c EXCEPT !.answer = answer]}
  BY DEF Serve
<1>2. StoreOK' /\ Kept /\ Truly(c, answer)'
  BY <1>0, <1>1, HandleOK
<1>3. /\ UNCHANGED <<page, wizard, resumed, minted, feed, reading, stale, upsets>>
      /\ untold' = (untold \/ (FeedChanges /\ c.by = "nobody"))
  BY DEF Serve
<1> DEFINE d == [c EXCEPT !.answer = answer]
<1>4. /\ d \in CallRecords /\ d.op = c.op /\ d.by = c.by /\ d.id = c.id /\ d.req = c.req
      /\ d.answer = answer
  BY <1>0 DEF CallRecords
<1> HIDE DEF d
<1>5. CallOK(d)'
  <2>1. CallOK(c)' BY <1>0, <1>2, CallKept
  <2> QED BY <1>2, <1>4, <2>1 DEF CallOK, Truly
<1>6. calls' \subseteq (calls \ {c}) \union {d}
  BY <1>1 DEF d
<1>7. CallsOK'
  <2>1. \A e \in calls' : CallOK(e)'
    BY <1>2, <1>5, <1>6, CallKept DEF TabOK, CallsOK
  <2>2. \A e \in calls' : Deciding(e) => wizard.step = "awaitingOtp" /\ wizard.view = e.id
    BY <1>4, <1>6 DEF TabOK, CallsOK, Deciding
  <2>3. \A e, f \in calls' : Deciding(e) /\ Deciding(f) => e = f
    BY <1>4, <1>6 DEF TabOK, CallsOK, Deciding
  <2> QED BY <1>3, <2>1, <2>2, <2>3 DEF CallsOK, Deciding
<1>8. WizardOK'
  BY <1>2, <1>3, WizardKept DEF TabOK
<1>9. FeedOK'
  <2>1. CASE c.by = "nobody"
    <3>1. Awaited(calls') = {} => Awaited(calls) = {}
      BY <1>1, <2>1 DEF Awaited
    <3> QED BY <1>2, <1>3, <2>1, <3>1, FeedKept DEF TabOK, FeedChanges
  <2>2. CASE c.by # "nobody"
    <3>1. d \in Awaited(calls')
      BY <1>1, <1>4, <2>2 DEF Awaited, d
    <3> QED BY <1>2, <1>3, <2>2, <3>1, FeedKept DEF TabOK
  <2> QED BY <2>1, <2>2
<1>10. untold' \in BOOLEAN
  BY <1>3 DEF TabOK
<1> QED BY <1>2, <1>3, <1>7, <1>8, <1>9, <1>10 DEF TabOK

\* The tab hears of a call: a true answer, or that it failed.
LEMMA HearOK ==
  ASSUME StoreOK, TabOK, UNCHANGED <<storeVars, untold>>, upsets' \in 0..MaxUpsets,
         NEW c \in calls, NEW answer \in Answers, Truly(c, answer),
         NEW rest, Hear(c, answer, rest),
         \A d \in rest : CallOK(d) /\ (Deciding(d) => d \in calls /\ d # c)
  PROVE  StoreOK' /\ TabOK'
<1>0. /\ wizard' = IF c.by = "page" THEN AfterAnswer(wizard, c, answer) ELSE wizard
      /\ calls' = rest /\ stale' = TRUE /\ UNCHANGED <<page, resumed, minted, feed, reading>>
      /\ wizard \in Wizards /\ c \in CallRecords
  BY DEF Hear, TabOK, WizardOK, CallsOK, CallOK
<1>1. StoreOK' /\ Kept /\ Stored' = Stored /\ status' = status
  BY NothingDone DEF storeVars, Stored
<1>2. CASE wizard' = wizard
  <2>1. WizardOK' BY <1>1, <1>2, WizardKept DEF TabOK
  <2>2. CallsOK' BY <1>0, <1>1, <1>2, CallKept DEF TabOK, CallsOK, Deciding
  <2>3. FeedOK' BY <1>0, <1>1 DEF TabOK, FeedOK
  <2> QED BY <1>0, <1>1, <2>1, <2>2, <2>3 DEF TabOK
<1>3. CASE c.by = "page" /\ wizard' # wizard
  <2>1. \/ /\ c.op = "initiate" /\ answer.ok /\ wizard.step \in Initiating
           /\ wizard' = ResumePending(answer.id)
        \/ /\ c.op = "initiate" /\ wizard.step \in Initiating
           /\ wizard' = [wizard EXCEPT !.suspected = TRUE]
        \/ /\ c.op = "confirm" /\ answer.ok /\ wizard.step = "awaitingOtp"
           /\ wizard' = [wizard EXCEPT !.step = "posted"]
        \/ /\ c.op = "cancel" /\ answer.ok /\ wizard.step = "awaitingOtp"
           /\ wizard' = [wizard EXCEPT !.step = "cancelled"]
    BY <1>0, <1>3 DEF AfterAnswer, TransferInitiated, DuplicateSuspected, TransferPosted,
                      TransferCancelled
  <2>2. Deciding(c) => wizard.view = c.id
    BY DEF TabOK, CallsOK
  <2>3. Deciding(c) <=> c.op \in {"confirm", "cancel"}
    BY <1>3 DEF Deciding
  <2>4. \A d \in rest : ~Deciding(d)
    BY <2>1, <2>3 DEF TabOK, CallsOK, Deciding, Initiating
  <2>5. WizardOK'
    <3>1. CASE /\ c.op = "initiate" /\ answer.ok /\ wizard.step \in Initiating
               /\ wizard' = ResumePending(answer.id)
      <4>1. answer.id \in Stored /\ answer.id \in Ids
        BY <3>1 DEF Truly, Stored
      <4> QED BY <1>1, <3>1, <4>1, BlankOK DEF WizardOK, ScreenTellsOutcome
    <3>2. CASE /\ c.op = "initiate" /\ wizard.step \in Initiating
               /\ wizard' = [wizard EXCEPT !.suspected = TRUE]
      <4>1. /\ wizard' \in Wizards /\ wizard'.step = wizard.step /\ wizard'.dest = wizard.dest
            /\ wizard.step \in {"amount", "compose"}
        BY <1>0, <3>2 DEF Wizards, Initiating
      <4> QED BY <4>1 DEF TabOK, WizardOK, ScreenTellsOutcome
    <3>3. CASE /\ c.op = "confirm" /\ answer.ok /\ wizard.step = "awaitingOtp"
               /\ wizard' = [wizard EXCEPT !.step = "posted"]
      <4>1. wizard' \in Wizards /\ wizard'.step = "posted" /\ wizard'.view = c.id
        BY <1>0, <2>2, <2>3, <3>3 DEF Wizards, Steps
      <4>2. wizard'.view \in Stored' /\ status'[wizard'.view] = "POSTED"
        BY <1>1, <2>2, <2>3, <3>3, <4>1 DEF Truly, TabOK, WizardOK
      <4> QED BY <4>1, <4>2 DEF WizardOK, ScreenTellsOutcome
    <3>4. CASE /\ c.op = "cancel" /\ answer.ok /\ wizard.step = "awaitingOtp"
               /\ wizard' = [wizard EXCEPT !.step = "cancelled"]
      <4>1. wizard' \in Wizards /\ wizard'.step = "cancelled" /\ wizard'.view = c.id
        BY <1>0, <2>2, <2>3, <3>4 DEF Wizards, Steps
      <4>2. wizard'.view \in Stored' /\ status'[wizard'.view] \in {"CANCELLED", "EXPIRED"}
        BY <1>1, <2>2, <2>3, <3>4, <4>1 DEF Truly, TabOK, WizardOK
      <4> QED BY <4>1, <4>2 DEF WizardOK, ScreenTellsOutcome
    <3> QED BY <2>1, <3>1, <3>2, <3>3, <3>4
  <2>6. CallsOK' BY <1>0, <1>1, <2>4, CallKept DEF CallsOK, Deciding
  <2>7. FeedOK' BY <1>0, <1>1 DEF TabOK, FeedOK
  <2> QED BY <1>0, <1>1, <2>5, <2>6, <2>7 DEF TabOK
<1> QED BY <1>0, <1>2, <1>3

LEMMA DeliverOK ==
  ASSUME StoreOK, TabOK, NEW c \in calls, Deliver(c)
  PROVE  StoreOK' /\ TabOK'
<1>1. CallOK(c) /\ c.answer \in Answers /\ c.answer # None
  BY DEF Deliver, TabOK, CallsOK, CallOK, CallRecords
<1>2. Truly(c, c.answer)
  BY <1>1 DEF Truly, CallOK
<1>3. /\ Hear(c, c.answer, calls \ {c}) /\ UNCHANGED <<storeVars, untold>>
      /\ upsets' \in 0..MaxUpsets
  BY DEF Deliver, TabOK
<1>4. \A d \in calls \ {c} : CallOK(d) /\ (Deciding(d) => d \in calls /\ d # c)
  BY DEF TabOK, CallsOK
<1> QED BY <1>1, <1>2, <1>3, <1>4, HearOK

LEMMA LoseOK ==
  ASSUME StoreOK, TabOK, NEW c \in calls, Lose(c)
  PROVE  StoreOK' /\ TabOK'
<1> DEFINE failed == Refuses("FETCH_ERROR")
           orphan == [c EXCEPT !.by = "nobody"]
<1>1. failed \in Answers /\ ~failed.ok
  BY DEF Refuses, Answers, Codes
<1>2. PICK onItsWay \in BOOLEAN :
        Hear(c, failed, (calls \ {c}) \union (IF onItsWay THEN {orphan} ELSE {}))
  BY DEF Lose
<1>3. Truly(c, failed)
  BY <1>1 DEF Truly
<1>4. UNCHANGED <<storeVars, untold>> /\ upsets' \in 0..MaxUpsets
  BY AppAssumptions DEF Lose, TabOK
<1>5. CallOK(orphan) /\ ~Deciding(orphan)
  BY DEF TabOK, CallsOK, CallOK, CallRecords, Deciding
<1> DEFINE rest == (calls \ {c}) \union (IF onItsWay THEN {orphan} ELSE {})
<1>6. \A d \in rest : CallOK(d) /\ (Deciding(d) => d \in calls /\ d # c)
  BY <1>5 DEF TabOK, CallsOK
<1>7. Hear(c, failed, rest)
  BY <1>2
<1> HIDE DEF rest, failed
<1> QED BY <1>1, <1>3, <1>4, <1>6, <1>7, HearOK

\* The feed is asked for, read, read in vain.
LEMMA ReadSteps ==
  ASSUME StoreOK, TabOK, ServeRead \/ DeliverRead \/ LoseRead \/ Refresh
  PROVE  StoreOK' /\ TabOK'
<1>0. /\ wizard \in Wizards /\ Asked \in Readings /\ Unasked \in Readings
      /\ Asked.phase = "asked" /\ Unasked.phase = "idle" /\ Asked # Unasked
      /\ \A v : Answered(v).phase = "answered" /\ Answered(v).value = v /\ Answered(v) # Unasked
  BY DEF TabOK, WizardOK, Asked, Unasked, Answered, Readings
<1>1. CASE ServeRead
  <2>1. /\ GetPendingAuthorization /\ UNCHANGED others
        /\ reading' = Answered(PendingAuthorization) /\ untold' = FALSE
        /\ UNCHANGED <<page, wizard, resumed, minted, calls, feed, stale, upsets>>
    BY <1>1 DEF ServeRead
  <2>2. StoreOK' /\ Kept /\ PendingAuthorization' = PendingAuthorization
    BY <2>1, FeedReadOK
  <2>3. WizardOK' /\ CallsOK'
    BY <2>1, <2>2, WizardKept, CallKept DEF TabOK, CallsOK, Deciding
  <2>4. PendingAuthorization \subseteq Stored /\ PendingAuthorization \subseteq Ids
    BY StoreAssumptions DEF PendingAuthorization, Prior, Pending, StoreOK, Numbered
  <2>5. FeedOK'
    <3>1. reading' \in Readings
      BY <2>1, <2>4 DEF Readings
    <3>2. PendingAuthorization \subseteq Stored' /\ (feed # None => feed \subseteq Stored')
      BY <2>2, <2>4 DEF Kept, TabOK, FeedOK
    <3> QED BY <1>0, <2>1, <2>2, <3>1, <3>2 DEF TabOK, FeedOK
  <2> QED BY <2>1, <2>2, <2>3, <2>5 DEF TabOK
<1>2. ASSUME UNCHANGED storeVars
      PROVE  StoreOK' /\ Kept /\ PendingAuthorization' = PendingAuthorization /\ Stored' = Stored
  BY <1>2, NothingDone, PendingSame DEF storeVars, rows, Stored
<1>3. CASE DeliverRead
  <2>1. /\ reading.phase = "answered" /\ feed' = reading.value /\ resumed' = TRUE
        /\ reading' = Unasked
        /\ UNCHANGED <<storeVars, page, minted, calls, stale, upsets, untold>>
        /\ wizard' = IF reading.value # {} /\ ~resumed /\ wizard.step \in Entry
                     THEN ResumePending(CHOOSE i \in reading.value : TRUE) ELSE wizard
    BY <1>3 DEF DeliverRead
  <2>2. reading.value \subseteq Stored /\ reading.value \in SUBSET Ids
    BY <1>0, <2>1 DEF TabOK, FeedOK, Readings
  <2>3. WizardOK' /\ CallsOK'
    <3>1. CASE wizard' = wizard
      BY <1>2, <2>1, <3>1, WizardKept, CallKept DEF TabOK, CallsOK, Deciding
    <3>2. CASE /\ reading.value # {} /\ wizard.step \in Entry
               /\ wizard' = ResumePending(CHOOSE i \in reading.value : TRUE)
      <4>1. PICK i \in Stored : wizard' = ResumePending(i)
        BY <2>2, <3>2
      <4>2. i \in Ids /\ i \in Stored'
        BY <1>2, <2>1 DEF Stored
      <4>3. WizardOK'
        BY <4>1, <4>2, BlankOK DEF WizardOK, ScreenTellsOutcome
      <4>4. CallsOK'
        BY <1>2, <2>1, <3>2, CallKept DEF TabOK, CallsOK, Deciding, Entry
      <4> QED BY <4>3, <4>4
    <3> QED BY <2>1, <3>1, <3>2
  <2>4. FeedOK'
    BY <1>0, <1>2, <2>1, <2>2, NoneIsNothing DEF TabOK, FeedOK
  <2> QED BY <1>2, <2>1, <2>3, <2>4 DEF TabOK
<1>4. CASE LoseRead
  <2>1. WizardOK' /\ CallsOK'
    BY <1>2, <1>4, WizardKept, CallKept DEF TabOK, CallsOK, Deciding, LoseRead
  <2>2. FeedOK'
    BY <1>0, <1>2, <1>4 DEF TabOK, FeedOK, LoseRead
  <2>3. upsets' \in 0..MaxUpsets
    BY <1>4, AppAssumptions DEF LoseRead, TabOK
  <2> QED BY <1>2, <1>4, <2>1, <2>2, <2>3 DEF TabOK, LoseRead
<1>5. CASE Refresh
  <2>1. WizardOK' /\ CallsOK'
    BY <1>2, <1>5, WizardKept, CallKept DEF TabOK, CallsOK, Deciding, Refresh
  <2>2. FeedOK'
    BY <1>0, <1>2, <1>5 DEF TabOK, FeedOK, Refresh
  <2> QED BY <1>2, <1>5, <2>1, <2>2 DEF TabOK, Refresh
<1> QED BY <1>1, <1>3, <1>4, <1>5

\* What happens without the tab.
LEMMA OutsideSteps ==
  ASSUME StoreOK, TabOK, Tick \/ Elsewhere
  PROVE  StoreOK' /\ TabOK'
<1>0. ASSUME StoreOK', Kept, UNCHANGED tabVars, upsets' \in 0..MaxUpsets,
             untold' = (untold \/ FeedChanges)
      PROVE  TabOK'
  BY <1>0, WizardKept, CallKept, FeedKept DEF TabOK, tabVars, CallsOK, Deciding, FeedChanges
<1>1. CASE Tick
  <2>1. clock' \in 0..MaxClock
    BY <1>1, StoreAssumptions DEF Tick, StoreOK, StoreTypeOK
  <2>2. StoreOK' /\ Kept
    BY <1>1, <2>1, SameRows DEF Tick, StoreOK, StoreTypeOK
  <2> QED BY <1>0, <1>1, <2>2 DEF Tick, TabOK
<1>2. CASE Elsewhere
  <2>1. PICK answer \in Answers :
          \/ \E i \in Prior : ConfirmTransfer(i, TRUE, answer) \/ CancelTransfer(i, answer)
          \/ \E a \in Accounts, x \in Amounts, d \in Destinations \union Payees :
               Initiate([kind |-> IF d \in Payees THEN "external_outbound" ELSE "internal",
                         source |-> a, dest |-> d, amount |-> x, key |-> None,
                         confirmDuplicate |-> TRUE], answer)
    BY <1>2 DEF Elsewhere
  <2>2. StoreOK' /\ Kept
    <3>1. ASSUME NEW i \in Prior, ConfirmTransfer(i, TRUE, answer) \/ CancelTransfer(i, answer)
          PROVE  StoreOK' /\ Kept
      BY <3>1, ConfirmOK, CancelOK DEF Prior
    <3>2. ASSUME NEW a \in Accounts, NEW x \in Amounts, NEW d \in Destinations \union Payees,
                 Initiate([kind |-> IF d \in Payees THEN "external_outbound" ELSE "internal",
                           source |-> a, dest |-> d, amount |-> x, key |-> None,
                           confirmDuplicate |-> TRUE], answer)
          PROVE  StoreOK' /\ Kept
      <4> DEFINE r == [kind |-> IF d \in Payees THEN "external_outbound" ELSE "internal",
                       source |-> a, dest |-> d, amount |-> x, key |-> None,
                       confirmDuplicate |-> TRUE]
      <4>1. r \in Wishes
        BY DEF Wishes
      <4>2. Initiate(r, answer)
        BY <3>2
      <4> HIDE DEF r
      <4> QED BY <4>1, <4>2, InitiateOK
    <3> QED BY <2>1, <3>1, <3>2
  <2>3. upsets' \in 0..MaxUpsets
    BY <1>2, AppAssumptions DEF Elsewhere, TabOK
  <2> QED BY <1>0, <1>2, <2>2, <2>3 DEF Elsewhere
<1> QED BY <1>1, <1>2

-----------------------------------------------------------------------------
(* The invariant, and what follows.                                         *)

LEMMA InitClient == Init => ClientInv
<1> SUFFICES ASSUME Init PROVE StoreOK /\ TabOK
  BY DEF ClientInv
<1>0. /\ StoreInit /\ Stored = {} /\ None \notin Ids
      /\ MaxTransfers \in Nat /\ MaxKeys \in Nat /\ MaxClock \in Nat /\ CoolingOff \in Nat
  <2>1. 1..MaxTransfers \subseteq Nat BY StoreAssumptions
  <2> QED BY <2>1, StoreAssumptions DEF Init, StoreInit, Stored, Ids
<1>1. StoreTypeOK
  <2>1. /\ clock \in 0..MaxClock /\ terms \in [Ids -> Terms \union {None}]
        /\ status \in [Ids -> {None, "PENDING", "POSTED", "CANCELLED", "EXPIRED"}]
        /\ hold \in [Ids -> {None, "PLACED", "SETTLED", "RELEASED"}]
        /\ byKey \in [Keys -> Ids \union {None}] /\ tokens \subseteq Destinations
        /\ activePending \in Ids \union {None}
    BY <1>0 DEF StoreInit
  <2>2. held \in [Accounts -> Int] /\ balance \in [Accounts -> Int]
    BY <1>0, StoreAssumptions DEF StoreInit
  <2>3. usableFrom \in [Payees -> 0..(MaxClock + CoolingOff) \union {None}]
    BY <1>0 DEF StoreInit
  <2> QED BY <2>1, <2>2, <2>3 DEF StoreTypeOK
<1>2. Numbered
  <2>1. 0 \in 0..MaxTransfers /\ 1..0 = {} BY <1>0
  <2>2. \E n \in 0..MaxTransfers : Stored = 1..n BY <1>0, <2>1
  <2>3. \A i \in Ids : status[i] = None /\ hold[i] = None /\ i \notin Stored
    BY <1>0 DEF StoreInit
  <2> QED BY <2>2, <2>3 DEF Numbered
<1>3. KeysKept
  BY <1>0 DEF StoreInit, KeysKept
<1>4. OnePending
  BY <1>0, StoreAssumptions DEF StoreInit, OnePending, Pending
<1>5. HoldsAddUp
  <2> SUFFICES ASSUME NEW a \in Accounts
               PROVE  /\ held[a] = Total([i \in PlacedOn(a) |-> terms[i].amount])
                      /\ held[a] <= balance[a]
    BY DEF HoldsAddUp
  <2> DEFINE f == [i \in PlacedOn(a) |-> terms[i].amount]
  <2>1. DOMAIN f = {} /\ held[a] = 0 /\ balance[a] \in Nat
    BY <1>0, StoreAssumptions DEF StoreInit, PlacedOn
  <2> HIDE DEF f
  <2>2. Total(f) = 0 BY <2>1, TotalEmpty
  <2>3. held[a] <= balance[a] BY <2>1
  <2> QED BY <2>1, <2>2, <2>3 DEF f
<1>6. TabOK
  <2>1. WizardOK BY BlankOK DEF Init, WizardOK, ScreenTellsOutcome
  <2>2. CallsOK BY DEF Init, CallsOK
  <2>3. FeedOK BY DEF Init, FeedOK, Readings, Asked, Unasked
  <2>4. minted \in 0..MaxKeys /\ upsets \in 0..MaxUpsets /\ page \in Pages
    BY <1>0, AppAssumptions DEF Init
  <2> QED BY <2>1, <2>2, <2>3, <2>4 DEF Init, TabOK
<1> QED BY <1>1, <1>2, <1>3, <1>4, <1>5, <1>6 DEF StoreOK

LEMMA NextClient == ClientInv /\ [Next]_vars => ClientInv'
<1> SUFFICES ASSUME StoreOK, TabOK, [Next]_vars PROVE StoreOK' /\ TabOK'
  BY DEF ClientInv
<1>1. CASE UNCHANGED vars
  <2>1. StoreOK' /\ Kept /\ PendingAuthorization' = PendingAuthorization
    BY <1>1, NothingDone, PendingSame DEF vars, storeVars, rows
  <2> QED BY <1>1, <2>1, WizardKept, CallKept, FeedKept DEF vars, tabVars, TabOK, CallsOK, Deciding
<1>2. CASE User
  BY <1>2, LocalSteps, SendSteps, EnrollOK, OpenOK DEF User
<1>3. CASE Network
  BY <1>3, ServeOK, DeliverOK, LoseOK, ReadSteps DEF Network
<1>4. CASE Tick \/ Elsewhere
  BY <1>4, OutsideSteps
<1> QED BY <1>1, <1>2, <1>3, <1>4 DEF Next

\* What the server keeps and what the tab believes of it agree in every state.
THEOREM AlwaysClient == Spec => []ClientInv
<1> QED BY InitClient, NextClient, PTL DEF Spec

\* There is one pending transfer at most, and it is the one the feed shows.
THEOREM AlwaysOnePending == Spec => []OnePending
<1>1. ClientInv => OnePending BY DEF ClientInv, StoreOK
<1> QED BY <1>1, AlwaysClient, PTL

\* Two transfers never go under the same idempotency key: what is repeated in one pass
\* through a page is the transfer it has made already.
THEOREM AlwaysOneTransferPerFlow == Spec => []OneTransferPerFlow
<1>1. ClientInv => OneTransferPerFlow
  BY DEF ClientInv, StoreOK, KeysKept, OneTransferPerFlow
<1> QED BY <1>1, AlwaysClient, PTL

\* What is held on an account is the sum of its placed holds, and it is there.
THEOREM AlwaysHoldsAddUp == Spec => []HoldsAddUp
<1>1. ClientInv => HoldsAddUp BY DEF ClientInv, StoreOK
<1> QED BY <1>1, AlwaysClient, PTL

\* A page says of its transfer only what became of it.
THEOREM AlwaysScreenTellsOutcome == Spec => []ScreenTellsOutcome
<1>1. ClientInv => ScreenTellsOutcome BY DEF ClientInv, TabOK, WizardOK
<1> QED BY <1>1, AlwaysClient, PTL

\* A tab that has nothing to wait for or to repeat, and that missed nothing, knows
\* what is pending.
THEOREM AlwaysFeedIsCurrent == Spec => []FeedIsCurrent
<1>1. ClientInv => FeedIsCurrent BY DEF ClientInv, TabOK, FeedOK, FeedIsCurrent
<1> QED BY <1>1, AlwaysClient, PTL

ResultStep == wizard.step \in {"posted", "cancelled"} /\ Network => wizard' = wizard

LEMMA ResultSteps == [Next]_vars => ResultStep
<1> SUFFICES ASSUME wizard.step \in {"posted", "cancelled"}, Network PROVE wizard' = wizard
  BY DEF ResultStep
<1>1. ASSUME NEW c, NEW answer, NEW rest, Hear(c, answer, rest) PROVE wizard' = wizard
  BY <1>1 DEF Hear, AfterAnswer, TransferInitiated, DuplicateSuspected, TransferPosted,
              TransferCancelled, Initiating
<1>2. ASSUME NEW c \in calls, Serve(c) \/ Deliver(c) \/ Lose(c) PROVE wizard' = wizard
  BY <1>1, <1>2 DEF Serve, Deliver, Lose
<1>3. CASE ServeRead \/ DeliverRead \/ LoseRead \/ Refresh
  BY <1>3 DEF ServeRead, DeliverRead, LoseRead, Refresh, Entry
<1> QED BY <1>2, <1>3 DEF Network

\* No answer and no read takes the page of an outcome away.
THEOREM AlwaysResultStays == Spec => ResultStays
<1>1. ResultStep => [wizard.step \in {"posted", "cancelled"} /\ Network => wizard' = wizard]_vars
  BY DEF ResultStep
<1> QED BY <1>1, ResultSteps, PTL DEF Spec, ResultStays

-----------------------------------------------------------------------------
(* Amounts.                                                                 *)

\* parseAmountToMinor neither rounds nor drops anything: what toDecimalString shows
\* of an accepted amount is what was typed, its fraction filled up with zeros.
THEOREM ShownAsTyped ==
  ASSUME NEW t \in Typed, Accepted(t)
  PROVE  ToDecimalString(Unsigned(ToMinor(t)))
           = [sign |-> "", whole |-> t.whole, fraction |-> Padded(t)]
<1> DEFINE f == Padded(t)
<1>1. t.whole \in Nat /\ t.digits \in 0..2 /\ t.fraction \in Nat
  BY DEF Typed, Accepted, MinorUnitDigits
<1>2. f \in 0..99
  BY <1>1 DEF Padded, Typed
<1>3. ToMinor(t) = 100 * t.whole + f /\ ToMinor(t) > 0
  BY MoneyAssumptions DEF Accepted, ToMinor, Scale
<1> HIDE DEF f
<1>4. (100 * t.whole + f) \div 100 = t.whole /\ (100 * t.whole + f) % 100 = f
  BY <1>1, <1>2
<1>5. Amount(Unsigned(ToMinor(t))) = ToMinor(t)
  BY DEF Amount, Unsigned
<1>6. /\ ~(ToMinor(t) < 0)
      /\ ToMinor(t) \div 100 = t.whole
      /\ ToMinor(t) % 100 = f
  BY <1>1, <1>2, <1>3, <1>4
<1>7. ToDecimalString(Unsigned(ToMinor(t))) = [sign |-> "", whole |-> t.whole, fraction |-> f]
  BY <1>5, <1>6 DEF ToDecimalString, Scale, Sign
<1> QED BY <1>7 DEF f

\* Every amount of the wire can be typed: the decimal that is shown of it, typed into
\* a form, is accepted and gives it back.  (It has at most twenty characters.)
THEOREM TypedAsShown ==
  ASSUME NEW m \in 1..MaxMinor
  PROVE  LET d == ToDecimalString(Unsigned(m))
             t == [plain |-> TRUE, whole |-> d.whole, digits |-> 2, fraction |-> d.fraction]
         IN t \in Typed /\ Accepted(t) /\ ToMinor(t) = m
<1> DEFINE d == ToDecimalString(Unsigned(m))
           t == [plain |-> TRUE, whole |-> d.whole, digits |-> 2, fraction |-> d.fraction]
<1>1. m \in Nat /\ m > 0 /\ m <= MaxMinor
  BY MoneyAssumptions
<1>2. Amount(Unsigned(m)) = m
  BY DEF Amount, Unsigned
<1>3. d.whole = m \div 100 /\ d.fraction = m % 100
  BY <1>1, <1>2 DEF ToDecimalString, Scale
<1>4. m \div 100 \in Nat /\ m % 100 \in 0..99 /\ 100 * (m \div 100) + (m % 100) = m
  BY <1>1
<1>5. t \in Typed
  BY <1>3, <1>4 DEF Typed
<1>6. ToMinor(t) = m
  BY <1>3, <1>4 DEF ToMinor, Padded, Scale
<1> QED BY <1>1, <1>5, <1>6 DEF Accepted, MinorUnitDigits

\* The customer's application and the one-time code application show the same
\* decimal of any canonical integer, of "-0" too, and a sign exactly where a
\* statement says that money went out.
THEOREM AppsShowTheSame ==
  ASSUME NEW s \in CanonicalIntegers
  PROVE  /\ FormatMinorUnits(s) = ToDecimalString(s)
         /\ ToDecimalString(s).sign = "-" <=> AmountDirection(s) = "out"
<1> DEFINE v == Amount(s)
           abs == IF v < 0 THEN -v ELSE v
           out == s.minus /\ s.abs # 0
<1>1. s.minus \in BOOLEAN /\ s.abs \in Nat
  BY DEF CanonicalIntegers
<1>2. v < 0 <=> out
  BY <1>1 DEF Amount
<1>3. abs = s.abs
  BY <1>1 DEF Amount
<1>4. v \in Int
  BY <1>1 DEF Amount
<1>5. Sign(v < 0) = Sign(out) /\ (Sign(v < 0) = "-" <=> v < 0)
  BY <1>2 DEF Sign
<1>6. ToDecimalString(s) = [sign |-> Sign(v < 0), whole |-> abs \div Scale, fraction |-> abs % Scale]
  BY DEF ToDecimalString
<1>7. FormatMinorUnits(s) = [sign |-> Sign(out), whole |-> s.abs \div Scale, fraction |-> s.abs % Scale]
  BY DEF FormatMinorUnits
<1>8. AmountDirection(s) = "out" <=> v < 0
  <2>1. CASE v > 0 BY <1>4, <2>1 DEF AmountDirection
  <2>2. CASE v < 0 BY <1>4, <2>2 DEF AmountDirection
  <2>3. CASE v = 0 BY <2>3 DEF AmountDirection
  <2> QED BY <1>4, <2>1, <2>2, <2>3
<1> HIDE DEF v, abs, out
<1> QED BY <1>3, <1>5, <1>6, <1>7, <1>8

===============================================================================
