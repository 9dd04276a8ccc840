----------------------------- MODULE LimitsProofs -----------------------------
(***************************************************************************)
(* Proofs about AccountOpening and SpendLimits, for any number of          *)
(* customers, accounts, requests, edits, caps and days.                    *)
(***************************************************************************)
EXTENDS SpendLimits, SumTheorems

\* One request at a time has the lock of an owner, and one that has counted still
\* has room for its account.
OneHolder ==
  \A p, q \in Openers, o \in Users : HoldsLock(p, o) /\ HoldsLock(q, o) => p = q

RoomLeft ==
  \A q \in Openers :
    opening[q].pc = "counted" => Cardinality(OwnedBy(opening[q].owner)) < MaxAccounts

\* A transfer under way is from an account that exists.
SpendsOwn == \A p \in Spenders : spend[p].pc = "begun" => Exists(spend[p].number)

\* What an edit has read is still there unless another edit of the row came between.
AloneOK ==
  \A k \in Clerks :
    edit[k].pc = "read" /\ edit[k].alone => edit[k].before = rows[edit[k].scope]

OpeningInv == OpeningTypeOK /\ OneHolder /\ RoomLeft /\ AccountCap

Inv == LimitsTypeOK /\ OpeningInv /\ SpendsOwn /\ AloneOK /\ TrailShowsRow

-----------------------------------------------------------------------------
(* Helpers.                                                                 *)

\* A window begins no later than its day.
LEMMA BoundaryInRange ==
  ASSUME NEW w \in Windows, NEW d \in 0..LastDay
  PROVE  Boundary(w, d) \in 0..LastDay
<1>1. CASE w = "day"
  BY <1>1 DEF Boundary
<1>2. CASE w # "day"
  <2>1. d \in Nat /\ MonthLength \in Nat /\ MonthLength > 0
    BY OpeningAssumptions
  <2>2. d % MonthLength \in 0..d
    BY <2>1
  <2> QED BY <1>2, <2>2, OpeningAssumptions DEF Boundary
<1> QED BY <1>1, <1>2

LEMMA NewAccountTyped ==
  ASSUME NEW o \in Users, NEW d \in 0..LastDay
  PROVE  NewAccount(o, d) \in AccountRows /\ NewAccount(o, d).owner = o
BY BoundaryInRange DEF NewAccount, AccountRows

LEMMA OwnedIsFinite == \A o : IsFiniteSet(OwnedBy(o))
BY FS_Subset, OpeningAssumptions DEF OwnedBy

\* Who owns what does not change.
SameOwners ==
  \A n \in Numbers : (Exists(n)' <=> Exists(n)) /\ (Exists(n) => account'[n].owner = account[n].owner)

LEMMA OwnedBySame ==
  ASSUME SameOwners
  PROVE  \A o : OwnedBy(o)' = OwnedBy(o)
BY DEF SameOwners, OwnedBy

-----------------------------------------------------------------------------
(* Opening accounts.                                                       *)

LEMMA InitOpening == OpeningInit => OpeningInv
<1> SUFFICES ASSUME OpeningInit PROVE OpeningInv
  OBVIOUS
<1> USE DEF OpeningInit
<1>1. \A n \in Numbers : account[n] \in AccountRows \union {None}
  <2> SUFFICES ASSUME NEW n \in Numbers PROVE account[n] \in AccountRows \union {None}
    OBVIOUS
  <2>1. CASE \E o \in Users : n \in Seeded[o]
    BY <2>1, NewAccountTyped, OpeningAssumptions
  <2>2. CASE ~\E o \in Users : n \in Seeded[o]
    BY <2>2
  <2> QED BY <2>1, <2>2
<1>2. OpeningTypeOK
  <2>1. account \in [Numbers -> AccountRows \union {None}]
    BY <1>1
  <2>2. opening \in [Openers ->
          [pc : Stages, owner : Users \union {None}, number : Numbers \union {None},
           draws : 0..MaxDraws, day : 0..LastDay]]
    BY OpeningAssumptions DEF Fresh, Stages
  <2> QED BY <2>1, <2>2, OpeningAssumptions DEF OpeningTypeOK, Fresh
<1>3. OneHolder /\ RoomLeft
  BY DEF OneHolder, RoomLeft, HoldsLock, Fresh
<1>4. AccountCap
  <2> SUFFICES ASSUME NEW o \in Users PROVE Cardinality(OwnedBy(o)) <= MaxAccounts
    BY DEF AccountCap
  <2>1. \A n \in Numbers : Exists(n) /\ account[n].owner = o => n \in Seeded[o]
    <3> SUFFICES ASSUME NEW n \in Numbers, Exists(n), account[n].owner = o
                 PROVE  n \in Seeded[o]
      OBVIOUS
    <3>1. \E q \in Users : n \in Seeded[q]
      BY DEF Exists
    <3>2. PICK q \in Users : n \in Seeded[q] /\ account[n] = NewAccount(q, 0)
      BY <3>1
    <3> QED BY <3>2 DEF NewAccount
  <2>2. OwnedBy(o) \subseteq Seeded[o]
    BY <2>1 DEF OwnedBy
  <2>3. IsFiniteSet(Seeded[o]) /\ Cardinality(Seeded[o]) <= MaxAccounts
    BY OpeningAssumptions
  <2>4. Cardinality(OwnedBy(o)) <= Cardinality(Seeded[o])
    BY <2>2, <2>3, FS_Subset
  <2>5. Cardinality(OwnedBy(o)) \in Nat /\ Cardinality(Seeded[o]) \in Nat /\ MaxAccounts \in Nat
    BY <2>3, OwnedIsFinite, FS_CardinalityType, OpeningAssumptions
  <2> QED BY <2>3, <2>4, <2>5
<1> QED BY <1>2, <1>3, <1>4 DEF OpeningInv

\* A step of one request that opens nothing: it may take the lock that is free, or
\* count under it.
LEMMA RequestStep ==
  ASSUME OpeningInv, OpeningTypeOK', UNCHANGED account, NEW q \in Openers,
         \A p \in Openers \ {q} : opening'[p] = opening[p],
         \A o \in Users : HoldsLock(q, o)' =>
           HoldsLock(q, o) \/ \A p \in Openers : ~HoldsLock(p, o),
         opening'[q].pc = "counted" =>
           Cardinality(OwnedBy(opening'[q].owner)) < MaxAccounts
  PROVE  OpeningInv'
<1>0. \A o : OwnedBy(o)' = OwnedBy(o)
  BY DEF OwnedBy, Exists
<1>1. OneHolder'
  BY DEF OpeningInv, OneHolder, HoldsLock
<1>2. RoomLeft'
  BY <1>0 DEF OpeningInv, RoomLeft
<1>3. AccountCap'
  BY <1>0 DEF OpeningInv, AccountCap
<1> QED BY <1>1, <1>2, <1>3 DEF OpeningInv

LEMMA DrawStep ==
  ASSUME OpeningInv, NEW q \in Openers, NEW o \in Users, NEW n \in Numbers, Draw(q, o, n)
  PROVE  OpeningInv'
<1>1. OpeningTypeOK'
  BY OpeningAssumptions DEF OpeningInv, OpeningTypeOK, Draw, Stages
<1> QED BY <1>1, RequestStep DEF OpeningInv, OpeningTypeOK, Draw, HoldsLock

LEMMA LockOwnerStep ==
  ASSUME OpeningInv, NEW q \in Openers, LockOwner(q)
  PROVE  OpeningInv'
<1>1. OpeningTypeOK'
  BY OpeningAssumptions DEF OpeningInv, OpeningTypeOK, LockOwner, Step, Stages
<1>2. \A p \in Openers \ {q} : opening'[p] = opening[p]
  BY DEF OpeningInv, OpeningTypeOK, LockOwner, Step
<1>3. opening'[q] = [opening[q] EXCEPT !.pc = "locked"]
  BY DEF OpeningInv, OpeningTypeOK, LockOwner, Step
<1> QED BY <1>1, <1>2, <1>3, RequestStep DEF OpeningInv, OpeningTypeOK, LockOwner, HoldsLock

LEMMA CountAccountsStep ==
  ASSUME OpeningInv, NEW q \in Openers, CountAccounts(q)
  PROVE  OpeningInv'
<1> USE DEF OpeningInv, OpeningTypeOK, CountAccounts, Step, End, Fresh
<1>1. OpeningTypeOK'
  BY OpeningAssumptions DEF Stages
<1>2. \A p \in Openers \ {q} : opening'[p] = opening[p]
  OBVIOUS
<1>3. \/ /\ opening'[q] = [opening[q] EXCEPT !.pc = "counted"]
         /\ Cardinality(OwnedBy(opening[q].owner)) < MaxAccounts
      \/ opening'[q].pc = "refused"
  OBVIOUS
<1> QED BY <1>1, <1>2, <1>3, RequestStep DEF HoldsLock

LEMMA CollideStep ==
  ASSUME OpeningInv, NEW q \in Openers, NEW n \in Numbers, Collide(q, n)
  PROVE  OpeningInv'
<1> USE DEF OpeningInv, OpeningTypeOK, Collide, End, Fresh
<1>1. OpeningTypeOK'
  <2>1. CASE opening[q].draws < MaxDraws
    <3> DEFINE again == [opening[q] EXCEPT !.pc = "begun", !.number = n,
                                           !.draws = opening[q].draws + 1, !.day = day]
    <3>1. opening[q].draws + 1 \in 0..MaxDraws
      BY <2>1, OpeningAssumptions
    <3>2. again \in [pc : Stages, owner : Users \union {None},
                     number : Numbers \union {None}, draws : 0..MaxDraws, day : 0..LastDay]
      BY <3>1 DEF Stages
    <3>3. again.owner \in Users /\ again.number = n
      OBVIOUS
    <3>4. opening' = [opening EXCEPT ![q] = again]
      BY <2>1
    <3> HIDE DEF again
    <3> QED BY <3>2, <3>3, <3>4
  <2>2. CASE ~(opening[q].draws < MaxDraws)
    BY <2>2, OpeningAssumptions DEF Stages
  <2> QED BY <2>1, <2>2
<1>2. \A p \in Openers \ {q} : opening'[p] = opening[p]
  OBVIOUS
<1>3. opening'[q].pc \in {"begun", "failed"}
  OBVIOUS
<1> QED BY <1>1, <1>2, <1>3, RequestStep DEF HoldsLock

LEMMA InsertAccountStep ==
  ASSUME OpeningInv, NEW q \in Openers, InsertAccount(q)
  PROVE  OpeningInv' /\ \A n \in Numbers : Exists(n) => Exists(n)'
<1> USE DEF OpeningInv, OpeningTypeOK, InsertAccount, End, Fresh
<1>a. PICK n \in Numbers, o \in Users : n = opening[q].number /\ o = opening[q].owner
  OBVIOUS
<1>0. ~Exists(n) /\ opening[q].day \in 0..LastDay
  BY <1>a
<1>1. /\ account' = [account EXCEPT ![n] = NewAccount(o, opening[q].day)]
      /\ NewAccount(o, opening[q].day) \in AccountRows
      /\ NewAccount(o, opening[q].day).owner = o
  BY <1>a, <1>0, NewAccountTyped
<1>2. OpeningTypeOK'
  BY <1>0, <1>1, OpeningAssumptions DEF Stages
<1>3. \A p \in Openers \ {q} : opening'[p] = opening[p]
  OBVIOUS
<1>4. opening'[q].pc = "opened"
  OBVIOUS
<1>5. OwnedBy(o)' = OwnedBy(o) \union {n} /\ n \notin OwnedBy(o)
  BY <1>0, <1>1, OpeningAssumptions DEF OwnedBy, Exists
<1>6. \A u \in Users \ {o} : OwnedBy(u)' = OwnedBy(u)
  BY <1>0, <1>1, OpeningAssumptions DEF OwnedBy, Exists
<1>7. Cardinality(OwnedBy(o))' <= MaxAccounts
  <2>1. Cardinality(OwnedBy(o)) < MaxAccounts
    BY <1>a DEF RoomLeft
  <2>2. Cardinality(OwnedBy(o)') = Cardinality(OwnedBy(o)) + 1
    BY <1>5, OwnedIsFinite, FS_AddElement
  <2>3. Cardinality(OwnedBy(o)) \in Nat /\ MaxAccounts \in Nat
    BY OwnedIsFinite, FS_CardinalityType, OpeningAssumptions
  <2> QED BY <2>1, <2>2, <2>3
<1>8. AccountCap'
  BY <1>6, <1>7 DEF AccountCap
<1>9. OneHolder'
  BY <1>3, <1>4 DEF OneHolder, HoldsLock
<1>10. RoomLeft'
  <2> SUFFICES ASSUME NEW p \in Openers, opening'[p].pc = "counted"
               PROVE  (Cardinality(OwnedBy(opening[p].owner)) < MaxAccounts)'
    BY DEF RoomLeft
  <2>1. p # q /\ opening'[p] = opening[p]
    BY <1>3, <1>4
  <2>2. PICK u \in Users : u = opening[p].owner
    BY <2>1
  <2>3. u # o
    BY <1>a, <2>1, <2>2 DEF OneHolder, HoldsLock
  <2>4. OwnedBy(u)' = OwnedBy(u) /\ Cardinality(OwnedBy(u)) < MaxAccounts
    BY <1>6, <2>1, <2>2, <2>3 DEF RoomLeft
  <2> QED BY <2>1, <2>2, <2>4
<1>11. \A m \in Numbers : Exists(m) => Exists(m)'
  BY <1>0, <1>1, OpeningAssumptions DEF Exists
<1> QED BY <1>2, <1>8, <1>9, <1>10, <1>11

\* A step that changes no request and no owner.
LEMMA ChargeStep ==
  ASSUME OpeningInv, OpeningTypeOK', UNCHANGED opening, SameOwners
  PROVE  OpeningInv'
<1>1. \A o : OwnedBy(o)' = OwnedBy(o)
  BY OwnedBySame
<1> QED BY <1>1 DEF OpeningInv, OneHolder, RoomLeft, AccountCap, HoldsLock

LEMMA OpeningNextStep ==
  ASSUME OpeningInv, OpeningNext
  PROVE  OpeningInv' /\ \A n \in Numbers : Exists(n) => Exists(n)'
<1>1. ASSUME NEW q \in Openers, NEW o \in Users, NEW n \in Numbers, Draw(q, o, n)
      PROVE  OpeningInv' /\ UNCHANGED account
  BY <1>1, DrawStep DEF Draw
<1>2. ASSUME NEW q \in Openers, LockOwner(q) \/ CountAccounts(q)
      PROVE  OpeningInv' /\ UNCHANGED account
  BY <1>2, LockOwnerStep, CountAccountsStep DEF LockOwner, CountAccounts
<1>3. ASSUME NEW q \in Openers, InsertAccount(q)
      PROVE  OpeningInv' /\ \A n \in Numbers : Exists(n) => Exists(n)'
  BY <1>3, InsertAccountStep
<1>4. ASSUME NEW q \in Openers, NEW n \in Numbers, Collide(q, n)
      PROVE  OpeningInv' /\ UNCHANGED account
  BY <1>4, CollideStep DEF Collide
<1> QED BY <1>1, <1>2, <1>3, <1>4 DEF OpeningNext, Exists

-----------------------------------------------------------------------------
(* The limits and what is spent.                                           *)

LEMMA InitInv == Init => Inv
<1> SUFFICES ASSUME Init PROVE Inv
  OBVIOUS
<1> USE DEF Init
<1>1. OpeningInv
  BY InitOpening
<1>2. rows \in [Scopes -> Rows] /\ trail \in [Scopes -> [before : Rows, after : Rows]]
  BY DEF Rows
<1>3. edit \in [Clerks ->
        [pc : {"idle", "read", "done"}, scope : Scopes, before : Rows, alone : BOOLEAN]]
  BY DEF Unread, Scopes, Rows
<1>4. /\ spend \in [Spenders ->
            [pc : {"idle", "begun", "posted", "transaction", "day", "month"},
             number : Numbers \union {None}, amount : Amounts \union {0}, day : Days]]
      /\ \A p \in Spenders : spend[p].pc # "begun"
  BY OpeningAssumptions DEF Spend, Days
<1>5. LimitsTypeOK
  BY <1>1, <1>2, <1>3, <1>4 DEF LimitsTypeOK, OpeningInv
<1>6. SpendsOwn /\ AloneOK /\ TrailShowsRow
  BY <1>4 DEF SpendsOwn, AloneOK, TrailShowsRow, Unread
<1> QED BY <1>1, <1>5, <1>6 DEF Inv

\* A step of the account requests, or of the clock.
LEMMA OpeningKeepsInv ==
  ASSUME Inv, OpeningInv', \A n \in Numbers : Exists(n) => Exists(n)',
         UNCHANGED <<limitVars, spendVars>>
  PROVE  Inv'
<1> USE DEF Inv, limitVars, spendVars, LimitsTypeOK
<1>1. LimitsTypeOK'
  BY DEF OpeningInv
<1>2. SpendsOwn' /\ AloneOK' /\ TrailShowsRow'
  BY DEF SpendsOwn, AloneOK, TrailShowsRow
<1> QED BY <1>1, <1>2

LEMMA MidnightStep ==
  ASSUME Inv, Midnight, UNCHANGED <<limitVars, spendVars>>
  PROVE  Inv'
<1>1. OpeningTypeOK'
  BY OpeningAssumptions DEF Inv, OpeningInv, OpeningTypeOK, Midnight
<1>2. OpeningInv'
  BY <1>1, ChargeStep DEF Inv, Midnight, SameOwners, Exists
<1>3. \A n \in Numbers : Exists(n) => Exists(n)'
  BY DEF Midnight, Exists
<1> QED BY <1>2, <1>3, OpeningKeepsInv

\* A step that leaves the accounts and their requests alone.
LEMMA OpeningUnchanged ==
  ASSUME OpeningInv, UNCHANGED openVars
  PROVE  OpeningInv'
BY DEF openVars, OpeningInv, OpeningTypeOK, OneHolder, RoomLeft, AccountCap, HoldsLock, OwnedBy, Exists

LEMMA ReadBeforeStep ==
  ASSUME Inv, NEW k \in Clerks, NEW s \in Scopes, ReadBefore(k, s)
  PROVE  Inv'
<1> USE DEF Inv, ReadBefore, LimitsTypeOK, spendVars
<1>1. OpeningInv'
  BY OpeningUnchanged
<1>2. LimitsTypeOK'
  BY <1>1 DEF OpeningInv
<1>3. SpendsOwn' /\ TrailShowsRow'
  BY DEF SpendsOwn, TrailShowsRow, openVars, Exists
<1>4. AloneOK'
  BY DEF AloneOK
<1> QED BY <1>1, <1>2, <1>3, <1>4

LEMMA WriteLimitsStep ==
  ASSUME Inv, NEW k \in Clerks, NEW r \in CapRows, WriteLimits(k, r)
  PROVE  Inv'
<1> USE DEF Inv, WriteLimits, LimitsTypeOK, spendVars
<1>1. OpeningInv'
  BY OpeningUnchanged
<1>2. edit[k].scope \in Scopes /\ edit[k].before \in Rows /\ r \in Rows
  BY DEF Rows
<1>3. edit' \in [Clerks ->
        [pc : {"idle", "read", "done"}, scope : Scopes, before : Rows, alone : BOOLEAN]]
  <2>1. Unread("done") \in
          [pc : {"idle", "read", "done"}, scope : Scopes, before : Rows, alone : BOOLEAN]
    BY DEF Unread, Scopes, Rows
  <2> QED BY <2>1 DEF Finished
<1>4. LimitsTypeOK'
  BY <1>1, <1>2, <1>3 DEF OpeningInv
<1>5. SpendsOwn'
  BY DEF SpendsOwn, openVars, Exists
<1>6. TrailShowsRow'
  BY <1>2 DEF TrailShowsRow
<1>7. AloneOK'
  <2> SUFFICES ASSUME NEW j \in Clerks, edit'[j].pc = "read", edit'[j].alone
               PROVE  edit'[j].before = rows'[edit'[j].scope]
    BY DEF AloneOK
  <2>1. j # k /\ edit[j].pc = "read" /\ edit[j].scope # edit[k].scope /\ edit'[j] = edit[j]
    BY DEF Finished, Unread
  <2> QED BY <1>2, <2>1 DEF AloneOK
<1> QED BY <1>1, <1>4, <1>5, <1>6, <1>7

LEMMA BeginSpendStep ==
  ASSUME Inv, NEW p \in Spenders, NEW n \in Numbers, NEW x \in Amounts, BeginSpend(p, n, x)
  PROVE  Inv'
<1> USE DEF Inv, BeginSpend, LimitsTypeOK, limitVars
<1>1. OpeningInv'
  BY OpeningUnchanged
<1>2. day \in Days
  BY DEF OpeningInv, OpeningTypeOK, Days
<1>3. LimitsTypeOK'
  BY <1>1, <1>2 DEF OpeningInv, Spend
<1>4. SpendsOwn'
  BY DEF SpendsOwn, openVars, Exists, Spend
<1>5. TrailShowsRow' /\ AloneOK'
  BY DEF TrailShowsRow, AloneOK
<1> QED BY <1>1, <1>3, <1>4, <1>5

LEMMA BeginAgainStep ==
  ASSUME Inv, NEW p \in Spenders, BeginAgain(p)
  PROVE  Inv'
<1> USE DEF Inv, BeginAgain, LimitsTypeOK, limitVars
<1>1. OpeningInv'
  BY OpeningUnchanged
<1>2. day \in Days
  BY DEF OpeningInv, OpeningTypeOK, Days
<1>3. LimitsTypeOK'
  BY <1>1, <1>2 DEF OpeningInv
<1>4. SpendsOwn'
  BY DEF SpendsOwn, openVars, Exists
<1>5. TrailShowsRow' /\ AloneOK'
  BY DEF TrailShowsRow, AloneOK
<1> QED BY <1>1, <1>3, <1>4, <1>5

\* What a posting makes of the account.
LEMMA ChargedRow ==
  ASSUME Inv, NEW p \in Spenders, spend[p].pc = "begun"
  PROVE  \E row \in AccountRows :
           /\ Charged(p) = [account EXCEPT ![spend[p].number] = row]
           /\ row.owner = account[spend[p].number].owner
           /\ row.spent = [w \in Windows |-> AfterSpend(spend[p].number, w, p)]
           /\ row.since = [w \in Windows |-> Boundary(w, spend[p].day)]
<1> DEFINE n == spend[p].number
<1>1. /\ n \in Numbers /\ account[n] \in AccountRows /\ spend[p].amount \in Nat
      /\ spend[p].day \in 0..LastDay
  BY LimitsAssumptions
     DEF Inv, LimitsTypeOK, SpendsOwn, Exists, OpeningInv, OpeningTypeOK, Days
<1>2. ASSUME NEW w \in Windows PROVE AfterSpend(n, w, p) \in Nat
  <2>1. account[n].spent[w] \in Nat
    BY <1>1 DEF AccountRows
  <2>2. Effective(n, w, spend[p].day) \in Nat
    BY <2>1 DEF Effective
  <2> QED BY <1>1, <2>2 DEF AfterSpend
<1> DEFINE spent == [w \in Windows |-> AfterSpend(n, w, p)]
           since == [w \in Windows |-> Boundary(w, spend[p].day)]
           row == [account[n] EXCEPT !.spent = spent, !.since = since]
<1>3. spent \in [Windows -> Nat] /\ since \in [Windows -> 0..LastDay]
  BY <1>1, <1>2, BoundaryInRange
<1>4. Charged(p) = [account EXCEPT ![n] = row]
  BY DEF Charged
<1> HIDE DEF spent, since
<1>5. row \in AccountRows /\ row.owner = account[n].owner /\ row.spent = spent /\ row.since = since
  BY <1>1, <1>3 DEF AccountRows
<1> HIDE DEF row
<1> QED BY <1>4, <1>5 DEF spent, since

LEMMA PostSpendStep ==
  ASSUME Inv, NEW p \in Spenders, PostSpend(p)
  PROVE  Inv'
<1>0. spend[p].pc = "begun" BY DEF PostSpend
<1>1. PICK n \in Numbers : n = spend[p].number
  BY <1>0 DEF Inv, LimitsTypeOK
<1>3. PICK charged \in AccountRows :
        /\ Charged(p) = [account EXCEPT ![spend[p].number] = charged]
        /\ charged.owner = account[spend[p].number].owner
        /\ charged.spent = [w \in Windows |-> AfterSpend(spend[p].number, w, p)]
        /\ charged.since = [w \in Windows |-> Boundary(w, spend[p].day)]
  BY <1>0, ChargedRow
<1> USE DEF Inv, PostSpend, LimitsTypeOK, limitVars
<1>2. /\ account[n] \in AccountRows /\ spend[p].amount \in Nat
      /\ spend[p].day \in 0..LastDay /\ spend[p].day \in Days
  BY <1>1, LimitsAssumptions DEF SpendsOwn, Exists, OpeningInv, OpeningTypeOK, Days
<1>4. CASE Breach(p) = "posted"
  <2>1. account' = Charged(p) /\ sent' = [sent EXCEPT ![n][spend[p].day] = @ + spend[p].amount]
    BY <1>1, <1>4
  <2>2. account' = [account EXCEPT ![n] = charged]
    BY <1>1, <1>3, <2>1
  <2>6. OpeningTypeOK'
    BY <2>2 DEF OpeningInv, OpeningTypeOK
  <2>7. SameOwners
    BY <1>1, <1>2, <1>3, <2>2, OpeningAssumptions DEF SameOwners, Exists, OpeningTypeOK
  <2>8. OpeningInv'
    BY <2>6, <2>7, ChargeStep
  <2>9. sent' \in [Numbers -> [Days -> Nat]]
    <3>1. sent[n] \in [Days -> Nat] /\ sent[n][spend[p].day] + spend[p].amount \in Nat
      BY <1>2
    <3> QED BY <2>1, <3>1
  <2>10. spend' = [spend EXCEPT ![p] = [pc |-> "posted", number |-> None, amount |-> 0, day |-> 0]]
    BY <1>4 DEF Spend
  <2>11. LimitsTypeOK'
    <3>1. /\ spend' \in [Spenders ->
                [pc : {"idle", "begun", "posted", "transaction", "day", "month"},
                 number : Numbers \union {None}, amount : Amounts \union {0}, day : Days]]
          /\ \A q \in Spenders : spend'[q].pc = "begun" =>
               spend'[q].number \in Numbers /\ spend'[q].amount \in Amounts
      BY <2>10, OpeningAssumptions DEF Days
    <3>2. late' \subseteq Numbers
      BY <1>1
    <3> QED BY <2>6, <2>9, <3>1, <3>2
  <2>12. SpendsOwn'
    BY <2>7, <2>10 DEF SpendsOwn, SameOwners
  <2>13. TrailShowsRow' /\ AloneOK'
    BY DEF TrailShowsRow, AloneOK
  <2> QED BY <2>8, <2>11, <2>12, <2>13
<1>5. CASE Breach(p) # "posted"
  <2>1. UNCHANGED openVars /\ UNCHANGED <<sent, late>>
    BY <1>5 DEF openVars
  <2>2. OpeningInv'
    BY <2>1, OpeningUnchanged
  <2>3. Breach(p) \in {"transaction", "day", "month"}
    BY <1>5 DEF Breach
  <2>4. spend' = [spend EXCEPT ![p] = [pc |-> Breach(p), number |-> None, amount |-> 0, day |-> 0]]
    BY DEF Spend
  <2>5. LimitsTypeOK'
    <3>1. /\ spend' \in [Spenders ->
                [pc : {"idle", "begun", "posted", "transaction", "day", "month"},
                 number : Numbers \union {None}, amount : Amounts \union {0}, day : Days]]
          /\ \A q \in Spenders : spend'[q].pc = "begun" =>
               spend'[q].number \in Numbers /\ spend'[q].amount \in Amounts
      BY <2>3, <2>4, OpeningAssumptions DEF Days
    <3> QED BY <2>1, <2>2, <3>1 DEF OpeningInv
  <2>6. SpendsOwn'
    BY <2>1, <2>3, <2>4 DEF SpendsOwn, openVars, Exists
  <2>7. TrailShowsRow' /\ AloneOK'
    BY DEF TrailShowsRow, AloneOK
  <2> QED BY <2>2, <2>5, <2>6, <2>7
<1> QED BY <1>4, <1>5

LEMMA StutterStep ==
  ASSUME Inv, UNCHANGED vars
  PROVE  Inv'
<1>1. OpeningInv' /\ \A n \in Numbers : Exists(n) => Exists(n)'
  BY OpeningUnchanged DEF Inv, vars, openVars, Exists
<1> QED BY <1>1, OpeningKeepsInv DEF vars

LEMMA InvInductive == Inv /\ [Next]_vars => Inv'
<1> SUFFICES ASSUME Inv, [Next]_vars PROVE Inv'
  OBVIOUS
<1>1. CASE OpeningNext /\ UNCHANGED <<limitVars, spendVars>>
  BY <1>1, OpeningNextStep, OpeningKeepsInv DEF Inv
<1>2. CASE Midnight /\ UNCHANGED <<limitVars, spendVars>>
  BY <1>2, MidnightStep
<1>3. ASSUME NEW k \in Clerks, NEW s \in Scopes, ReadBefore(k, s) PROVE Inv'
  BY <1>3, ReadBeforeStep
<1>4. ASSUME NEW k \in Clerks, NEW r \in CapRows, WriteLimits(k, r) PROVE Inv'
  BY <1>4, WriteLimitsStep
<1>5. ASSUME NEW p \in Spenders, NEW n \in Numbers, NEW x \in Amounts, BeginSpend(p, n, x)
      PROVE  Inv'
  BY <1>5, BeginSpendStep
<1>6. ASSUME NEW p \in Spenders, BeginAgain(p) \/ PostSpend(p) PROVE Inv'
  BY <1>6, BeginAgainStep, PostSpendStep
<1>7. CASE UNCHANGED vars
  BY <1>7, StutterStep
<1> QED BY <1>1, <1>2, <1>3, <1>4, <1>5, <1>6, <1>7 DEF Next

-----------------------------------------------------------------------------
(* The theorems.                                                           *)

\* The strengthening is an invariant.
THEOREM AlwaysInv == Spec => []Inv
<1>1. Init => Inv
  BY InitInv
<1>2. Inv /\ [Next]_vars => Inv'
  BY InvInductive
<1> QED BY <1>1, <1>2, PTL DEF Spec

\* Every variable keeps its type; counters are numbers, and their windows begin on
\* days that have been (enforceLimits).
THEOREM TypeCorrect == Spec => []LimitsTypeOK
<1>1. Inv => LimitsTypeOK
  BY DEF Inv
<1> QED BY <1>1, AlwaysInv, PTL

\* No race of requests gives a customer more accounts than the cap (createAccount).
THEOREM CapHolds == Spec => []AccountCap
<1>1. Inv => AccountCap
  BY DEF Inv, OpeningInv
<1> QED BY <1>1, AlwaysInv, PTL

\* The last audit record of a row of limits shows the row as it is (upsertLimits).
THEOREM TrailIsCurrent == Spec => []TrailShowsRow
<1>1. Inv => TrailShowsRow
  BY DEF Inv
<1> QED BY <1>1, AlwaysInv, PTL

\* An edit nobody overlapped is recorded with the row as it was (upsertLimits).
THEOREM TrailIsExact == Spec => TrailShowsChange
<1>1. Inv /\ [Next]_vars =>
        [\A k \in Clerks :
           (edit[k].pc = "read" /\ edit[k].alone /\ edit'[k].pc = "done") =>
           trail'[edit[k].scope].before = rows[edit[k].scope]]_vars
  <2> SUFFICES ASSUME Inv, Next, NEW k \in Clerks,
                      edit[k].pc = "read", edit[k].alone, edit'[k].pc = "done"
               PROVE  trail'[edit[k].scope].before = rows[edit[k].scope]
    OBVIOUS
  <2> USE DEF Inv, LimitsTypeOK
  <2>1. edit' # edit
    OBVIOUS
  <2>2. PICK j \in Clerks : \/ \E s \in Scopes : ReadBefore(j, s)
                            \/ \E r \in CapRows : WriteLimits(j, r)
    BY <2>1 DEF Next, limitVars, BeginSpend, BeginAgain, PostSpend
  <2>3. ASSUME NEW s \in Scopes, ReadBefore(j, s) PROVE FALSE
    BY <2>3 DEF ReadBefore
  <2>4. ASSUME NEW r \in CapRows, WriteLimits(j, r) PROVE j = k
    <3>1. edit'[k] = IF k = j THEN Unread("done")
                     ELSE IF edit[k].pc = "read" /\ edit[k].scope = edit[j].scope
                          THEN [edit[k] EXCEPT !.alone = FALSE] ELSE edit[k]
      BY <2>4 DEF WriteLimits, Finished
    <3> QED BY <3>1
  <2>5. PICK r \in CapRows : WriteLimits(k, r)
    BY <2>2, <2>3, <2>4
  <2>6. trail'[edit[k].scope].before = edit[k].before
    BY <2>5 DEF WriteLimits
  <2> QED BY <2>6 DEF AloneOK
<1> QED BY <1>1, AlwaysInv, PTL DEF Spec, TrailShowsChange

-----------------------------------------------------------------------------
(* The counters.  They are reset when they are next used: what they hold    *)
(* is of the window of the last day that wrote them.                        *)

\* An account that nothing late was written to has, in each counter, what it sent in
\* the window of that day, and has sent nothing since.
CounterKept(n) ==
  /\ ~Exists(n) => \A d \in Days : sent[n][d] = 0
  /\ Exists(n) /\ n \notin late =>
       LET last == account[n].since["day"] IN
       /\ \A d \in Days : d > last => sent[n][d] = 0
       /\ \A w \in Windows : /\ account[n].since[w] = Boundary(w, last)
                             /\ account[n].spent[w] = SentIn(n, w, last)

CountersKept == \A n \in Numbers : CounterKept(n)

\* A later day is in no earlier month.
LEMMA MonthsInOrder ==
  ASSUME NEW M \in Nat \ {0}, NEW a \in Nat, NEW b \in Nat, a <= b
  PROVE  a - (a % M) <= b - (b % M)
<1> DEFINE qa == a \div M
           qb == b \div M
<1>1. /\ qa \in Int /\ qb \in Int
      /\ a = M * qa + (a % M) /\ b = M * qb + (b % M)
      /\ a % M \in 0..(M - 1) /\ b % M \in 0..(M - 1)
  OBVIOUS
<1>2. ASSUME NEW k \in Nat PROVE M * k >= 0
  OBVIOUS
<1> HIDE DEF qa, qb
<1>3. CASE qa <= qb
  <2>1. M * (qb - qa) >= 0 /\ M * (qb - qa) = M * qb - M * qa
    BY <1>1, <1>2, <1>3
  <2> QED BY <1>1, <2>1
<1>4. CASE qa > qb
  <2>1. M * (qa - qb - 1) >= 0 /\ M * (qa - qb - 1) = M * qa - M * qb - M
    BY <1>1, <1>2, <1>4
  <2> QED BY <1>1, <2>1
<1> QED BY <1>1, <1>3, <1>4

\* Windows come in the order of their days.
LEMMA WindowsInOrder ==
  ASSUME NEW w \in Windows, NEW a \in Days, NEW b \in Days, a <= b
  PROVE  Boundary(w, a) <= Boundary(w, b) /\ Boundary(w, a) \in Int /\ Boundary(w, b) \in Int
<1>1. a \in Nat /\ b \in Nat
  BY OpeningAssumptions DEF Days
<1>2. Boundary(w, a) \in Int /\ Boundary(w, b) \in Int
  BY BoundaryInRange, OpeningAssumptions DEF Days
<1>3. CASE w = "day"
  BY <1>1, <1>2, <1>3 DEF Boundary
<1>4. CASE w # "day"
  BY <1>1, <1>2, <1>4, MonthsInOrder, OpeningAssumptions DEF Boundary
<1> QED BY <1>2, <1>3, <1>4

InWindow(w, d) == {i \in Days : Boundary(w, i) = Boundary(w, d)}
SentOver(f, w, d) == Total([e \in InWindow(w, d) |-> f[e]])

LEMMA WindowFinite == \A w, d : IsFiniteSet(InWindow(w, d))
<1>1. IsFiniteSet(0..LastDay)
  BY FS_Interval, OpeningAssumptions
<1> QED BY <1>1, FS_Subset DEF InWindow, Days

LEMMA SentIsOver == \A n, w, d : SentIn(n, w, d) = SentOver(sent[n], w, d)
BY DEF SentIn, SentOver, InWindow

LEMMA SentNothing ==
  ASSUME NEW f, NEW w, NEW d, \A i \in InWindow(w, d) : f[i] = 0
  PROVE  SentOver(f, w, d) = 0
<1> DEFINE g == [e \in InWindow(w, d) |-> f[e]]
<1>1. \A e \in DOMAIN g : {e} \X (1..g[e]) = {}
  OBVIOUS
<1>2. Units(g) = {}
  BY <1>1 DEF Units
<1> QED BY <1>2, FS_EmptySet DEF SentOver, Total

LEMMA SentMore ==
  ASSUME NEW f \in [Days -> Nat], NEW w, NEW d \in Days, NEW x \in Nat
  PROVE  SentOver([f EXCEPT ![d] = @ + x], w, d) = SentOver(f, w, d) + x
<1> DEFINE S == InWindow(w, d)
           new == [f EXCEPT ![d] = @ + x]
           g == [e \in S |-> f[e]]
           h == [e \in S |-> new[e]]
<1>1. S \subseteq Days /\ d \in S /\ IsFiniteSet(S)
  BY WindowFinite DEF InWindow
<1> HIDE DEF S
<1>2. /\ g \in [S -> Nat] /\ h \in [S -> Nat]
      /\ [e \in S \ {d} |-> g[e]] = [e \in S \ {d} |-> h[e]]
      /\ h[d] = g[d] + x /\ g[d] \in Nat
  BY <1>1
<1> HIDE DEF g, h
<1>3. /\ Total([e \in S \ {d} |-> g[e]]) = Total(g) - g[d]
      /\ Total([e \in S \ {d} |-> h[e]]) = Total(h) - h[d]
      /\ Total(g) \in Nat /\ Total(h) \in Nat
  BY <1>1, <1>2, TotalRemove, TotalType
<1>4. Total(h) = Total(g) + x
  BY <1>2, <1>3
<1> QED BY <1>4 DEF g, h, S, SentOver

\* What a counter stands for on a day no earlier than the last is what was sent.
LEMMA EffectiveIsSent ==
  ASSUME Inv, CountersKept, NEW n \in Numbers, Exists(n), n \notin late,
         NEW d \in Days, d >= account[n].since["day"], NEW w \in Windows
  PROVE  Effective(n, w, d) = SentIn(n, w, d)
<1> DEFINE last == account[n].since["day"]
<1>1. account[n] \in AccountRows /\ last \in Days
  BY DEF Inv, OpeningInv, OpeningTypeOK, Exists, AccountRows, Windows, Days
<1>2. /\ \A i \in Days : i > last => sent[n][i] = 0
      /\ account[n].since[w] = Boundary(w, last)
      /\ account[n].spent[w] = SentIn(n, w, last)
  BY DEF CountersKept, CounterKept
<1> HIDE DEF last
<1>3. Boundary(w, last) <= Boundary(w, d) /\ Boundary(w, last) \in Int /\ Boundary(w, d) \in Int
  BY <1>1, WindowsInOrder DEF last
<1>4. CASE Boundary(w, last) < Boundary(w, d)
  <2>1. ASSUME NEW i \in InWindow(w, d) PROVE sent[n][i] = 0
    <3>1. i \in Days /\ Boundary(w, i) = Boundary(w, d)
      BY DEF InWindow
    <3>2. i \in Int /\ last \in Int
      BY <1>1, <3>1, OpeningAssumptions DEF Days
    <3>3. ~(i <= last)
      BY <1>1, <1>3, <1>4, <3>1, WindowsInOrder
    <3> QED BY <1>2, <3>1, <3>2, <3>3
  <2> QED BY <1>2, <1>4, <2>1, SentNothing, SentIsOver DEF Effective
<1>5. CASE Boundary(w, last) = Boundary(w, d)
  <2>1. SentIn(n, w, last) = SentIn(n, w, d)
    BY <1>5 DEF SentIn
  <2> QED BY <1>2, <1>3, <1>5, <2>1 DEF Effective
<1> QED BY <1>3, <1>4, <1>5

LEMMA InitCounters == Init => CountersKept
<1> SUFFICES ASSUME Init PROVE CountersKept
  OBVIOUS
<1>1. \A n \in Numbers, d \in Days : sent[n][d] = 0
  BY DEF Init
<1>2. ASSUME NEW n \in Numbers, NEW w, NEW d PROVE SentIn(n, w, d) = 0
  BY <1>1, SentNothing, SentIsOver DEF InWindow
<1>3. ASSUME NEW n \in Numbers, Exists(n)
      PROVE  /\ account[n].since["day"] = 0
             /\ \A w \in Windows : account[n].since[w] = Boundary(w, 0) /\ account[n].spent[w] = 0
  BY <1>3 DEF Init, OpeningInit, Exists, NewAccount, Windows, Boundary
<1> QED BY <1>1, <1>2, <1>3 DEF CountersKept, CounterKept

LEMMA CountersUntouched ==
  ASSUME CountersKept, UNCHANGED <<account, sent, late>>
  PROVE  CountersKept'
BY DEF CountersKept, CounterKept, Exists, SentIn

LEMMA InsertKeepsCounters ==
  ASSUME Inv, CountersKept, NEW q \in Openers, InsertAccount(q), UNCHANGED <<sent, late>>
  PROVE  CountersKept'
<1>1. PICK n \in Numbers, o \in Users, d \in Days :
        n = opening[q].number /\ o = opening[q].owner /\ d = opening[q].day
  BY DEF Inv, OpeningInv, OpeningTypeOK, InsertAccount, Days
<1>2. ~Exists(n) /\ account' = [account EXCEPT ![n] = NewAccount(o, d)]
  BY <1>1 DEF InsertAccount
<1>3. account'[n] = NewAccount(o, d) /\ \A m \in Numbers \ {n} : account'[m] = account[m]
  BY <1>2 DEF Inv, OpeningInv, OpeningTypeOK
<1>4. \A e \in Days : sent[n][e] = 0
  BY <1>2 DEF CountersKept, CounterKept
<1>5. ASSUME NEW w, NEW e PROVE SentIn(n, w, e) = 0
  BY <1>4, SentNothing, SentIsOver DEF InWindow
<1>6. /\ account'[n].since["day"] = d
      /\ \A w \in Windows : account'[n].since[w] = Boundary(w, d) /\ account'[n].spent[w] = 0
  BY <1>3 DEF NewAccount, Windows, Boundary
<1>7. \A m, w, e : SentIn(m, w, e)' = SentIn(m, w, e)
  BY DEF SentIn
<1> SUFFICES ASSUME NEW m \in Numbers PROVE CounterKept(m)'
  BY DEF CountersKept
<1>8. CASE m = n
  BY <1>3, <1>4, <1>5, <1>6, <1>7, <1>8 DEF CounterKept, Exists
<1>9. CASE m # n
  <2>1. account'[m] = account[m] /\ (Exists(m)' <=> Exists(m))
    BY <1>3, <1>9 DEF Exists
  <2> QED BY <1>7, <2>1 DEF CountersKept, CounterKept, SentIn
<1> QED BY <1>8, <1>9

\* Whatever breaches no cap is charged to the window it is of.
LEMMA PostKeepsCounters ==
  ASSUME Inv, CountersKept, NEW p \in Spenders, PostSpend(p)
  PROVE  CountersKept'
<1>1. PICK n \in Numbers, d \in Days, x \in Nat :
        n = spend[p].number /\ d = spend[p].day /\ x = spend[p].amount
  BY LimitsAssumptions DEF Inv, LimitsTypeOK, PostSpend
<1>2. Exists(n) /\ account[n] \in AccountRows
  BY <1>1 DEF Inv, SpendsOwn, OpeningInv, OpeningTypeOK, Exists, PostSpend
<1>3. CASE Breach(p) # "posted"
  BY <1>3, CountersUntouched DEF PostSpend
<1>4. CASE Breach(p) = "posted"
  <2>1. /\ account' = Charged(p)
        /\ sent' = [sent EXCEPT ![n][d] = @ + x]
        /\ late' = IF d < account[n].since["day"] THEN late \union {n} ELSE late
    BY <1>1, <1>4 DEF PostSpend
  <2>2. /\ account'[n].spent = [w \in Windows |-> AfterSpend(n, w, p)]
        /\ account'[n].since = [w \in Windows |-> Boundary(w, d)]
        /\ \A m \in Numbers \ {n} : account'[m] = account[m]
        /\ Exists(n)'
    <3>1. PICK row \in AccountRows :
            /\ Charged(p) = [account EXCEPT ![spend[p].number] = row]
            /\ row.owner = account[spend[p].number].owner
            /\ row.spent = [w \in Windows |-> AfterSpend(spend[p].number, w, p)]
            /\ row.since = [w \in Windows |-> Boundary(w, spend[p].day)]
      <4>1. spend[p].pc = "begun" BY DEF PostSpend
      <4> QED BY <4>1, ChargedRow
    <3>2. account' = [account EXCEPT ![n] = row] /\ account \in [Numbers -> AccountRows \union {None}]
      BY <1>1, <2>1, <3>1 DEF Inv, OpeningInv, OpeningTypeOK
    <3> QED BY <1>1, <3>1, <3>2, OpeningAssumptions DEF Exists
  <2>3. sent[n] \in [Days -> Nat] /\ sent'[n] = [sent[n] EXCEPT ![d] = @ + x]
        /\ \A m \in Numbers \ {n} : sent'[m] = sent[m]
    BY <2>1 DEF Inv, LimitsTypeOK
  <2>4. ASSUME NEW w \in Windows PROVE SentIn(n, w, d)' = SentIn(n, w, d) + x
    <3>1. SentOver(sent'[n], w, d) = SentOver(sent[n], w, d) + x
      BY <2>3, SentMore
    <3>2. SentIn(n, w, d)' = SentOver(sent'[n], w, d)
      BY DEF SentIn, SentOver, InWindow
    <3> QED BY <3>1, <3>2, SentIsOver
  <2> SUFFICES ASSUME NEW m \in Numbers PROVE CounterKept(m)'
    BY DEF CountersKept
  <2>5. CASE m # n
    <3>1. account'[m] = account[m] /\ sent'[m] = sent[m] /\ (m \in late' <=> m \in late)
      BY <2>1, <2>2, <2>3, <2>5
    <3> QED BY <3>1 DEF CountersKept, CounterKept, SentIn, Exists
  <2>6. CASE m = n /\ n \in late'
    BY <2>2, <2>6 DEF CounterKept
  <2>7. CASE m = n /\ n \notin late'
    <3>1. n \notin late /\ d >= account[n].since["day"]
      <4>1. n \notin late /\ ~(d < account[n].since["day"])
        BY <2>1, <2>7
      <4>2. d \in Int /\ account[n].since["day"] \in Int
        BY <1>2, OpeningAssumptions DEF AccountRows, Windows, Days
      <4> QED BY <4>1, <4>2
    <3>2. account'[n].since["day"] = d
      BY <2>2 DEF Windows, Boundary
    <3>3. ASSUME NEW e \in Days, e > d PROVE sent'[n][e] = 0
      <4>1. e # d /\ e > account[n].since["day"]
        BY <1>2, <3>1, <3>3, OpeningAssumptions DEF AccountRows, Windows, Days
      <4>2. sent[n][e] = 0
        BY <1>2, <3>1, <4>1 DEF CountersKept, CounterKept
      <4> QED BY <2>3, <4>1, <4>2
    <3>4. ASSUME NEW w \in Windows
          PROVE  account'[n].since[w] = Boundary(w, d) /\ account'[n].spent[w] = SentIn(n, w, d)'
      <4>1. account'[n].spent[w] = Effective(n, w, d) + x
        BY <1>1, <2>2 DEF AfterSpend
      <4>2. Effective(n, w, d) = SentIn(n, w, d)
        BY <1>2, <3>1, EffectiveIsSent
      <4> QED BY <2>2, <2>4, <4>1, <4>2
    <3>5. \A w \in Windows : account'[n].spent[w] = SentIn(n, w, account[n].since["day"])'
      BY <3>2, <3>4 DEF SentIn
    <3> QED BY <2>2, <2>7, <3>2, <3>3, <3>4, <3>5 DEF CounterKept
  <2> QED BY <2>5, <2>6, <2>7
<1> QED BY <1>3, <1>4

LEMMA CountersInductive == Inv /\ CountersKept /\ [Next]_vars => CountersKept'
<1> SUFFICES ASSUME Inv, CountersKept, [Next]_vars PROVE CountersKept'
  OBVIOUS
<1>1. CASE OpeningNext /\ UNCHANGED <<limitVars, spendVars>>
  <2>1. CASE \E q \in Openers : InsertAccount(q)
    BY <1>1, <2>1, InsertKeepsCounters DEF spendVars
  <2>2. CASE ~\E q \in Openers : InsertAccount(q)
    <3>1. UNCHANGED account
      BY <1>1, <2>2 DEF OpeningNext, Draw, LockOwner, CountAccounts, Collide
    <3> QED BY <1>1, <3>1, CountersUntouched DEF spendVars
  <2> QED BY <2>1, <2>2
<1>2. CASE Midnight /\ UNCHANGED <<limitVars, spendVars>>
  BY <1>2, CountersUntouched DEF Midnight, spendVars
<1>3. ASSUME NEW k \in Clerks,
             (\E s \in Scopes : ReadBefore(k, s)) \/ \E r \in CapRows : WriteLimits(k, r)
      PROVE  CountersKept'
  BY <1>3, CountersUntouched DEF ReadBefore, WriteLimits, openVars, spendVars
<1>4. ASSUME NEW p \in Spenders,
             (\E n \in Numbers, x \in Amounts : BeginSpend(p, n, x)) \/ BeginAgain(p)
      PROVE  CountersKept'
  BY <1>4, CountersUntouched DEF BeginSpend, BeginAgain, openVars
<1>5. ASSUME NEW p \in Spenders, PostSpend(p) PROVE CountersKept'
  BY <1>5, PostKeepsCounters
<1>6. CASE UNCHANGED vars
  BY <1>6, CountersUntouched DEF vars, openVars, spendVars
<1> QED BY <1>1, <1>2, <1>3, <1>4, <1>5, <1>6 DEF Next

\* The counters that are reset when they are next used count what was sent in the day
\* and in the month, of every account that nothing late was written to (enforceLimits).
THEOREM AlwaysCounters == Spec => []CountersKept
<1>1. Init => CountersKept
  BY InitCounters
<1>2. Inv /\ CountersKept /\ [Next]_vars => CountersKept'
  BY CountersInductive
<1> QED BY <1>1, <1>2, AlwaysInv, PTL DEF Spec

\* The reducer finds a breach exactly if the caps do not allow the transfer.
LEMMA PostedIfAllowed ==
  ASSUME Inv, CountersKept, NEW p \in Spenders, spend[p].pc = "begun",
         spend[p].number \notin late, spend[p].day >= account[spend[p].number].since["day"]
  PROVE  Breach(p) = "posted" <=> Allowed(p)
<1>1. PICK n \in Numbers, d \in Days :
        n = spend[p].number /\ d = spend[p].day /\ Exists(n)
  BY DEF Inv, LimitsTypeOK, SpendsOwn
<1>2. ASSUME NEW w \in Windows PROVE AfterSpend(n, w, p) = SentIn(n, w, d) + spend[p].amount
  BY <1>1, EffectiveIsSent DEF AfterSpend
<1> DEFINE caps == CapsOf(account[n].owner)
<1>3. Breach(p) = "posted" <=>
        /\ ~Exceeds(spend[p].amount, caps["transaction"])
        /\ ~Exceeds(AfterSpend(n, "day", p), caps["day"])
        /\ ~Exceeds(AfterSpend(n, "month", p), caps["month"])
  BY <1>1 DEF Breach
<1>4. Allowed(p) <=>
        /\ ~Exceeds(spend[p].amount, caps["transaction"])
        /\ ~Exceeds(SentIn(n, "day", d) + spend[p].amount, caps["day"])
        /\ ~Exceeds(SentIn(n, "month", d) + spend[p].amount, caps["month"])
  BY <1>1 DEF Allowed, Windows
<1> QED BY <1>2, <1>3, <1>4 DEF Windows

\* A transfer is posted if, and only if, no cap is exceeded by what was sent before and
\* itself (enforceLimits).
THEOREM AlwaysEnforced == Spec => CapsEnforced
<1>1. Inv /\ CountersKept /\ [Next]_vars =>
        [\A p \in Spenders :
           (/\ spend[p].pc = "begun" /\ spend'[p].pc # "begun"
            /\ spend[p].number \notin late'
            /\ spend[p].day >= account[spend[p].number].since["day"])
           => (spend'[p].pc = "posted" <=> Allowed(p))]_vars
  <2> SUFFICES ASSUME Inv, CountersKept, Next, NEW p \in Spenders,
                      spend[p].pc = "begun", spend'[p].pc # "begun",
                      spend[p].number \notin late',
                      spend[p].day >= account[spend[p].number].since["day"]
               PROVE  spend'[p].pc = "posted" <=> Allowed(p)
    OBVIOUS
  <2>1. PICK q \in Spenders :
          \/ \E n \in Numbers, x \in Amounts : BeginSpend(q, n, x)
          \/ BeginAgain(q) \/ PostSpend(q)
    BY DEF Next, spendVars, ReadBefore, WriteLimits
  <2>2. PostSpend(p)
    <3>1. /\ spend' = [spend EXCEPT ![q] = spend'[q]]
          /\ spend[q].pc \in {"idle", "begun"}
      BY <2>1 DEF Inv, LimitsTypeOK, BeginSpend, BeginAgain, PostSpend
    <3>2. q = p
      BY <3>1 DEF Inv, LimitsTypeOK
    <3> QED BY <2>1, <3>2 DEF Inv, LimitsTypeOK, BeginSpend, BeginAgain
  <2>3. spend'[p].pc = Breach(p) /\ late \subseteq late'
    BY <2>2 DEF Inv, LimitsTypeOK, PostSpend, Spend
  <2> QED BY <2>3, PostedIfAllowed
<1> QED BY <1>1, AlwaysInv, AlwaysCounters, PTL DEF Spec, CapsEnforced
==============================================================================
