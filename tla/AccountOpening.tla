---------------------------- MODULE AccountOpening ----------------------------
(***************************************************************************)
(* createAccount of AccountsService: a customer opens one more account,    *)
(* up to a cap that is a count taken before the insert.  Only the advisory *)
(* lock on the owner, held to the end of the transaction, makes the two    *)
(* one step.  An account is known by its number, which is drawn before the *)
(* transaction and may turn out to be taken.                               *)
(*                                                                         *)
(* POST /api/accounts carries no idempotency key: a request whose answer   *)
(* was lost and that is sent again is one more request.                    *)
(***************************************************************************)
EXTENDS Naturals, FiniteSets

CONSTANTS
  Users,          \* the subjects of the tokens
  Customers,      \* those with a customer row
  Numbers,        \* BOUND: the account numbers there are to draw
  Seeded,         \* Seeded[o]: the accounts o has from the start
  Openers,        \* requests to POST /api/accounts
  MaxAccounts,    \* MAX_CUSTOMER_ACCOUNTS
  MaxDraws,       \* ACCOUNT_NUMBER_MAX_ATTEMPTS
  LastDay,        \* BOUND: the days the model sees
  MonthLength,    \* days in a month
  None

Windows == {"day", "month"}

AccountRows == [owner : Users, spent : [Windows -> Nat], since : [Windows -> 0..LastDay]]

ASSUME OpeningAssumptions ==
  /\ Customers \subseteq Users /\ None \notin Users
  /\ Seeded \in [Users -> SUBSET Numbers]
  /\ \A o \in Users : IsFiniteSet(Seeded[o]) /\ Cardinality(Seeded[o]) <= MaxAccounts
  /\ \A o, q \in Users : o = q \/ Seeded[o] \intersect Seeded[q] = {}
  /\ IsFiniteSet(Numbers)
  /\ MaxAccounts \in Nat /\ MaxDraws \in Nat \ {0}
  /\ LastDay \in Nat /\ MonthLength \in Nat \ {0}
  /\ None \notin AccountRows

VARIABLES
  day,       \* the date of the database's clock, in UTC
  account,   \* account[n]: owner and spend counters, None if there is none
  opening    \* opening[q]: where a request to open one has got to

openVars == <<day, account, opening>>

Boundary(w, d) == IF w = "day" THEN d ELSE d - (d % MonthLength)

\* Counters of zero, in the windows that are current on day d.
NewAccount(o, d) ==
  [owner |-> o, spent |-> [w \in Windows |-> 0],
   since |-> [w \in Windows |-> Boundary(w, d)]]

Exists(n) == account[n] # None
OwnedBy(o) == {n \in Numbers : Exists(n) /\ account[n].owner = o}

Fresh == [pc |-> "idle", owner |-> None, number |-> None, draws |-> 0, day |-> 0]

Stages == {"idle", "begun", "locked", "counted", "opened", "refused", "failed"}

OpeningTypeOK ==
  /\ day \in 0..LastDay
  /\ account \in [Numbers -> AccountRows \union {None}]
  /\ opening \in [Openers ->
       [pc : Stages, owner : Users \union {None}, number : Numbers \union {None},
        draws : 0..MaxDraws, day : 0..LastDay]]
  /\ \A q \in Openers : opening[q].pc \in {"begun", "locked", "counted"} =>
       opening[q].owner \in Users /\ opening[q].number \in Numbers

OpeningInit ==
  /\ day = 0
  /\ account = [n \in Numbers |->
       IF \E o \in Users : n \in Seeded[o]
       THEN NewAccount(CHOOSE o \in Users : n \in Seeded[o], 0) ELSE None]
  /\ opening = [q \in Openers |-> Fresh]

Step(q, pc) == opening' = [opening EXCEPT ![q].pc = pc]
End(q, pc) == opening' = [opening EXCEPT ![q] = [Fresh EXCEPT !.pc = pc]]

\* Draw a number, begin a transaction: now() is fixed from here on.
Draw(q, o, n) ==
  /\ opening[q].pc = "idle"
  /\ opening' = [opening EXCEPT ![q] =
       [pc |-> "begun", owner |-> o, number |-> n, draws |-> 1, day |-> day]]
  /\ UNCHANGED <<day, account>>

HoldsLock(q, o) == opening[q].pc \in {"locked", "counted"} /\ opening[q].owner = o

\* Mutant of LockOwner: nobody waits.
LockNothing(q) ==
  /\ opening[q].pc = "begun"
  /\ Step(q, "locked")
  /\ UNCHANGED <<day, account>>

\* pg_advisory_xact_lock: released when the transaction ends.
LockOwner(q) ==
  /\ opening[q].pc = "begun"
  /\ \A p \in Openers : ~HoldsLock(p, opening[q].owner)
  /\ Step(q, "locked")
  /\ UNCHANGED <<day, account>>

\* CUSTOMER_NOT_FOUND, ACCOUNT_LIMIT_REACHED, or room for one more.
CountAccounts(q) ==
  /\ opening[q].pc = "locked"
  /\ IF /\ opening[q].owner \in Customers
        /\ Cardinality(OwnedBy(opening[q].owner)) < MaxAccounts
     THEN Step(q, "counted") ELSE End(q, "refused")
  /\ UNCHANGED <<day, account>>

InsertAccount(q) ==
  /\ opening[q].pc = "counted"
  /\ ~Exists(opening[q].number)
  /\ account' = [account EXCEPT ![opening[q].number] =
       NewAccount(opening[q].owner, opening[q].day)]
  /\ End(q, "opened")
  /\ UNCHANGED day

\* The unique index refuses the number: another draw in another transaction,
\* while there are attempts left.
Collide(q, n) ==
  /\ opening[q].pc = "counted"
  /\ Exists(opening[q].number)
  /\ IF opening[q].draws < MaxDraws
     THEN opening' = [opening EXCEPT ![q] =
            [@ EXCEPT !.pc = "begun", !.number = n, !.draws = opening[q].draws + 1, !.day = day]]
     ELSE End(q, "failed")
  /\ UNCHANGED <<day, account>>

Midnight ==
  /\ day < LastDay
  /\ day' = day + 1
  /\ UNCHANGED <<account, opening>>

OpeningNext ==
  \/ \E q \in Openers :
       \/ \E o \in Users, n \in Numbers : Draw(q, o, n)
       \/ LockOwner(q) \/ CountAccounts(q) \/ InsertAccount(q)
       \/ \E n \in Numbers : Collide(q, n)

\* However many requests of one customer overlap, the cap on the number of
\* accounts holds (accounts.service.ts: "the count-then-insert is atomic
\* under the lock, so the cap holds under a race").
AccountCap == \A o \in Users : Cardinality(OwnedBy(o)) <= MaxAccounts
================================================================================
