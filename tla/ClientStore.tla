------------------------------ MODULE ClientStore ------------------------------
(***************************************************************************)
(* The server the client application is run and tested against: the        *)
(* request handlers of web/client/src/mocks and the state behind them.     *)
(* One customer.  A handler reads its request first and then runs to its   *)
(* end without giving up the thread, so that a handler is one step.        *)
(***************************************************************************)
EXTENDS Integers, FiniteSets

CONSTANTS
  Accounts,        \* the customer's own accounts that hold money
  Destinations,    \* accounts of others, reached by number
  Payees,          \* external payees, enrolled or not
  Amounts,         \* what a transfer may be worth
  Funds,           \* Funds[a]: the balance of a in the fixtures
  MaxTransfers, MaxKeys,
  Ttl,             \* PENDING_TTL_MS, in ticks of the clock
  Window,          \* DUPLICATE_WINDOW_MS, in ticks of the clock
  CoolingOff,      \* PAYEE_COOLING_OFF_MS, in ticks of the clock
  MaxClock,
  None

ASSUME StoreAssumptions ==
  /\ Amounts \subseteq Nat \ {0}
  /\ Funds \in [Accounts -> Nat]
  /\ {MaxTransfers, MaxKeys, Ttl, Window, CoolingOff, MaxClock} \subseteq Nat
  /\ Window <= Ttl + 1
  /\ None \notin Nat \union Accounts \union Destinations \union Payees
  /\ None \notin {"PENDING", "POSTED", "CANCELLED", "EXPIRED", "PLACED", "SETTLED", "RELEASED"}

VARIABLES
  clock,          \* Date.now()
  terms,          \* terms[i]: what transfer i was asked to be, None if there is none
  status,         \* its status
  hold,           \* its reservation, for an external transfer
  byKey,          \* the transfer made under an idempotency key
  tokens,         \* destinations the customer holds a confirmation token for
  activePending,  \* the transfer the pending feed shows
  held, balance,  \* of an account: the fixture with the adjustments folded in
  usableFrom      \* end of a payee's cooling off, None if not enrolled

storeVars == <<clock, terms, status, hold, byKey, tokens, activePending, held, balance, usableFrom>>
rows == <<terms, status, hold, activePending, held, balance>>
others == <<clock, byKey, tokens, usableFrom>>

Ids == 1..MaxTransfers
Keys == 1..MaxKeys
Terms == [kind : {"internal"}, source : Accounts, dest : Destinations, amount : Amounts,
          at : 0..MaxClock, key : Keys \union {None}]
         \union
         [kind : {"external_outbound"}, source : Accounts, dest : Payees, amount : Amounts,
          at : 0..MaxClock, key : Keys \union {None}]

StoreTypeOK ==
  /\ clock \in 0..MaxClock
  /\ terms \in [Ids -> Terms \union {None}]
  /\ status \in [Ids -> {None, "PENDING", "POSTED", "CANCELLED", "EXPIRED"}]
  /\ hold \in [Ids -> {None, "PLACED", "SETTLED", "RELEASED"}]
  /\ byKey \in [Keys -> Ids \union {None}]
  /\ tokens \subseteq Destinations
  /\ activePending \in Ids \union {None}
  /\ held \in [Accounts -> Int] /\ balance \in [Accounts -> Int]
  /\ usableFrom \in [Payees -> 0..(MaxClock + CoolingOff) \union {None}]

\* The fixtures: some payees past their cooling off, no transfer yet.
StoreInit ==
  /\ clock = 0
  /\ terms = [i \in Ids |-> None]
  /\ status = [i \in Ids |-> None]
  /\ hold = [i \in Ids |-> None]
  /\ byKey = [k \in Keys |-> None]
  /\ tokens = {}
  /\ activePending = None
  /\ held = [a \in Accounts |-> 0]
  /\ balance = Funds
  /\ usableFrom \in [Payees -> {0, None}]

(***************************************************************************)
(* What is said of a transfer.                                             *)
(***************************************************************************)
Stored == {i \in Ids : terms[i] # None}
Pending(i) == status[i] = "PENDING"
Overdue(i) == Pending(i) /\ clock > terms[i].at + Ttl
Available(a) == balance[a] - held[a]

\* Two requests for the same payment: the fingerprint leaves out the flag that
\* confirms a duplicate, and when the request was made.
SamePayment(x, y) ==
  /\ x.kind = y.kind /\ x.source = y.source /\ x.dest = y.dest /\ x.amount = y.amount

Recent(x) == \E i \in Stored : SamePayment(terms[i], x) /\ clock - terms[i].at < Window

\* The payee's `usable`, as the handlers judge it now.
Usable(p) == usableFrom[p] # None /\ clock >= usableFrom[p]

(***************************************************************************)
(* Answers: a transfer, or the code of an error.                           *)
(***************************************************************************)
Codes == {"SUSPECTED_DUPLICATE", "IDEMPOTENCY_KEY_REUSED", "DESTINATION_NOT_CONFIRMED",
          "PAYEE_NOT_FOUND", "PAYEE_IN_COOLING_OFF", "INSUFFICIENT_FUNDS", "TRANSFER_EXPIRED",
          "TRANSFER_NOT_PENDING", "INVALID_OTP", "PAYEE_ALREADY_ENROLLED",
          "FETCH_ERROR"}
Answers == [ok : {TRUE}, id : Ids \union {None}] \union [ok : {FALSE}, code : Codes]
Returns(i) == [ok |-> TRUE, id |-> i]
Refuses(code) == [ok |-> FALSE, code |-> code]

ASSUME NoneIsNothing ==
  None \notin Terms /\ None \notin Answers /\ \A ids \in SUBSET Ids : ids # None

(***************************************************************************)
(* A pending transfer ends: on confirm its hold is settled, otherwise it   *)
(* is released, and the feed no longer shows it.                           *)
(***************************************************************************)
SettleOrRelease(i, s) ==
  IF hold[i] = "PLACED"
  THEN LET x == terms[i] IN
       /\ hold' = [hold EXCEPT ![i] = IF s = "POSTED" THEN "SETTLED" ELSE "RELEASED"]
       /\ held' = [held EXCEPT ![x.source] = @ - x.amount]
       /\ balance' = [balance EXCEPT ![x.source] = IF s = "POSTED" THEN @ - x.amount ELSE @]
  ELSE UNCHANGED <<hold, held, balance>>

Ends(i, s) ==
  /\ status' = [status EXCEPT ![i] = s]
  /\ SettleOrRelease(i, s)
  /\ activePending' = IF activePending = i THEN None ELSE activePending
  /\ UNCHANGED terms

\* Reading a transfer is what makes an overdue one expire.
ApplyLazyExpiry(i) ==
  IF Overdue(i) THEN Ends(i, "EXPIRED") ELSE UNCHANGED rows

Expired(i) == Overdue(i) \/ status[i] = "EXPIRED"

(***************************************************************************)
(* Initiate.  A request is terms without a time, the key it goes under,    *)
(* and whether the customer has said to send it in spite of a warning.     *)
(***************************************************************************)
Request(r) == [kind |-> r.kind, source |-> r.source, dest |-> r.dest, amount |-> r.amount,
               at |-> clock, key |-> r.key]

\* Mutant of Known: the key is not looked up.
NothingKnown(r) == FALSE

Known(r) == r.key # None /\ byKey[r.key] # None
Reused(r) == Known(r) /\ ~SamePayment(terms[byKey[r.key]], r)
Duplicate(r) == ~r.confirmDuplicate /\ Recent(r)

\* The pending transfer a new one takes the place of, and what it gives back.
Prior == {i \in Ids : i = activePending /\ Pending(i)}
Reserving == {i \in Prior : hold[i] = "PLACED"}
GivenBack(a) ==
  IF \E i \in Reserving : terms[i].source = a THEN terms[activePending].amount ELSE 0
NextId == Cardinality(Stored) + 1

Replay(r, answer) ==
  /\ Known(r) /\ ~Reused(r)
  /\ answer = Returns(byKey[r.key])
  /\ ApplyLazyExpiry(byKey[r.key])
  /\ UNCHANGED others

Refuse(code, answer) == answer = Refuses(code) /\ UNCHANGED storeVars

\* Mutant of Store: the prior transfer is left pending.
StoreBeside(i, r, superseded) ==
  /\ terms' = [terms EXCEPT ![i] = Request(r)]
  /\ byKey' = IF r.key = None THEN byKey ELSE [byKey EXCEPT ![r.key] = i]
  /\ activePending' = i
  /\ status' = [status EXCEPT ![i] = "PENDING"]

Store(i, r, superseded) ==
  /\ terms' = [terms EXCEPT ![i] = Request(r)]
  /\ byKey' = IF r.key = None THEN byKey ELSE [byKey EXCEPT ![r.key] = i]
  /\ activePending' = i
  /\ status' = [j \in Ids |-> IF j = i THEN "PENDING"
                              ELSE IF j \in Prior THEN superseded ELSE status[j]]

\* An internal transfer cancels the prior one as it finds it, and looks at no hold.
InitiateTransfer(r, answer) ==
  \/ Replay(r, answer)
  \/ Reused(r) /\ Refuse("IDEMPOTENCY_KEY_REUSED", answer)
  \/ ~Known(r) /\ r.dest \notin tokens /\ Refuse("DESTINATION_NOT_CONFIRMED", answer)
  \/ /\ ~Known(r) /\ r.dest \in tokens /\ Duplicate(r)
     /\ Refuse("SUSPECTED_DUPLICATE", answer)
  \/ /\ ~Known(r) /\ r.dest \in tokens /\ ~Duplicate(r)
     /\ NextId \in Ids
     /\ answer = Returns(NextId)
     /\ Store(NextId, r, "CANCELLED")
     /\ UNCHANGED <<clock, hold, tokens, held, balance, usableFrom>>

EnoughFunds(r) == r.amount <= Available(r.source) + GivenBack(r.source)

\* Mutant of Reserve: the prior hold is released, its amount is not given back.
ReserveOnTop(i, r) ==
  /\ hold' = [j \in Ids |-> IF j = i THEN "PLACED"
                            ELSE IF j \in Reserving THEN "RELEASED" ELSE hold[j]]
  /\ held' = [held EXCEPT ![r.source] = @ + r.amount]

\* The prior hold is given back before the new one is placed.
Reserve(i, r) ==
  /\ hold' = [j \in Ids |-> IF j = i THEN "PLACED"
                            ELSE IF j \in Reserving THEN "RELEASED" ELSE hold[j]]
  /\ held' = [a \in Accounts |->
                held[a] - GivenBack(a) + IF a = r.source THEN r.amount ELSE 0]

\* The payee is looked at before the key: a call is not replayed to a payee in
\* cooling off.  An overdue prior transfer expires, whatever comes of the call.
InitiateExternalTransfer(r, answer) ==
  LET lapsed == \E i \in Prior : Overdue(i) IN
  \/ usableFrom[r.dest] = None /\ Refuse("PAYEE_NOT_FOUND", answer)
  \/ /\ usableFrom[r.dest] # None /\ ~Usable(r.dest)
     /\ Refuse("PAYEE_IN_COOLING_OFF", answer)
  \/ Usable(r.dest) /\ Replay(r, answer)
  \/ Usable(r.dest) /\ Reused(r) /\ Refuse("IDEMPOTENCY_KEY_REUSED", answer)
  \/ /\ Usable(r.dest) /\ ~Known(r) /\ Duplicate(r)
     /\ Refuse("SUSPECTED_DUPLICATE", answer)
  \/ /\ Usable(r.dest) /\ ~Known(r) /\ ~Duplicate(r) /\ ~EnoughFunds(r)
     /\ answer = Refuses("INSUFFICIENT_FUNDS")
     /\ IF lapsed THEN ApplyLazyExpiry(activePending) ELSE UNCHANGED rows
     /\ UNCHANGED others
  \/ /\ Usable(r.dest) /\ ~Known(r) /\ ~Duplicate(r) /\ EnoughFunds(r)
     /\ NextId \in Ids
     /\ answer = Returns(NextId)
     /\ Store(NextId, r, IF lapsed THEN "EXPIRED" ELSE "CANCELLED")
     /\ Reserve(NextId, r)
     /\ UNCHANGED <<clock, tokens, balance, usableFrom>>

Initiate(r, answer) ==
  IF r.kind = "internal" THEN InitiateTransfer(r, answer)
  ELSE InitiateExternalTransfer(r, answer)

(***************************************************************************)
(* The other handlers.                                                     *)
(***************************************************************************)
ResolveDestination(dest) ==
  /\ tokens' = tokens \union {dest}
  /\ UNCHANGED <<rows, clock, byKey, usableFrom>>

\* Expiry is judged before the code, and a posted transfer answers as itself.
ConfirmTransfer(i, codeIsRight, answer) ==
  /\ \/ Expired(i) /\ answer = Refuses("TRANSFER_EXPIRED") /\ ApplyLazyExpiry(i)
     \/ status[i] = "POSTED" /\ answer = Returns(i) /\ UNCHANGED rows
     \/ status[i] = "CANCELLED" /\ answer = Refuses("TRANSFER_NOT_PENDING") /\ UNCHANGED rows
     \/ /\ Pending(i) /\ ~Overdue(i) /\ ~codeIsRight
        /\ answer = Refuses("INVALID_OTP") /\ UNCHANGED rows
     \/ Pending(i) /\ ~Overdue(i) /\ codeIsRight /\ answer = Returns(i) /\ Ends(i, "POSTED")
  /\ UNCHANGED others

CancelTransfer(i, answer) ==
  /\ \/ status[i] = "POSTED" /\ answer = Refuses("TRANSFER_NOT_PENDING") /\ UNCHANGED rows
     \/ Expired(i) /\ answer = Returns(i) /\ ApplyLazyExpiry(i)
     \/ status[i] = "CANCELLED" /\ answer = Returns(i) /\ UNCHANGED rows
     \/ Pending(i) /\ ~Overdue(i) /\ answer = Returns(i) /\ Ends(i, "CANCELLED")
  /\ UNCHANGED others

RegisterPayee(p, answer) ==
  \/ usableFrom[p] # None /\ Refuse("PAYEE_ALREADY_ENROLLED", answer)
  \/ /\ usableFrom[p] = None
     /\ answer = Returns(None)
     /\ usableFrom' = [usableFrom EXCEPT ![p] = clock + CoolingOff]
     /\ UNCHANGED <<rows, clock, byKey, tokens>>

(***************************************************************************)
(* What the reads return.  Asking for the pending transfer expires it if   *)
(* it is overdue.                                                          *)
(***************************************************************************)
ListAccounts == [a \in Accounts |-> Available(a)]
ListUsablePayees == {p \in Payees : Usable(p)}
PendingAuthorization == {i \in Prior : ~Overdue(i)}

GetPendingAuthorization ==
  IF Prior = {} THEN UNCHANGED rows ELSE ApplyLazyExpiry(activePending)
===============================================================================
