------------------------------- MODULE Payments -------------------------------
(***************************************************************************)
(* What the balance service promises its customers and the other services, *)
(* with no request, lock, hold, retry or clock in sight.  A payment is     *)
(* agreed, then moves its whole amount at once, or never does; what has    *)
(* moved can be undone once, by its mirror image.  A customer has one open *)
(* payment: opening another replaces it in the same instant.  Others learn *)
(* of a payment that moved or failed, in the instant it does.              *)
(***************************************************************************)
EXTENDS Integers, Sequences

CONSTANTS
  Payments,   \* ids of payments
  Parties,    \* whoever asks for one
  Places,     \* accounts
  Opening,    \* Opening[a]: what is in account a at the beginning
  Amounts,    \* what a payment may be worth
  None

Terms == [by : Parties, debit : Places, credit : Places, amount : Amounts]

VARIABLES
  stage,   \* "none", "open", "moved", "undone", "failed", "lapsed"
  terms,   \* what was agreed
  book,    \* what is in each account
  news     \* what others were told of a payment

paymentVars == <<stage, terms, book, news>>

Init ==
  /\ stage = [t \in Payments |-> "none"]
  /\ terms = [t \in Payments |-> None]
  /\ book = Opening
  /\ news = [t \in Payments |-> <<>>]

\* A new payment may have any terms: those the step writes down for it.
Agree(t, x) ==
  /\ stage[t] = "none"
  /\ x \in Terms
  /\ terms' = [terms EXCEPT ![t] = x]

Transfer(x) ==
  book' = [book EXCEPT ![x.debit] = @ - x.amount, ![x.credit] = @ + x.amount]

Tell(t, event) == news' = [news EXCEPT ![t] = Append(@, event)]

OpenOf(party) == {t \in Payments : stage[t] = "open" /\ terms[t].by = party}

Open(t, x) ==
  /\ Agree(t, x)
  /\ stage' = [s \in Payments |-> IF s = t THEN "open"
                                  ELSE IF s \in OpenOf(x.by) THEN "lapsed" ELSE stage[s]]
  /\ UNCHANGED <<book, news>>

Lapse(t) ==
  /\ stage[t] = "open"
  /\ stage' = [stage EXCEPT ![t] = "lapsed"]
  /\ UNCHANGED <<terms, book, news>>

Fail(t) ==
  /\ stage[t] = "open"
  /\ stage' = [stage EXCEPT ![t] = "failed"]
  /\ Tell(t, "transaction.failed")
  /\ UNCHANGED <<terms, book>>

Reject(t, x) ==
  /\ Agree(t, x)
  /\ stage' = [stage EXCEPT ![t] = "failed"]
  /\ Tell(t, "transaction.failed")
  /\ UNCHANGED book

Move(t) ==
  /\ stage[t] = "open"
  /\ stage' = [stage EXCEPT ![t] = "moved"]
  /\ Transfer(terms[t])
  /\ Tell(t, "transaction.posted")
  /\ UNCHANGED terms

MoveAtOnce(t, x) ==
  /\ Agree(t, x)
  /\ stage' = [stage EXCEPT ![t] = "moved"]
  /\ Transfer(x)
  /\ Tell(t, "transaction.posted")

Mirror(x, party) ==
  [by |-> party, debit |-> x.credit, credit |-> x.debit, amount |-> x.amount]

Undo(t, r, party) ==
  /\ stage[t] = "moved"
  /\ Agree(r, Mirror(terms[t], party))
  /\ stage' = [stage EXCEPT ![t] = "undone", ![r] = "moved"]
  /\ Transfer(Mirror(terms[t], party))
  /\ Tell(r, "transaction.posted")

Next ==
  \E t \in Payments :
    \/ Open(t, terms'[t]) \/ Reject(t, terms'[t]) \/ MoveAtOnce(t, terms'[t])
    \/ Lapse(t) \/ Fail(t) \/ Move(t)
    \/ \E r \in Payments, party \in Parties : Undo(t, r, party)

Spec == Init /\ [][Next]_paymentVars

===============================================================================
