------------------------------ MODULE SpendLimits ------------------------------
(***************************************************************************)
(* The caps on what a customer may send: the rows of user_limits that the  *)
(* back office edits, and the counters of the accounts that the posting    *)
(* reducer reads, resets and writes under the lock of the account.  A      *)
(* transaction sees one now() from its beginning, and waits for the lock   *)
(* afterwards: it may write with the date of the day before.               *)
(*                                                                         *)
(* Funds are left out (they are in BalanceCore): any amount may be sent.   *)
(* There is one currency, as in the seeds.                                 *)
(***************************************************************************)
EXTENDS AccountOpening, Sums

CONSTANTS
  Spenders,    \* BOUND: the confirmed outbound transfers
  Amounts,     \* BOUND: what they may be for
  Clerks,      \* BOUND: the edits of the limits
  CapRows,     \* BOUND: the rows an edit may write
  Baseline     \* the seeded global row

Global == "global"
Scopes == Customers \union {Global}
CapFields == {"transaction", "day", "month"}
Rows == CapRows \union {Baseline, None}

ASSUME LimitsAssumptions ==
  /\ Amounts \subseteq Nat \ {0} /\ Global \notin Users
  /\ CapRows \union {Baseline} \subseteq [CapFields -> Nat \union {None}]
  /\ None \notin Nat

VARIABLES
  rows,      \* rows[s]: the row of user_limits of a scope, None if there is none
  trail,     \* trail[s]: the last audit record about it
  edit,      \* edit[k]: what an admin's request has read, and whether it is still so
  spend,     \* spend[p]: a transfer on its way through the reducer
  sent,      \* sent[n][d]: what left n in transactions of day d
  late       \* accounts written with a date older than the one they had

limitVars == <<rows, trail, edit>>
spendVars == <<spend, sent, late>>
vars == <<openVars, limitVars, spendVars>>

Days == 0..LastDay

Unread(pc) == [pc |-> pc, scope |-> Global, before |-> None, alone |-> TRUE]
Spend(pc, n, x, d) == [pc |-> pc, number |-> n, amount |-> x, day |-> d]

LimitsTypeOK ==
  /\ OpeningTypeOK
  /\ rows \in [Scopes -> Rows]
  /\ trail \in [Scopes -> [before : Rows, after : Rows]]
  /\ edit \in [Clerks ->
       [pc : {"idle", "read", "done"}, scope : Scopes, before : Rows, alone : BOOLEAN]]
  /\ spend \in [Spenders ->
       [pc : {"idle", "begun", "posted", "transaction", "day", "month"},
        number : Numbers \union {None}, amount : Amounts \union {0}, day : Days]]
  /\ \A p \in Spenders : spend[p].pc = "begun" =>
       spend[p].number \in Numbers /\ spend[p].amount \in Amounts
  /\ sent \in [Numbers -> [Days -> Nat]]
  /\ late \subseteq Numbers

Init ==
  /\ OpeningInit
  /\ rows = [s \in Scopes |-> IF s = Global THEN Baseline ELSE None]
  /\ trail = [s \in Scopes |-> [before |-> None, after |-> rows[s]]]
  /\ edit = [k \in Clerks |-> Unread("idle")]
  /\ spend = [p \in Spenders |-> Spend("idle", None, 0, 0)]
  /\ sent = [n \in Numbers |-> [d \in Days |-> 0]]
  /\ late = {}

(***************************************************************************)
(* upsertLimits: read the row, write it, record both.                      *)
(***************************************************************************)
ReadBefore(k, s) ==
  /\ edit[k].pc = "idle"
  /\ edit' = [edit EXCEPT ![k] = [pc |-> "read", scope |-> s, before |-> rows[s], alone |-> TRUE]]
  /\ UNCHANGED <<openVars, spendVars, rows, trail>>

Finished(k) ==
  edit' = [j \in Clerks |->
    IF j = k THEN Unread("done")
    ELSE IF edit[j].pc = "read" /\ edit[j].scope = edit[k].scope
         THEN [edit[j] EXCEPT !.alone = FALSE] ELSE edit[j]]

\* Mutant of WriteLimits: the image of before is read after the write.
RecordTooLate(k, r) ==
  /\ edit[k].pc = "read"
  /\ rows' = [rows EXCEPT ![edit[k].scope] = r]
  /\ trail' = [trail EXCEPT ![edit[k].scope] = [before |-> r, after |-> r]]
  /\ Finished(k)
  /\ UNCHANGED <<openVars, spendVars>>

\* The upsert replaces every cap; its row lock is held until the audit record
\* is in.
WriteLimits(k, r) ==
  /\ edit[k].pc = "read"
  /\ rows' = [rows EXCEPT ![edit[k].scope] = r]
  /\ trail' = [trail EXCEPT ![edit[k].scope] = [before |-> edit[k].before, after |-> r]]
  /\ Finished(k)
  /\ UNCHANGED <<openVars, spendVars>>

(***************************************************************************)
(* The reducer's phases d' and f', for the customer's leg of a confirmed   *)
(* outbound transfer.                                                      *)
(***************************************************************************)
\* The customer's row wins wholesale over the global one.
CapsOf(o) == IF rows[o] # None THEN rows[o] ELSE rows[Global]

Exceeds(x, cap) == cap # None /\ x > cap

\* What a counter stands for on day d.
Effective(n, w, d) ==
  IF account[n].since[w] < Boundary(w, d) THEN 0 ELSE account[n].spent[w]

AfterSpend(n, w, p) == Effective(n, w, spend[p].day) + spend[p].amount

\* Mutant of Breach: the counter as it was, without this transfer.
BreachBefore(p) ==
  LET n    == spend[p].number
      caps == CapsOf(account[n].owner)
  IN  IF Exceeds(spend[p].amount, caps["transaction"]) THEN "transaction"
      ELSE IF Exceeds(Effective(n, "day", spend[p].day), caps["day"]) THEN "day"
      ELSE IF Exceeds(Effective(n, "month", spend[p].day), caps["month"]) THEN "month"
      ELSE "posted"

\* The first cap that is breached, in the order they are tried.
Breach(p) ==
  LET n    == spend[p].number
      caps == CapsOf(account[n].owner)
  IN  IF Exceeds(spend[p].amount, caps["transaction"]) THEN "transaction"
      ELSE IF Exceeds(AfterSpend(n, "day", p), caps["day"]) THEN "day"
      ELSE IF Exceeds(AfterSpend(n, "month", p), caps["month"]) THEN "month"
      ELSE "posted"

\* The confirm's transaction begins: now() is taken.  A deadlock rolls it back
\* and it begins again.
BeginSpend(p, n, x) ==
  /\ Exists(n)
  /\ spend[p].pc = "idle"
  /\ spend' = [spend EXCEPT ![p] = Spend("begun", n, x, day)]
  /\ UNCHANGED <<openVars, limitVars, sent, late>>

BeginAgain(p) ==
  /\ spend[p].pc = "begun" /\ spend[p].day < day
  /\ spend' = [spend EXCEPT ![p].day = day]
  /\ UNCHANGED <<openVars, limitVars, sent, late>>

Charged(p) ==
  LET n == spend[p].number IN
  [account EXCEPT ![n] =
     [@ EXCEPT !.spent = [w \in Windows |-> AfterSpend(n, w, p)],
               !.since = [w \in Windows |-> Boundary(w, spend[p].day)]]]

\* Check, money and counters under the lock of the account.  A breach rolls
\* everything back.
PostSpend(p) ==
  LET n == spend[p].number IN
  /\ spend[p].pc = "begun"
  /\ spend' = [spend EXCEPT ![p] = Spend(Breach(p), None, 0, 0)]
  /\ IF Breach(p) = "posted"
     THEN /\ account' = Charged(p)
          /\ sent' = [sent EXCEPT ![n][spend[p].day] = @ + spend[p].amount]
     ELSE UNCHANGED <<account, sent>>
  /\ late' = IF Breach(p) = "posted" /\ spend[p].day < account[n].since["day"]
             THEN late \union {n} ELSE late
  /\ UNCHANGED <<day, opening, limitVars>>

Next ==
  \/ OpeningNext /\ UNCHANGED <<limitVars, spendVars>>
  \/ Midnight /\ UNCHANGED <<limitVars, spendVars>>
  \/ \E k \in Clerks : (\E s \in Scopes : ReadBefore(k, s)) \/ \E r \in CapRows : WriteLimits(k, r)
  \/ \E p \in Spenders :
       \/ \E n \in Numbers, x \in Amounts : BeginSpend(p, n, x)
       \/ BeginAgain(p) \/ PostSpend(p)

Spec == Init /\ [][Next]_vars

(***************************************************************************)
(* Properties.                                                             *)
(***************************************************************************)
\* What left n in the window of kind w that day d belongs to.
SentIn(n, w, d) ==
  Total([e \in {i \in Days : Boundary(w, i) = Boundary(w, d)} |-> sent[n][e]])

\* No cap stands in the way of p, of all that was sent and p on top of it.
Allowed(p) ==
  LET n    == spend[p].number
      caps == CapsOf(account[n].owner)
  IN  /\ ~Exceeds(spend[p].amount, caps["transaction"])
      /\ \A w \in Windows : ~Exceeds(SentIn(n, w, spend[p].day) + spend[p].amount, caps[w])

\* A transfer is posted if, and only if, no cap that holds at that moment is
\* exceeded by all that was sent in the day and in the month (enforceLimits): the
\* counters that are reset when they are next used forget nothing over resets and
\* concurrent edits, and nobody is refused for what was sent in an earlier window.
\* Not once a transaction of the day before came after one of the day: see
\* DailyCapHolds.
CapsEnforced ==
  [][\A p \in Spenders :
       (/\ spend[p].pc = "begun" /\ spend'[p].pc # "begun"
        /\ spend[p].number \notin late'
        /\ spend[p].day >= account[spend[p].number].since["day"])
       => (spend'[p].pc = "posted" <=> Allowed(p))]_vars

\* The audit record of the last edit of a row shows the row as it is, however
\* the edits overlap (upsertLimits).
TrailShowsRow == \A s \in Scopes : trail[s].after = rows[s]

\* An edit that no other overlapped is recorded with the row as it was.  Two
\* that overlap both record the row the first found.
TrailShowsChange ==
  [][\A k \in Clerks :
       (edit[k].pc = "read" /\ edit[k].alone /\ edit'[k].pc = "done") =>
       trail'[edit[k].scope].before = rows[edit[k].scope]]_vars

\* What a customer sends from an account in a day stays within the daily cap
\* (specs/04: the counters "never exceed the cap under a concurrent race").
\* The caps are not edited here.
DailyCapHolds ==
  \A n \in Numbers, d \in Days :
    Exists(n) => ~Exceeds(sent[n][d], CapsOf(account[n].owner)["day"])
================================================================================
