------------------------------ MODULE Transfers ------------------------------
(***************************************************************************)
(* TransfersService: initiate, confirm, cancel and lazily expire the       *)
(* transfers of a customer, internal (no hold, funds checked at confirm)   *)
(* and external outbound (funds held at initiate, settled at confirm).     *)
(*                                                                         *)
(* Abstracted: request shapes, currencies and 404 checks (the inputs are   *)
(* drawn from what passes them), the confirmation-of-payee token (any      *)
(* destination of Destinations may be confirmed by anybody), the wrong     *)
(* guesses of a code (Otp has no effect here but to end the request), and  *)
(* the spend counters behind LIMIT_EXCEEDED, whose verdict is left open.   *)
(***************************************************************************)
EXTENDS BalanceCore

Pending(u) == {t \in TxIds : status[t] = "PENDING" /\ header[t].by = u}

\* expires_at <= :now, evaluated by Postgres.
Overdue(t, now) == header[t].expires <= now

\* A timestamptz read into a JavaScript Date loses what is below a millisecond;
\* dbNow.getTime() >= expiresAt.getTime() compares two of them.
JsDate(instant) == instant \div TicksPerMs
JsOverdue(t, now) == JsDate(now) >= JsDate(header[t].expires)

\* The unlocked read of the caller's pending transfer.
PriorPending(u) == IF Pending(u) = {} THEN None ELSE CHOOSE t \in Pending(u) : TRUE

Begin(p, r) == req[p] = Idle /\ req' = [req EXCEPT ![p] = r]
Continue(p, r) == req' = [req EXCEPT ![p] = r]
Finish(p) == req' = [req EXCEPT ![p] = Idle]

-----------------------------------------------------------------------------
(* Initiate.  Expire and supersede every pending transfer of the caller,   *)
(* then insert the new one; the flipped rows stay locked in between.        *)

\* initiateTransfer, up to the end of its two sweeps.
BeginInternal(p, src, dst, amt) ==
  /\ req[p] = Idle
  /\ dst \in Destinations \ {src}
  /\ \A t \in Pending(Owner[src]) : ~RowLocked(t)
  /\ req' = [req EXCEPT ![p] =
       [pc |-> "swept", type |-> "internal", src |-> src, dst |-> dst, amt |-> amt,
        now |-> clock, prior |-> None, swept |-> Pending(Owner[src])]]
  /\ UNCHANGED <<clock, accountVars, txVars, holdVars, bookVars, codes, inboundKey, adminVars>>

\* initiateExternalTransfer: the cooling-off gate on the database clock, then the
\* unlocked read of the prior pending transfer.
BeginExternal(p, src, amt) ==
  /\ Begin(p, IF JsDate(clock) < JsDate(CoolingOffUntil)
              THEN [pc |-> "failing", src |-> src, amt |-> amt]
              ELSE [pc |-> "prior", src |-> src, amt |-> amt, now |-> clock,
                    prior |-> PriorPending(Owner[src])])
  /\ UNCHANGED <<clock, accountVars, txVars, holdVars, bookVars, codes, inboundKey, adminVars>>

\* ... which is then released under its source lock (taken here), and the sweeps.
SweepExternal(p) ==
  LET r == req[p] IN
  /\ r.pc = "prior"
  /\ r.prior # None /\ IsExternal(r.prior) => ~LockedByOther(p, header[r.prior].debit)
  /\ \A t \in Pending(Owner[r.src]) : ~RowLocked(t)
  /\ Continue(p, [pc |-> "swept", type |-> "external_outbound", src |-> r.src,
                  dst |-> OutClearing, amt |-> r.amt, now |-> r.now, prior |-> r.prior,
                  swept |-> Pending(Owner[r.src])])
  /\ UNCHANGED <<clock, accountVars, txVars, holdVars, bookVars, codes, inboundKey, adminVars>>

\* The prior pending whose hold this external initiate releases, if any.
Releases(r) ==
  /\ r.prior # None
  /\ IsExternal(r.prior)
  /\ hold[r.prior] = "PLACED"

\* Mutant of HeldAfterRelease: the hold is released, held is not reduced.
HeldNotReduced(r, a) == held[a]

HeldAfterRelease(r, a) ==
  held[a] - (IF Releases(r) /\ header[r.prior].debit = a THEN header[r.prior].amount ELSE 0)

\* Mutant of NoOtherPending: the two sweeps, without the unique index.
WithoutUniqueIndex(r) == TRUE

\* uq_one_pending_per_initiator: no other PENDING row of the caller survives.
NoOtherPending(r) == Pending(Owner[r.src]) \subseteq r.swept

\* The commit of an initiate: the sweeps' flips and the PENDING row t appear.
InsertPending(t, r) ==
  /\ InsertRow(t, Row(r.type, r.amt, r.src, r.dst, Owner[r.src], None, r.now + PendingTtl))
  /\ NoOtherPending(r)
  /\ status' = [s \in TxIds |->
       IF s = t THEN "PENDING"
       ELSE IF s \notin r.swept THEN status[s]
       ELSE IF Overdue(s, r.now) THEN "EXPIRED" ELSE "CANCELLED"]

\* initiateTransfer: no money, no hold, and no look at the hold of what it swept.
CommitInternal(p, t) ==
  LET r == req[p] IN
  /\ r.pc = "swept" /\ r.type = "internal"
  /\ InsertPending(t, r)
  /\ Finish(p)
  /\ UNCHANGED <<clock, accountVars, holdVars, bookVars, codes, inboundKey, adminVars>>

\* initiateExternalTransfer: lock the source, check it, place the hold.
CommitExternal(p, t) ==
  LET r == req[p] IN
  /\ r.pc = "swept" /\ r.type = "external_outbound"
  /\ ~LockedByOther(p, r.src)
  /\ DebitAllowed(r.src, r.amt, HeldAfterRelease(r, r.src))
  /\ InsertPending(t, r)
  /\ hold' = [s \in TxIds |->
       IF s = t THEN "PLACED"
       ELSE IF Releases(r) /\ s = r.prior
            THEN IF JsOverdue(s, r.now) THEN "EXPIRED" ELSE "RELEASED"
       ELSE hold[s]]
  /\ held' = [a \in Accounts |->
       HeldAfterRelease(r, a) + (IF a = r.src THEN r.amt ELSE 0)]
  /\ Finish(p)
  /\ UNCHANGED <<clock, balance, frozen, railRef, bookVars, codes, inboundKey, adminVars>>

\* Funds or freeze refuse the hold: the database transaction rolls back, and the
\* failure hook goes to work in a fresh one.
RefuseExternal(p) ==
  LET r == req[p] IN
  /\ r.pc = "swept" /\ r.type = "external_outbound"
  /\ ~LockedByOther(p, r.src)
  /\ ~DebitAllowed(r.src, r.amt, HeldAfterRelease(r, r.src))
  /\ Continue(p, [pc |-> "failing", src |-> r.src, amt |-> r.amt])
  /\ UNCHANGED <<clock, accountVars, txVars, holdVars, bookVars, codes, inboundKey, adminVars>>

\* recordFreshFailedInTx: a terminal FAILED row and its event, no money, no hold.
\* (expires = 0 stands for the NULL of a row that was never PENDING.)
RecordFreshFailed(p, t) ==
  LET r == req[p] IN
  /\ r.pc = "failing"
  /\ InsertRow(t, Row("external_outbound", r.amt, r.src, OutClearing, Owner[r.src], None, 0))
  /\ status' = [status EXCEPT ![t] = "FAILED"]
  /\ Emit(t, "transaction.failed")
  /\ Finish(p)
  /\ UNCHANGED <<clock, accountVars, holdVars, ledger, codes, inboundKey, adminVars>>

\* 23505 on the single-pending index: the whole database transaction rolls back.
PendingConflict(p) ==
  /\ req[p].pc = "swept"
  /\ ~NoOtherPending(req[p])
  /\ Finish(p)
  /\ UNCHANGED <<clock, accountVars, txVars, holdVars, bookVars, codes, inboundKey, adminVars>>

-----------------------------------------------------------------------------
(* Confirm: load and expiry check, then re-read and consume the code, then *)
(* post or settle, then, if a business rule refused, persist the failure.  *)

\* The row lock and, for an external transfer, the source account lock.
CanFlip(t) ==
  /\ ~RowLocked(t)
  /\ IsExternal(t) => ~AccountLocked(header[t].debit)

ConfirmLoad(p, t) ==
  /\ status[t] = "PENDING"
  /\ ~Overdue(t, clock)
  /\ Begin(p, [pc |-> "loaded", tx |-> t])
  /\ UNCHANGED <<clock, accountVars, txVars, holdVars, bookVars, codes, inboundKey, adminVars>>

\* Consumed before the money moves, in Redis: a later failure does not give it back.
ConfirmAuthorize(p) ==
  LET t == req[p].tx IN
  /\ req[p].pc = "loaded"
  /\ status[t] = "PENDING"
  /\ header[t].by \in codes
  /\ codes' = codes \ {header[t].by}
  /\ Continue(p, [pc |-> "authorized", tx |-> t])
  /\ UNCHANGED <<clock, accountVars, txVars, holdVars, bookVars, inboundKey, adminVars>>

\* postPendingInTx of an internal transfer.  The spend caps may also refuse.
ConfirmPost(p) ==
  LET t == req[p].tx IN
  /\ req[p].pc = "authorized" /\ ~IsExternal(t)
  /\ ~RowLocked(t)
  /\ ~AccountLocked(header[t].debit) /\ ~AccountLocked(header[t].credit)
  /\ DebitAllowed(header[t].debit, header[t].amount, held[header[t].debit])
  /\ PostPending(t)
  /\ Finish(p)
  /\ UNCHANGED <<clock, held, frozen, header, holdVars, codes, inboundKey, adminVars>>

\* Mutant of ConfirmSettle: the reservation outlives the payment it was for.
SettleKeepingHeld(p) ==
  LET t == req[p].tx IN
  /\ req[p].pc = "authorized" /\ IsExternal(t)
  /\ CanFlip(t)
  /\ hold[t] # "NONE"
  /\ PostPending(t)
  /\ hold' = IF hold[t] = "PLACED" THEN [hold EXCEPT ![t] = "SETTLED"] ELSE hold
  /\ Finish(p)
  /\ UNCHANGED <<clock, held, frozen, header, railRef, codes, inboundKey, adminVars>>

\* settleExternalTransfer: held goes first, so that the funds check passes.
ConfirmSettle(p) ==
  LET t == req[p].tx
      src == header[t].debit
      amt == header[t].amount IN
  /\ req[p].pc = "authorized" /\ IsExternal(t)
  /\ CanFlip(t)
  /\ hold[t] # "NONE"
  /\ held[src] >= amt                     \* CHECK (held >= 0)
  /\ DebitAllowed(src, amt, held[src] - amt)
  /\ PostPending(t)
  /\ held' = [held EXCEPT ![src] = @ - amt]
  /\ hold' = IF hold[t] = "PLACED" THEN [hold EXCEPT ![t] = "SETTLED"] ELSE hold
  /\ Finish(p)
  /\ UNCHANGED <<clock, frozen, header, railRef, codes, inboundKey, adminVars>>

\* A business failure rolls the money transaction back: frozen, short of funds, or
\* over a spend cap (which may always be).  All checked before the status is.
ConfirmRefused(p) ==
  LET t == req[p].tx IN
  /\ req[p].pc = "authorized"
  /\ ~AccountLocked(header[t].debit) /\ ~AccountLocked(header[t].credit)
  /\ IsExternal(t) => hold[t] # "NONE" /\ held[header[t].debit] >= header[t].amount
  /\ Continue(p, [pc |-> "refused", tx |-> t])
  /\ UNCHANGED <<clock, accountVars, txVars, holdVars, bookVars, codes, inboundKey, adminVars>>

\* Mutant of PersistConfirmFailure: what became of the transfer meanwhile is ignored.
FailWhateverItsStatus(p) ==
  LET t == req[p].tx IN
  /\ req[p].pc = "refused"
  /\ CanFlip(t)
  /\ status' = [status EXCEPT ![t] = "FAILED"]
  /\ Emit(t, "transaction.failed")
  /\ ReleaseHold(t, "RELEASED")
  /\ Finish(p)
  /\ UNCHANGED <<clock, balance, frozen, header, railRef, ledger, codes, inboundKey, adminVars>>

\* persistConfirmFailure: the hold is released only if the row flipped.
PersistConfirmFailure(p) ==
  LET t == req[p].tx IN
  /\ req[p].pc = "refused"
  /\ CanFlip(t)
  /\ IF status[t] = "PENDING"
     THEN RecordFailed(t) /\ ReleaseHold(t, "RELEASED")
     ELSE UNCHANGED <<status, outbox, hold, held>>
  /\ Finish(p)
  /\ UNCHANGED <<clock, balance, frozen, header, railRef, ledger, codes, inboundKey, adminVars>>

-----------------------------------------------------------------------------
(* Cancel, and the lazy expiry of the confirm and of the pending feed.      *)

\* The guarded update of the status: a row that is no longer pending is not touched.
Transition(t, to) ==
  /\ status[t] = "PENDING"
  /\ status' = [status EXCEPT ![t] = to]

CloseReleasing(t, txTo, holdTo) ==
  /\ Transition(t, txTo)
  /\ CanFlip(t)
  /\ ReleaseHold(t, holdTo)
  /\ UNCHANGED <<clock, balance, frozen, header, railRef, bookVars, codes, inboundKey,
                 adminVars, req>>

\* Mutant of CancelTransfer: a hold status the schema does not have.
CancelBoth(t) == CloseReleasing(t, "CANCELLED", "CANCELLED")

CancelTransfer(t) == CloseReleasing(t, "CANCELLED", "RELEASED")

ExpireOverdue(t) ==
  /\ status[t] = "PENDING"
  /\ Overdue(t, clock)
  /\ CloseReleasing(t, "EXPIRED", "EXPIRED")

-----------------------------------------------------------------------------
\* A request ends early: a rejected guard, a wrong code, a database error, a
\* deadlock victim out of retries, a lost failure write, a crash of the instance.
\* Whatever it had not committed is rolled back, its locks are gone.
Abort(p) ==
  /\ req[p] # Idle
  /\ Finish(p)
  /\ UNCHANGED <<clock, accountVars, txVars, holdVars, bookVars, codes, inboundKey, adminVars>>

\* The user's one-time code appears, or is lost to its TTL or to a lockout.
GenerateOtp(u) ==
  /\ u \notin codes
  /\ codes' = codes \cup {u}
  /\ UNCHANGED <<clock, accountVars, txVars, holdVars, bookVars, inboundKey, adminVars, req>>

LoseOtp(u) ==
  /\ u \in codes
  /\ codes' = codes \ {u}
  /\ UNCHANGED <<clock, accountVars, txVars, holdVars, bookVars, inboundKey, adminVars, req>>

Tick ==
  /\ clock < MaxClock
  /\ clock' = clock + 1
  /\ UNCHANGED <<accountVars, txVars, holdVars, bookVars, codes, inboundKey, adminVars, req>>

TransfersNext ==
  \/ \E p \in Procs :
       \/ \E src \in Accounts, amt \in Amounts :
            \/ \E dst \in Destinations : BeginInternal(p, src, dst, amt)
            \/ BeginExternal(p, src, amt)
       \/ \E t \in TxIds :
            \/ CommitInternal(p, t)
            \/ CommitExternal(p, t)
            \/ RecordFreshFailed(p, t)
            \/ ConfirmLoad(p, t)
       \/ SweepExternal(p)
       \/ RefuseExternal(p)
       \/ PendingConflict(p)
       \/ ConfirmAuthorize(p)
       \/ ConfirmPost(p)
       \/ ConfirmSettle(p)
       \/ ConfirmRefused(p)
       \/ PersistConfirmFailure(p)
       \/ Abort(p)
  \/ \E t \in TxIds : CancelTransfer(t) \/ ExpireOverdue(t)
  \/ \E u \in Users : GenerateOtp(u) \/ LoseOtp(u)
  \/ Tick

=============================================================================
