------------------------------- MODULE ClientApp -------------------------------
(***************************************************************************)
(* The customer's web application in one browser tab: the two transfer     *)
(* pages with their reducers, the mutations they have on the wire, and the *)
(* cached feed of the pending transfer with its tags (RTK Query).  The     *)
(* server is ClientStore, and the customer may be at work elsewhere too.   *)
(***************************************************************************)
EXTENDS ClientStore, Money, Sums

CONSTANTS
  Pages,       \* the pages the customer goes to
  Inputs,      \* what the customer types for an amount
  MaxCalls,    \* mutations on the wire at a time
  MaxUpsets    \* losses of the network and doings of the customer elsewhere

ASSUME AppAssumptions ==
  /\ "TransferPage" \in Pages /\ MaxCalls \in Nat /\ MaxUpsets \in Nat
  /\ Inputs \subseteq Typed
  /\ \A typed \in Inputs : Accepted(typed) => ToMinor(typed) \in Amounts

VARIABLES
  page,        \* the page that is open
  wizard,      \* the state of its reducer
  resumed,     \* autoResumeDone
  minted,      \* idempotency keys made so far
  calls,       \* mutations on the wire
  feed,        \* what was last read of the pending transfer, None if nothing
  reading,     \* a read of it on the wire
  stale,       \* its tag was invalidated and it is yet to be read again
  upsets,      \* of those, how many there were
  untold       \* the server changed the feed since it was last read, in a way
               \* no answer told this tab of

tabVars == <<page, wizard, resumed, minted, calls, feed, reading, stale>>
vars == <<storeVars, tabVars, upsets, untold>>

(***************************************************************************)
(* The reducers, transferFlowReducer and externalTransferFlowReducer, which*)
(* differ before a transfer exists and agree from then on.  `suspected` is *)
(* the request the server took for a duplicate: the reducer keeps only     *)
(* whether there was one.  `view` outlives the steps that show it.         *)
(***************************************************************************)
Steps == {"resolve", "confirmPayee", "amount", "compose", "awaitingOtp", "posted", "cancelled"}

Blank == [step |-> "resolve", dest |-> None, key |-> None, suspected |-> FALSE, view |-> None]
Compose(k) == [Blank EXCEPT !.step = "compose", !.key = k]
Entry == {"resolve", "compose"}
Initiating == {"amount", "compose"}

ResumePending(i) == [Blank EXCEPT !.step = "awaitingOtp", !.view = i]
DestinationResolved(w, dest) ==
  IF w.step = "resolve" THEN [w EXCEPT !.step = "confirmPayee", !.dest = dest] ELSE w
PayeeConfirmed(w, k) == [w EXCEPT !.step = "amount", !.key = k, !.suspected = FALSE]
DuplicateSuspected(w) == IF w.step \in Initiating THEN [w EXCEPT !.suspected = TRUE] ELSE w
TransferInitiated(w, i) == IF w.step \in Initiating THEN ResumePending(i) ELSE w
TransferPosted(w) == IF w.step = "awaitingOtp" THEN [w EXCEPT !.step = "posted"] ELSE w
TransferCancelled(w) == IF w.step = "awaitingOtp" THEN [w EXCEPT !.step = "cancelled"] ELSE w

(***************************************************************************)
(* Calls.  `by` is the page while it is there to hear the answer, the      *)
(* store once the page was left, and nobody once the tab was told of a     *)
(* failure while the request may still arrive.                             *)
(***************************************************************************)
Nothing == [kind |-> None, source |-> None, dest |-> None, amount |-> None, key |-> None,
            confirmDuplicate |-> FALSE]

Call(op, req, id) == [op |-> op, req |-> req, id |-> id, by |-> "page", answer |-> None]

OnTheWire(ops) == \E c \in calls : c.by = "page" /\ c.op \in ops
Awaited(cs) == {c \in cs : c.by # "nobody"}

\* The button is disabled while one of these is on the wire.
Send(c, disabling) ==
  /\ ~OnTheWire(disabling)
  /\ Cardinality(Awaited(calls)) < MaxCalls
  /\ calls' = calls \union {c}
  /\ UNCHANGED <<storeVars, upsets, untold>>

(***************************************************************************)
(* RTK Query.  Every mutation of a transfer invalidates the tag of the     *)
(* feed, whatever its answer.  The tag waits until nothing is on the wire; *)
(* a read of the accounts, which is not modelled, may keep it waiting.     *)
(***************************************************************************)
Unasked == [phase |-> "idle", value |-> None]
Asked == [phase |-> "asked", value |-> None]
Answered(v) == [phase |-> "answered", value |-> v]

Refresh ==
  /\ stale /\ Awaited(calls) = {} /\ reading = Unasked
  /\ stale' = FALSE
  /\ reading' = Asked
  /\ UNCHANGED <<storeVars, page, wizard, resumed, minted, calls, feed, upsets, untold>>

\* Mutant of AfterAnswer: a cancellation that failed is shown as done.
AfterAnyCancel(w, c, answer) ==
  CASE c.op = "initiate" /\ answer.ok -> TransferInitiated(w, answer.id)
    [] c.op = "confirm" /\ answer.ok  -> TransferPosted(w)
    [] c.op = "cancel"                -> TransferCancelled(w)
    [] OTHER -> w

\* What the handlers of the pages dispatch once a call of theirs has returned.
AfterAnswer(w, c, answer) ==
  CASE c.op = "initiate" /\ answer.ok -> TransferInitiated(w, answer.id)
    [] c.op = "initiate" /\ ~answer.ok /\ answer.code = "SUSPECTED_DUPLICATE" ->
         DuplicateSuspected(w)
    [] c.op = "confirm" /\ answer.ok  -> TransferPosted(w)
    [] c.op = "cancel" /\ answer.ok   -> TransferCancelled(w)
    [] OTHER -> w

\* Mutant of Hear: only an answer that is no error invalidates the tag.
HearSuccess(c, answer, rest) ==
  /\ wizard' = IF c.by = "page" THEN AfterAnswer(wizard, c, answer) ELSE wizard
  /\ calls' = rest
  /\ stale' = (stale \/ answer.ok)
  /\ UNCHANGED <<page, resumed, minted, feed, reading>>

\* The answer of a mutation, or its failure, reaches the tab.  A page that is
\* still there takes its step.
Hear(c, answer, rest) ==
  /\ wizard' = IF c.by = "page" THEN AfterAnswer(wizard, c, answer) ELSE wizard
  /\ calls' = rest
  /\ stale' = TRUE
  /\ UNCHANGED <<page, resumed, minted, feed, reading>>

(***************************************************************************)
(* The user.                                                               *)
(***************************************************************************)
\* The answer to a look-up is of use to the page only as long as it waits for
\* it, and the look-up changes nothing else: it is one step.
Resolve(d) ==
  /\ page = "TransferPage" /\ wizard.step = "resolve"
  /\ wizard' = DestinationResolved(wizard, d)
  /\ ResolveDestination(d)
  /\ UNCHANGED <<page, resumed, minted, calls, feed, reading, stale, upsets, untold>>

ConfirmPayee ==
  /\ wizard.step = "confirmPayee"
  /\ minted < MaxKeys
  /\ minted' = minted + 1
  /\ wizard' = PayeeConfirmed(wizard, minted')
  /\ UNCHANGED <<storeVars, page, resumed, calls, feed, reading, stale, upsets, untold>>

\* "No, use a different account", "Start over", "Send another", "Start a new
\* transfer".
StartOver ==
  /\ page = "TransferPage"
  /\ wizard.step \in {"confirmPayee", "amount", "posted", "cancelled"}
  /\ wizard' = Blank
  /\ UNCHANGED <<storeVars, page, resumed, minted, calls, feed, reading, stale, upsets, untold>>

\* The page for external transfers has none until its transfer has ended, and then
\* makes a new key.
StartNew ==
  /\ page = "ExternalTransferPage"
  /\ wizard.step \in {"posted", "cancelled"}
  /\ minted < MaxKeys
  /\ minted' = minted + 1
  /\ wizard' = Compose(minted')
  /\ UNCHANGED <<storeVars, page, resumed, calls, feed, reading, stale, upsets, untold>>

\* A form takes its source and its amount anew at each attempt, and says "Send
\* anyway" after a warning.  It is not submitted before the amount is accepted.
Attempt(kind, source, dest, typed) ==
  /\ Accepted(typed)
  /\ Send(Call("initiate",
               [kind |-> kind, source |-> source, dest |-> dest, amount |-> ToMinor(typed),
                key |-> wizard.key, confirmDuplicate |-> wizard.suspected], None),
          {"initiate"})
  /\ UNCHANGED <<page, wizard, resumed, minted, feed, reading, stale>>

SubmitAmount(source, typed) ==
  /\ wizard.step = "amount"
  /\ Attempt("internal", source, wizard.dest, typed)

\* Only payees that are usable are offered.
SubmitExternal(source, payee, typed) ==
  /\ wizard.step = "compose"
  /\ payee \in ListUsablePayees
  /\ Attempt("external_outbound", source, payee, typed)

Confirm ==
  /\ wizard.step = "awaitingOtp"
  /\ Send(Call("confirm", Nothing, wizard.view), {"confirm", "cancel"})
  /\ UNCHANGED <<page, wizard, resumed, minted, feed, reading, stale>>

Cancel ==
  /\ wizard.step = "awaitingOtp"
  /\ Send(Call("cancel", Nothing, wizard.view), {"confirm", "cancel"})
  /\ UNCHANGED <<page, wizard, resumed, minted, feed, reading, stale>>

\* On the page of the payees.
Enroll(p) ==
  /\ \E answer \in Answers : RegisterPayee(p, answer)
  /\ UNCHANGED <<tabVars, upsets, untold>>

\* A page is opened, or opened anew: its state is made afresh, what the last
\* one has on the wire is answered to nobody but the store, and what has been
\* read is used as it is.
Open(p) ==
  LET external == p = "ExternalTransferPage"
      fresh == IF external THEN Compose(minted') ELSE Blank
  IN /\ external => minted < MaxKeys
     /\ minted' = IF external THEN minted + 1 ELSE minted
     /\ page' = p
     /\ wizard' = IF feed \in {None, {}} THEN fresh ELSE ResumePending(CHOOSE i \in feed : TRUE)
     /\ resumed' = (feed # None)
     /\ calls' = {IF c.by = "page" THEN [c EXCEPT !.by = "store"] ELSE c : c \in calls}
     /\ reading' = IF feed = None /\ reading = Unasked THEN Asked ELSE reading
     /\ UNCHANGED <<storeVars, feed, stale, upsets, untold>>

(***************************************************************************)
(* The wire and the server.                                                *)
(***************************************************************************)
Handle(c, answer) ==
  CASE c.op = "initiate" -> Initiate(c.req, answer)
    [] c.op = "confirm"  -> \E codeIsRight \in BOOLEAN : ConfirmTransfer(c.id, codeIsRight, answer)
    [] c.op = "cancel"   -> CancelTransfer(c.id, answer)

FeedChanges == PendingAuthorization' # PendingAuthorization

Serve(c) ==
  /\ c.answer = None
  /\ \E answer \in Answers :
       /\ Handle(c, answer)
       /\ calls' = IF c.by = "nobody" THEN calls \ {c}
                   ELSE (calls \ {c}) \union {[c EXCEPT !.answer = answer]}
  /\ UNCHANGED <<page, wizard, resumed, minted, feed, reading, stale, upsets>>
  /\ untold' = (untold \/ (FeedChanges /\ c.by = "nobody"))

Deliver(c) ==
  /\ c.answer # None
  /\ Hear(c, c.answer, calls \ {c})
  /\ UNCHANGED <<storeVars, upsets, untold>>

\* The network fails a call.  The request may be lost, or its answer, or it
\* may still arrive.
Lose(c) ==
  /\ upsets < MaxUpsets /\ c.by # "nobody"
  /\ upsets' = upsets + 1
  /\ \E onItsWay \in BOOLEAN :
       /\ onItsWay => c.answer = None
       /\ Hear(c, Refuses("FETCH_ERROR"),
               (calls \ {c}) \union (IF onItsWay THEN {[c EXCEPT !.by = "nobody"]} ELSE {}))
  /\ UNCHANGED <<storeVars, untold>>

\* Asking for the feed expires an overdue transfer.
ServeRead ==
  /\ reading = Asked
  /\ GetPendingAuthorization
  /\ reading' = Answered(PendingAuthorization)
  /\ untold' = FALSE
  /\ UNCHANGED <<others, page, wizard, resumed, minted, calls, feed, stale, upsets>>

\* Mutant of DeliverRead: the page goes on with what is pending at every read.
DeliverResuming ==
  /\ reading.phase = "answered"
  /\ wizard' = IF reading.value = {} THEN wizard
               ELSE ResumePending(CHOOSE i \in reading.value : TRUE)
  /\ feed' = reading.value
  /\ resumed' = TRUE
  /\ reading' = Unasked
  /\ UNCHANGED <<storeVars, page, minted, calls, stale, upsets, untold>>

\* Once, as soon as it knows the feed, a page that is still at its first step
\* goes on with what is pending.
DeliverRead ==
  /\ reading.phase = "answered"
  /\ wizard' = IF reading.value # {} /\ ~resumed /\ wizard.step \in Entry
               THEN ResumePending(CHOOSE i \in reading.value : TRUE) ELSE wizard
  /\ feed' = reading.value
  /\ resumed' = TRUE
  /\ reading' = Unasked
  /\ UNCHANGED <<storeVars, page, minted, calls, stale, upsets, untold>>

LoseRead ==
  /\ upsets < MaxUpsets /\ reading # Unasked
  /\ upsets' = upsets + 1
  /\ reading' = Unasked
  /\ untold' = TRUE
  /\ UNCHANGED <<storeVars, page, wizard, resumed, minted, calls, feed, stale>>

\* Some time passes.
Tick ==
  /\ clock < MaxClock
  /\ clock' = clock + 1
  /\ UNCHANGED <<rows, byKey, tokens, usableFrom, tabVars, upsets>>
  /\ untold' = (untold \/ FeedChanges)

\* The customer at work in another tab, or on another device.
Elsewhere ==
  /\ upsets < MaxUpsets
  /\ upsets' = upsets + 1
  /\ \E answer \in Answers :
       \/ \E i \in Prior : ConfirmTransfer(i, TRUE, answer) \/ CancelTransfer(i, answer)
       \/ \E a \in Accounts, x \in Amounts, d \in Destinations \union Payees :
            Initiate([kind |-> IF d \in Payees THEN "external_outbound" ELSE "internal",
                      source |-> a, dest |-> d, amount |-> x, key |-> None,
                      confirmDuplicate |-> TRUE], answer)
  /\ UNCHANGED tabVars
  /\ untold' = (untold \/ FeedChanges)

(***************************************************************************)
(* The specification.                                                      *)
(***************************************************************************)
Init ==
  /\ StoreInit
  /\ page = "TransferPage"
  /\ wizard = Blank
  /\ resumed = FALSE
  /\ minted = 0
  /\ calls = {}
  /\ feed = None
  /\ reading = Asked
  /\ stale = FALSE
  /\ upsets = 0
  /\ untold = FALSE

User ==
  \/ \E d \in Destinations : Resolve(d)
  \/ ConfirmPayee \/ StartOver \/ StartNew
  \/ \E a \in Accounts, x \in Inputs :
       SubmitAmount(a, x) \/ \E p \in Payees : SubmitExternal(a, p, x)
  \/ Confirm \/ Cancel
  \/ \E p \in Payees : Enroll(p)
  \/ \E p \in Pages : Open(p)

Network ==
  \/ \E c \in calls : Serve(c) \/ Deliver(c) \/ Lose(c)
  \/ ServeRead \/ DeliverRead \/ LoseRead \/ Refresh

Next == User \/ Network \/ Tick \/ Elsewhere

Spec == Init /\ [][Next]_vars

-----------------------------------------------------------------------------
TypeOK ==
  /\ StoreTypeOK
  /\ page \in Pages
  /\ wizard \in [step : Steps, dest : Destinations \union {None}, key : Keys \union {None},
                 suspected : BOOLEAN, view : Ids \union {None}]
  /\ {resumed, untold, stale} \subseteq BOOLEAN
  /\ minted \in 0..MaxKeys /\ upsets \in 0..MaxUpsets
  /\ \A c \in calls : c.by \in {"page", "store", "nobody"} /\ c.answer \in Answers \union {None}
  /\ feed \in {None} \union SUBSET Ids
  /\ reading.phase \in {"idle", "asked", "answered"}

\* The feed and the transfers agree on which one is pending, and there is one at
\* most: whichever way the last one ended, superseded by the other kind of transfer
\* or found overdue by a read of something else included.
OnePending == {i \in Ids : Pending(i)} = {i \in Ids : i = activePending}

\* One pass through a page makes one transfer: an attempt that failed, or that the
\* network reported as failed and that arrives later, and its repetition are the
\* same transfer, because they go under the one key of the pass.
OneTransferPerFlow ==
  \A i, j \in Stored : i # j /\ terms[i].key = terms[j].key => terms[i].key = None

PlacedOn(a) == {i \in Stored : hold[i] = "PLACED" /\ terms[i].source = a}

\* What is held on an account is the sum of its placed holds, and is there, after any
\* sequence of supersedings, expiries, confirmations and cancellations of either kind.
HoldsAddUp ==
  \A a \in Accounts :
    /\ held[a] = Total([i \in PlacedOn(a) |-> terms[i].amount])
    /\ held[a] <= balance[a]

\* A page says "sent" or "cancelled" of the transfer it shows only if that is how
\* this transfer ended, though other tabs, late answers and lost ones interfere.
ScreenTellsOutcome ==
  /\ wizard.step = "posted" => status[wizard.view] = "POSTED"
  /\ wizard.step = "cancelled" => status[wizard.view] \in {"CANCELLED", "EXPIRED"}

\* Once the tab has nothing on the wire and nothing to repeat, what it knows of the
\* pending transfer is what the server has, unless the change came from elsewhere:
\* also after an answer that was lost or refused.
FeedIsCurrent ==
  Awaited(calls) = {} /\ reading = Unasked /\ ~stale /\ feed # None /\ ~untold
  => feed = PendingAuthorization

\* "A post-confirm refetch can't bounce them back into a stale confirm step": no
\* answer and no read takes the page of an outcome away, only the customer does.
ResultStays ==
  [][wizard.step \in {"posted", "cancelled"} /\ Network => wizard' = wizard]_vars
===============================================================================
