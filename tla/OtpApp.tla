-------------------------------- MODULE OtpApp --------------------------------
(***************************************************************************)
(* The web application that hands the customer her one-time code, in one   *)
(* or more tabs over OtpService: the feed of what is to be authorized with *)
(* its countdown, and the panel that mints a code and shows it until its   *)
(* time is up.  A tab and the request it makes are one process.            *)
(***************************************************************************)
EXTENDS Otp

CONSTANT Deadline   \* ticks a pending transfer may be confirmed

ASSUME DeadlineAssumption == Deadline \in Nat \ {0}

VARIABLES
  pending,   \* the ticks the pending transfer has left, None if there is none
  feed,      \* feed[t]: what tab t last read of it, counted down to 0
  shown,     \* shown[t]: the code tab t reveals and the ticks it will do so
  lag        \* lag[t]: ticks since the request of tab t began to place its code

vars == <<otpVars, pending, feed, shown, lag>>

Hidden == [code |-> None, left |-> 0]

TypeOK ==
  /\ OtpTypeOK
  /\ pending \in 1..Deadline \union {None}
  /\ feed \in [Minters -> 0..Deadline \union {None}]
  /\ shown \in [Minters -> [code : Codes \union {None}, left : 0..Ttl]]
  /\ lag \in [Minters -> 0..Ttl]

Init ==
  /\ OtpInit
  /\ pending = None
  /\ feed = [t \in Minters |-> None]
  /\ shown = [t \in Minters |-> Hidden]
  /\ lag = [t \in Minters |-> 0]

\* The customer starts a transfer with the other application, or it ends.
StartTransfer ==
  /\ pending = None /\ pending' = Deadline
  /\ UNCHANGED <<otpVars, feed, shown, lag>>
EndTransfer ==
  /\ pending # None /\ pending' = None
  /\ UNCHANGED <<otpVars, feed, shown, lag>>

\* The feed is read when the page opens, and again only when the customer asks.
Refresh(t) ==
  /\ feed' = [feed EXCEPT ![t] = pending]
  /\ UNCHANGED <<otpVars, pending, shown, lag>>

\* The button is there while something may be authorized and no code is shown,
\* and is disabled while a request is on its way.
MayReveal(t) == feed[t] \notin {None, 0} /\ shown[t] = Hidden /\ req[t] = Idle

\* A refusal shows a message and changes nothing.
Reveal(t, c) ==
  /\ MayReveal(t)
  /\ ClaimRecord(t, c)
  /\ lag' = [lag EXCEPT ![t] = 0]
  /\ UNCHANGED <<pending, feed, shown>>

Place(t) == PlaceMarker(t) /\ UNCHANGED <<pending, feed, shown, lag>>

\* The time a code is shown is counted from the arrival of the answer.
ShowCode(t) ==
  /\ req[t].pc = "minted"
  /\ shown' = [shown EXCEPT ![t] = [code |-> req[t].code, left |-> Ttl]]
  /\ Goto(t, Idle)
  /\ UNCHANGED <<record, marker, minted, ghosts, pending, feed, lag>>

\* The request dies at the server, or its answer on the way: an error is shown.
MintFails(t) == Die(t) /\ UNCHANGED <<pending, feed, shown, lag>>

\* A confirm with a code that was minted, or with a wrong one: any other.
Confirm(p, c) == TakeMarker(p, c) /\ UNCHANGED <<pending, feed, shown, lag>>
ConfirmStep(p) == (ConsumeStep(p) \/ Die(p)) /\ UNCHANGED <<pending, feed, shown, lag>>

\* Mutant of Countdown: the timer is not set.
NoCountdown(n) == n

Countdown(n) == IF n \in Nat \ {0} THEN n - 1 ELSE n

\* Keys expire, countdowns go on, and a code whose time is up is dropped.
Tick ==
  /\ KeysExpire
  /\ pending' = IF pending \in {None, 1} THEN None ELSE pending - 1
  /\ feed' = [t \in Minters |-> IF feed[t] = None THEN None ELSE Countdown(feed[t])]
  /\ shown' = [t \in Minters |-> IF shown[t].left <= 1 THEN Hidden
                                 ELSE [shown[t] EXCEPT !.left = Countdown(@)]]
  /\ lag' = [t \in Minters |-> IF req[t].pc = "minted" /\ lag[t] < Ttl THEN lag[t] + 1 ELSE lag[t]]

Next ==
  \/ StartTransfer \/ EndTransfer \/ Tick
  \/ \E t \in Minters :
       \/ Refresh(t) \/ Place(t) \/ ShowCode(t) \/ MintFails(t)
       \/ \E c \in Codes : Reveal(t, c)
  \/ \E p \in Confirmers :
       \/ \E c \in Codes : Confirm(p, c)
       \/ ConfirmStep(p)

Spec == Init /\ [][Next]_vars /\ WF_vars(Tick)
-----------------------------------------------------------------------------
\* A code authorizes one confirm, however many race for it and wherever one of
\* them dies: the GETDEL decides, not the record.
SingleUse == \A c \in Codes : hits[c] <= 1

\* The count of wrong codes is read, and written back later: confirms that overlap
\* overwrite each other's counts.  A code stands more wrong codes than its allowance
\* only if one of them was counted from a count that another had changed meanwhile.
ThrottleHolds == \A c \in Codes \ overlapped : tries[c] <= MaxAttempts

\* There is one live code, the one the record names, and it is counted against and
\* locked out.  Only a request that was overtaken may spoil this: the two keys
\* placed at different ticks, or a record written or deleted by a request that had
\* read the one before it.
LiveCodeIsRecorded == ~overtaken => \A c \in Codes : marker[c] > 0 => RecordOf(c)

\* The application does not show a code the service would refuse, unless it was used
\* or burnt in the meantime; it may, for as long as the answer took to arrive.
ShownIsLive ==
  \A t \in Minters : \A c \in Codes :
    shown[t].code = c /\ hits[c] = 0 /\ c \notin burnt => shown[t].left <= marker[c] + lag[t]

\* The slot of a user becomes free again, whatever dies half way: no interleaving of
\* counting and deleting leaves a record without an expiry, which would refuse her
\* a code for ever.
GateClears == record # None ~> record = None
===============================================================================
