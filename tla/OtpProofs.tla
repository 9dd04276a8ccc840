------------------------------ MODULE OtpProofs ------------------------------
(***************************************************************************)
(* Proofs about Otp and OtpApp, for any number of codes, tabs, confirms    *)
(* and attempts and every time to live.                                    *)
(***************************************************************************)
EXTENDS OtpApp, TLAPS

\* A request under way is about a code.
CodeOK == \A p \in Requests : req[p].pc # "idle" => req[p].code \in Codes

\* The record never reaches the count at which its code is burnt, and has an expiry.
RecordOK ==
  /\ record # None => record.attempts < MaxAttempts /\ record.left <= Ttl
  /\ \A p \in Requests : req[p].pc = "bump" => req[p].used < MaxAttempts

\* A code is dead before its marker is placed, by the one request that drew it, and
\* after it was found right.
Claims(p, c) == req[p].pc = "claimed" /\ req[p].code = c

OnceOK ==
  /\ \A c \in Codes : marker[c] > 0 => hits[c] = 0
  /\ \A c \in Codes \ minted : marker[c] = 0 /\ hits[c] = 0
  /\ \A p \in Requests, c \in Codes : Claims(p, c) => c \in minted /\ marker[c] = 0 /\ hits[c] = 0
  /\ \A p, q \in Requests, c \in Codes : Claims(p, c) /\ Claims(q, c) => p = q
  /\ \A p \in Requests : req[p].pc = "hit" => hits[req[p].code] > 0

\* A live code and its record expire together.
InStep ==
  ~overtaken => \A c \in Codes : marker[c] > 0 => RecordOf(c) /\ record.left = marker[c]

\* While no count against a code was stale, its record holds the number of them; a
\* request that counts does so against a code that was minted.
TallyOK ==
  /\ \A c \in Codes \ overlapped : RecordOf(c) => tries[c] = record.attempts
  /\ \A c \in Codes \ minted : tries[c] = 0
  /\ record # None => record.code \in minted
  /\ \A p \in Requests : req[p].pc \in {"bump", "burn"} => req[p].code \in minted

OtpInv ==
  /\ OtpTypeOK /\ CodeOK /\ RecordOK /\ OnceOK /\ SingleUse /\ InStep
  /\ TallyOK /\ ThrottleHolds

\* A code whose answer is on its way to a tab, or which a tab shows, is dead only
\* for a reason the property names.
Excused(c) == hits[c] > 0 \/ c \in burnt

AwaitedOK ==
  \A t \in Minters :
    req[t].pc = "minted" /\ ~Excused(req[t].code) => Ttl <= marker[req[t].code] + lag[t]

AppTypeOK ==
  /\ pending \in 1..Deadline \union {None}
  /\ feed \in [Minters -> 0..Deadline \union {None}]
  /\ shown \in [Minters -> [code : Codes \union {None}, left : 0..Ttl]]
  /\ lag \in [Minters -> 0..Ttl]

Inv == OtpInv /\ AppTypeOK /\ AwaitedOK /\ ShownIsLive

appVars == <<pending, feed, shown, lag>>

-----------------------------------------------------------------------------
(* The steps of the service.                                               *)

LEMMA InitOtpInv == OtpInit => OtpInv
<1> SUFFICES ASSUME OtpInit PROVE OtpInv
  OBVIOUS
<1> USE DEF OtpInit, Idle
<1>1. OtpTypeOK
  <2>1. req \in [Requests -> [pc : Stages, code : Codes \union {None}, used : 0..MaxAttempts]]
    BY OtpAssumptions DEF Stages
  <2>2. marker \in [Codes -> 0..Ttl]
    BY OtpAssumptions
  <2> QED BY <2>1, <2>2 DEF OtpTypeOK
<1>2. CodeOK /\ RecordOK /\ SingleUse /\ InStep
  BY DEF CodeOK, RecordOK, SingleUse, InStep
<1>3. OnceOK
  BY DEF OnceOK, Claims
<1>4. TallyOK /\ ThrottleHolds
  BY OtpAssumptions DEF TallyOK, ThrottleHolds, RecordOf
<1> QED BY <1>1, <1>2, <1>3, <1>4 DEF OtpInv

LEMMA ClaimRecordStep ==
  ASSUME OtpInv, NEW p \in Requests, NEW c \in Codes, ClaimRecord(p, c)
  PROVE  OtpInv'
<1> USE DEF ClaimRecord, OtpInv, Goto, At, Idle, ghosts
<1>1. OtpTypeOK'
  BY OtpAssumptions DEF OtpTypeOK, Stages, Records, Forever
<1>2. CodeOK' /\ RecordOK' /\ SingleUse'
  BY OtpAssumptions DEF OtpTypeOK, CodeOK, RecordOK, SingleUse
<1>3. OnceOK'
  BY DEF OtpTypeOK, OnceOK, Claims, CodeOK
<1>4. InStep'
  BY DEF OtpTypeOK, InStep, RecordOf
<1>5. TallyOK' /\ ThrottleHolds'
  BY OtpAssumptions DEF OtpTypeOK, TallyOK, ThrottleHolds, RecordOf
<1> QED BY <1>1, <1>2, <1>3, <1>4, <1>5

LEMMA PlaceMarkerStep ==
  ASSUME OtpInv, NEW p \in Requests, PlaceMarker(p)
  PROVE  OtpInv'
<1> USE DEF PlaceMarker, OtpInv, Goto
<1>0. req[p].code \in Codes
  BY DEF CodeOK
<1>1. OtpTypeOK'
  BY <1>0, OtpAssumptions DEF OtpTypeOK, Stages
<1>2. CodeOK' /\ RecordOK' /\ SingleUse'
  BY <1>0 DEF OtpTypeOK, CodeOK, RecordOK, SingleUse
<1>3. OnceOK'
  BY <1>0, OtpAssumptions DEF OtpTypeOK, OnceOK, Claims
<1>4. InStep'
  <2> SUFFICES ASSUME ~overtaken', NEW c \in Codes, marker'[c] > 0
               PROVE  RecordOf(c) /\ record.left = marker'[c]
    BY DEF InStep, RecordOf
  <2>0. ~overtaken /\ RecordOf(req[p].code) /\ ~(record.left < Ttl)
    BY DEF OtpTypeOK
  <2>a. record.left \in Nat /\ record.left <= Ttl
    BY <2>0, OtpAssumptions DEF OtpTypeOK, RecordOf, RecordOK, Records, Forever
  <2>1. RecordOf(req[p].code) /\ record.left = Ttl /\ ~overtaken
    BY <2>0, <2>a, OtpAssumptions
  <2>2. CASE c = req[p].code
    BY <1>0, <2>1, <2>2 DEF OtpTypeOK
  <2>3. CASE c # req[p].code
    BY <1>0, <2>1, <2>3 DEF OtpTypeOK, InStep
  <2> QED BY <2>2, <2>3
<1>5. TallyOK' /\ ThrottleHolds'
  BY DEF OtpTypeOK, TallyOK, ThrottleHolds, RecordOf
<1> QED BY <1>1, <1>2, <1>3, <1>4, <1>5

LEMMA TakeMarkerStep ==
  ASSUME OtpInv, NEW p \in Requests, NEW c \in Codes, TakeMarker(p, c)
  PROVE  OtpInv'
<1> USE DEF TakeMarker, OtpInv, Goto, At, Idle
<1>1. OtpTypeOK'
  BY OtpAssumptions DEF OtpTypeOK, Stages
<1>2. CodeOK' /\ RecordOK'
  BY DEF OtpTypeOK, CodeOK, RecordOK
<1>3. OnceOK' /\ SingleUse'
  BY DEF OtpTypeOK, OnceOK, Claims, SingleUse, CodeOK
<1>4. InStep'
  BY DEF OtpTypeOK, InStep, RecordOf
<1>5. TallyOK' /\ ThrottleHolds'
  BY DEF OtpTypeOK, TallyOK, ThrottleHolds, RecordOf
<1> QED BY <1>1, <1>2, <1>3, <1>4, <1>5

LEMMA FreeRecordStep ==
  ASSUME OtpInv, NEW p \in Requests, FreeRecord(p)
  PROVE  OtpInv'
<1> USE DEF FreeRecord, OtpInv, Goto, Idle, Meaning
<1>1. OtpTypeOK'
  BY OtpAssumptions DEF OtpTypeOK, Stages
<1>2. CodeOK' /\ RecordOK' /\ SingleUse'
  BY DEF OtpTypeOK, CodeOK, RecordOK, SingleUse
<1>3. OnceOK'
  BY DEF OtpTypeOK, OnceOK, Claims
<1>4. InStep'
  <2> SUFFICES ASSUME ~overtaken', NEW c \in Codes, marker[c] > 0
               PROVE  FALSE
    BY DEF InStep
  <2>1. RecordOf(c) /\ ~overtaken
    BY DEF InStep
  <2>2. c = req[p].code
    BY <2>1 DEF RecordOf
  <2> QED BY <2>2 DEF OnceOK, OtpTypeOK
<1>5. TallyOK' /\ ThrottleHolds'
  BY DEF OtpTypeOK, TallyOK, ThrottleHolds, RecordOf
<1> QED BY <1>1, <1>2, <1>3, <1>4, <1>5

LEMMA ReadRecordStep ==
  ASSUME OtpInv, NEW p \in Requests, ReadRecord(p)
  PROVE  OtpInv'
<1> USE DEF ReadRecord, OtpInv, Goto, At, Idle, ghosts
<1>1. OtpTypeOK'
  BY OtpAssumptions DEF OtpTypeOK, Stages, RecordOK, Records
<1>2. CodeOK' /\ RecordOK' /\ SingleUse'
  BY OtpAssumptions DEF OtpTypeOK, CodeOK, RecordOK, SingleUse, Records
<1>3. OnceOK'
  BY DEF OtpTypeOK, OnceOK, Claims
<1>4. InStep'
  BY DEF InStep, RecordOf
<1>5. TallyOK' /\ ThrottleHolds'
  BY DEF OtpTypeOK, TallyOK, ThrottleHolds, RecordOf
<1> QED BY <1>1, <1>2, <1>3, <1>4, <1>5

LEMMA BurnStep ==
  ASSUME OtpInv, NEW p \in Requests, Burn(p)
  PROVE  OtpInv'
<1> USE DEF Burn, OtpInv, Goto, Idle, Meaning, Counted
<1>0. req[p].code \in Codes
  BY DEF CodeOK
<1>1. OtpTypeOK'
  BY <1>0, OtpAssumptions DEF OtpTypeOK, Stages
<1>2. CodeOK' /\ RecordOK' /\ SingleUse'
  BY DEF OtpTypeOK, CodeOK, RecordOK, SingleUse
<1>3. OnceOK'
  BY <1>0 DEF OtpTypeOK, OnceOK, Claims
<1>4. InStep'
  <2> SUFFICES ASSUME ~overtaken', NEW c \in Codes, marker'[c] > 0
               PROVE  FALSE
    BY DEF InStep
  <2>1. c # req[p].code /\ marker[c] > 0
    BY <1>0 DEF OtpTypeOK
  <2>2. RecordOf(c) /\ ~overtaken
    BY <2>1 DEF InStep
  <2> QED BY <2>1, <2>2 DEF RecordOf
<1>5. TallyOK' /\ ThrottleHolds'
  <2>1. ASSUME NEW c \in Codes \ overlapped'
        PROVE  IF c = req[p].code THEN Current(p) /\ tries'[c] = tries[c] + 1 /\ c \notin overlapped
               ELSE tries'[c] = tries[c] /\ c \notin overlapped
    BY <1>0, <2>1 DEF OtpTypeOK
  <2>2. req[p].code \in minted /\ tries' \in [Codes -> Nat]
    BY <1>1 DEF TallyOK, OtpTypeOK
  <2>3. ThrottleHolds'
    BY <2>1, OtpAssumptions DEF OtpTypeOK, TallyOK, ThrottleHolds, Current, RecordOf
  <2> QED BY <1>0, <2>1, <2>2, <2>3 DEF OtpTypeOK, TallyOK, Current, RecordOf
<1> QED BY <1>1, <1>2, <1>3, <1>4, <1>5

LEMMA BumpStep ==
  ASSUME OtpInv, NEW p \in Requests, Bump(p)
  PROVE  OtpInv'
<1> USE DEF Bump, OtpInv, Goto, Idle, Meaning, Counted
<1>0. req[p].code \in Codes /\ req[p].used \in 0..MaxAttempts
  BY DEF CodeOK, OtpTypeOK
<1>1. OtpTypeOK'
  BY <1>0, OtpAssumptions DEF OtpTypeOK, Stages, Records
<1>2. CodeOK' /\ RecordOK' /\ SingleUse'
  BY <1>0 DEF OtpTypeOK, CodeOK, RecordOK, SingleUse
<1>3. OnceOK'
  BY DEF OtpTypeOK, OnceOK, Claims
<1>4. InStep'
  <2> SUFFICES ASSUME ~overtaken', NEW c \in Codes, marker[c] > 0
               PROVE  RecordOf(c)' /\ record'.left = marker[c]
    BY DEF InStep
  <2>1. RecordOf(c) /\ record.left = marker[c] /\ ~overtaken
    BY DEF InStep
  <2>2. c = req[p].code
    BY <2>1 DEF RecordOf
  <2>3. record' = [code |-> c, attempts |-> req[p].used, left |-> record.left]
    BY <2>1, <2>2 DEF RecordOf
  <2>4. record' # None
    BY <1>0, <2>1, <2>3, OtpAssumptions DEF OtpTypeOK, RecordOf, Records
  <2> QED BY <2>1, <2>3, <2>4 DEF RecordOf
<1>5. TallyOK' /\ ThrottleHolds'
  <2>1. ASSUME NEW c \in Codes \ overlapped'
        PROVE  IF c = req[p].code THEN Current(p) /\ tries'[c] = tries[c] + 1 /\ c \notin overlapped
               ELSE tries'[c] = tries[c] /\ c \notin overlapped
    BY <1>0, <2>1 DEF OtpTypeOK
  <2>2. req[p].code \in minted /\ tries' \in [Codes -> Nat]
    BY <1>1 DEF TallyOK, OtpTypeOK
  <2>3. ThrottleHolds'
    BY <2>1, OtpAssumptions DEF OtpTypeOK, TallyOK, ThrottleHolds, Current, RecordOf
  <2> QED BY <1>0, <2>1, <2>2, <2>3 DEF OtpTypeOK, TallyOK, Current, RecordOf
<1> QED BY <1>1, <1>2, <1>3, <1>4, <1>5

LEMMA DieStep ==
  ASSUME OtpInv, NEW p \in Requests, Die(p)
  PROVE  OtpInv'
<1> USE DEF Die, OtpInv, Goto, Idle, ghosts
<1>1. OtpTypeOK'
  BY OtpAssumptions DEF OtpTypeOK, Stages
<1>2. CodeOK' /\ RecordOK' /\ SingleUse' /\ InStep'
  BY DEF OtpTypeOK, CodeOK, RecordOK, SingleUse, InStep, RecordOf
<1>3. OnceOK'
  BY DEF OtpTypeOK, OnceOK, Claims
<1>4. TallyOK' /\ ThrottleHolds'
  BY DEF OtpTypeOK, TallyOK, ThrottleHolds, RecordOf
<1> QED BY <1>1, <1>2, <1>3, <1>4

LEMMA KeysExpireStep ==
  ASSUME OtpInv, KeysExpire
  PROVE  OtpInv'
<1> USE DEF KeysExpire, OtpInv, ghosts
<1>0. \A c \in Codes :
        /\ marker[c] \in 0..Ttl
        /\ marker'[c] = IF marker[c] = 0 THEN 0 ELSE marker[c] - 1
  BY OtpAssumptions DEF OtpTypeOK, Expire
<1>a. record # None =>
        /\ record \in Records /\ record.left \in 1..Ttl
        /\ record' = IF record.left = 1 THEN None ELSE [record EXCEPT !.left = record.left - 1]
  BY OtpAssumptions DEF OtpTypeOK, Expire, Records, Forever, RecordOK
<1>1. OtpTypeOK'
  <2>1. record' \in Records \union {None}
    BY <1>a, OtpAssumptions DEF Records, Forever
  <2>2. marker' \in [Codes -> 0..Ttl]
    BY <1>0, OtpAssumptions DEF OtpTypeOK
  <2> QED BY <2>1, <2>2 DEF OtpTypeOK
<1>2. CodeOK' /\ SingleUse'
  BY DEF CodeOK, SingleUse
<1>3. RecordOK'
  BY <1>a, OtpAssumptions DEF RecordOK, Records
<1>4. OnceOK'
  BY <1>0, OtpAssumptions DEF OnceOK, Claims
<1>5. InStep'
  <2> SUFFICES ASSUME ~overtaken, NEW c \in Codes, marker'[c] > 0
               PROVE  RecordOf(c)' /\ record'.left = marker'[c]
    BY DEF InStep
  <2>1. RecordOf(c) /\ record.left = marker[c] /\ marker[c] > 1
    BY <1>0, OtpAssumptions DEF InStep
  <2>2. record' = [record EXCEPT !.left = record.left - 1]
    BY <1>a, <2>1 DEF RecordOf
  <2>3. record' # None
    BY <1>a, <2>1, <2>2, OtpAssumptions DEF RecordOf, Records, Forever
  <2> QED BY <1>0, <1>a, <2>1, <2>2, <2>3 DEF RecordOf, Records
<1>6. TallyOK' /\ ThrottleHolds'
  BY <1>a DEF OtpTypeOK, TallyOK, ThrottleHolds, RecordOf, Records
<1> QED BY <1>1, <1>2, <1>3, <1>4, <1>5, <1>6
-----------------------------------------------------------------------------
(* The steps of the application.                                           *)

LEMMA InitInv == Init => Inv
<1> SUFFICES ASSUME Init PROVE Inv
  OBVIOUS
<1>1. OtpInv
  BY InitOtpInv DEF Init
<1>2. AppTypeOK
  BY OtpAssumptions DEF Init, AppTypeOK, Hidden
<1>3. AwaitedOK
  BY DEF Init, OtpInit, AwaitedOK, Idle, Requests
<1>4. ShownIsLive
  BY OtpAssumptions DEF Init, ShownIsLive, Hidden
<1> QED BY <1>1, <1>2, <1>3, <1>4 DEF Inv

\* A step of the service by which no live code dies unexcused, and which hands no
\* tab an answer.
Calm ==
  /\ \A c \in Codes : ~Excused(c)' => ~Excused(c) /\ marker[c] <= marker'[c]
  /\ \A t \in Minters : req'[t].pc = "minted" => req'[t] = req[t]

LEMMA CalmStep ==
  ASSUME Inv, OtpInv', Calm, UNCHANGED appVars
  PROVE  Inv'
<1> USE DEF Inv, OtpInv, appVars, OtpTypeOK
<1>1. AppTypeOK'
  BY DEF AppTypeOK
<1>2. AwaitedOK'
  <2> SUFFICES ASSUME NEW t \in Minters, req'[t].pc = "minted", ~(Excused(req[t].code)')
               PROVE  (Ttl <= marker[req[t].code] + lag[t])'
    BY DEF AwaitedOK
  <2>1. req'[t] = req[t] /\ req[t].code \in Codes
    BY DEF Calm, CodeOK, Requests
  <2>2. ~Excused(req[t].code) /\ marker[req[t].code] <= marker'[req[t].code]
    BY <2>1 DEF Calm, Excused
  <2>3. Ttl <= marker[req[t].code] + lag[t]
    BY <2>1, <2>2 DEF AwaitedOK
  <2>4. marker[req[t].code] \in Nat /\ marker'[req[t].code] \in Nat /\ lag[t] \in Nat
    BY <2>1 DEF AppTypeOK
  <2> QED BY <2>1, <2>2, <2>3, <2>4, OtpAssumptions
<1>3. ShownIsLive'
  <2> SUFFICES ASSUME NEW t \in Minters, NEW c \in Codes,
                      shown[t].code = c, hits'[c] = 0, c \notin burnt'
               PROVE  shown[t].left <= marker'[c] + lag[t]
    BY DEF ShownIsLive
  <2>1. ~Excused(c) /\ marker[c] <= marker'[c]
    BY DEF Calm, Excused
  <2>2. shown[t].left <= marker[c] + lag[t]
    BY <2>1 DEF ShownIsLive, Excused
  <2>3. marker[c] \in Nat /\ marker'[c] \in Nat /\ lag[t] \in Nat /\ shown[t].left \in Nat
    BY DEF AppTypeOK
  <2> QED BY <2>1, <2>2, <2>3
<1> QED BY <1>1, <1>2, <1>3

LEMMA FeedStep ==
  ASSUME Inv, UNCHANGED <<otpVars, shown, lag>>, AppTypeOK'
  PROVE  Inv'
BY DEF Inv, otpVars, ghosts, OtpInv, OtpTypeOK, CodeOK, RecordOK, OnceOK, Claims, SingleUse,
       InStep, TallyOK, ThrottleHolds, RecordOf, AwaitedOK, Excused,
       ShownIsLive

LEMMA TransferStep ==
  ASSUME Inv, StartTransfer \/ EndTransfer
  PROVE  Inv'
<1>1. AppTypeOK'
  BY DeadlineAssumption DEF Inv, AppTypeOK, StartTransfer, EndTransfer
<1> QED BY <1>1, FeedStep DEF StartTransfer, EndTransfer

LEMMA RefreshStep ==
  ASSUME Inv, NEW t \in Minters, Refresh(t)
  PROVE  Inv'
<1>1. AppTypeOK'
  BY DEF Inv, AppTypeOK, Refresh
<1> QED BY <1>1, FeedStep DEF Refresh

LEMMA RevealStep ==
  ASSUME Inv, NEW t \in Minters, NEW c \in Codes, Reveal(t, c)
  PROVE  Inv'
<1> USE DEF Reveal, ClaimRecord, Goto, At, ghosts
<1>1. OtpInv'
  BY ClaimRecordStep DEF Inv, Requests
<1>2. AppTypeOK'
  BY OtpAssumptions DEF Inv, AppTypeOK
<1>3. AwaitedOK'
  BY DEF Inv, OtpInv, OtpTypeOK, AppTypeOK, AwaitedOK, Excused, Requests
<1>4. ShownIsLive'
  BY OtpAssumptions DEF Inv, AppTypeOK, ShownIsLive, MayReveal, Hidden
<1> QED BY <1>1, <1>2, <1>3, <1>4 DEF Inv

LEMMA PlaceStep ==
  ASSUME Inv, NEW t \in Minters, Place(t)
  PROVE  Inv'
<1> USE DEF Inv, OtpInv, OtpTypeOK, Place, PlaceMarker, Goto
<1>0. t \in Requests /\ req[t].code \in Codes
  BY DEF CodeOK, Requests
<1>1. OtpInv'
  BY <1>0, PlaceMarkerStep
<1>2. AppTypeOK'
  BY DEF AppTypeOK
<1>3. AwaitedOK'
  <2> SUFFICES ASSUME NEW u \in Minters, req'[u].pc = "minted", ~(Excused(req[u].code)')
               PROVE  (Ttl <= marker[req[u].code] + lag[u])'
    BY DEF AwaitedOK
  <2>0. u \in Requests /\ lag[u] \in Nat
    BY DEF AppTypeOK, Requests
  <2>1. CASE u = t
    BY <1>0, <2>0, <2>1, OtpAssumptions
  <2>2. CASE u # t
    <3>1. req'[u] = req[u] /\ req[u].code \in Codes
      BY <2>0, <2>2 DEF CodeOK
    <3>2. Ttl <= marker[req[u].code] + lag[u]
      BY <3>1 DEF AwaitedOK, Excused
    <3> QED BY <1>0, <2>0, <3>1, <3>2, OtpAssumptions
  <2> QED BY <2>1, <2>2
<1>4. ShownIsLive'
  BY <1>0, OtpAssumptions DEF AppTypeOK, ShownIsLive
<1> QED BY <1>1, <1>2, <1>3, <1>4

LEMMA ShowCodeStep ==
  ASSUME Inv, NEW t \in Minters, ShowCode(t)
  PROVE  Inv'
<1> USE DEF Inv, OtpInv, OtpTypeOK, ShowCode, Goto, Idle, ghosts
<1>0. t \in Requests /\ req[t].code \in Codes
  BY DEF CodeOK, Requests
<1>1. OtpInv'
  <2>1. OtpTypeOK'
    <3>1. [pc |-> "idle", code |-> None, used |-> 0]
            \in [pc : Stages, code : Codes \union {None}, used : 0..MaxAttempts]
      BY OtpAssumptions DEF Stages
    <3> QED BY <3>1
  <2>2. CodeOK' /\ RecordOK' /\ SingleUse' /\ InStep'
    BY DEF CodeOK, RecordOK, SingleUse, InStep, RecordOf
  <2>3. OnceOK'
    BY DEF OnceOK, Claims
  <2>4. TallyOK' /\ ThrottleHolds'
    BY DEF TallyOK, ThrottleHolds, RecordOf
  <2> QED BY <2>1, <2>2, <2>3, <2>4
<1>2. AppTypeOK'
  BY <1>0, OtpAssumptions DEF AppTypeOK
<1>3. AwaitedOK'
  BY <1>0 DEF AwaitedOK, Excused, Requests
<1>4. ShownIsLive'
  <2> SUFFICES ASSUME NEW u \in Minters, NEW c \in Codes,
                      shown'[u].code = c, hits[c] = 0, c \notin burnt
               PROVE  shown'[u].left <= marker[c] + lag[u]
    BY DEF ShownIsLive
  <2>1. CASE u = t
    BY <1>0, <2>1 DEF AppTypeOK, AwaitedOK, Excused
  <2>2. CASE u # t
    BY <2>2 DEF AppTypeOK, ShownIsLive
  <2> QED BY <2>1, <2>2
<1> QED BY <1>1, <1>2, <1>3, <1>4

LEMMA MintFailsStep ==
  ASSUME Inv, NEW t \in Minters, MintFails(t)
  PROVE  Inv'
<1>1. OtpInv'
  BY DieStep DEF Inv, MintFails, Requests
<1>2. Calm
  BY DEF Inv, OtpInv, OtpTypeOK, MintFails, Die, Goto, Idle, ghosts, Calm, Excused, Requests
<1> QED BY <1>1, <1>2, CalmStep DEF MintFails, appVars

LEMMA ConfirmIsCalm ==
  ASSUME Inv, NEW p \in Confirmers,
         (\E c \in Codes : Confirm(p, c)) \/ ConfirmStep(p)
  PROVE  Inv'
<1> USE DEF Inv, Confirm, ConfirmStep, ConsumeStep
<1>0. p \in Requests /\ (\A t \in Minters : t \in Requests /\ t # p)
  BY OtpAssumptions DEF Requests
<1>1. OtpInv'
  BY <1>0, TakeMarkerStep, FreeRecordStep, ReadRecordStep, BurnStep, BumpStep, DieStep
<1>2. \A t \in Minters : req'[t] = req[t]
  BY <1>0 DEF OtpInv, OtpTypeOK, TakeMarker, FreeRecord, ReadRecord, Burn, Bump, Die, Goto
<1>3. \A d \in Codes : ~(Excused(d)') => ~Excused(d) /\ marker[d] <= marker'[d]
  <2> USE DEF OtpInv, OtpTypeOK, Excused
  <2>1. CASE \E c \in Codes : Confirm(p, c)
    BY <2>1 DEF TakeMarker
  <2>2. CASE Burn(p)
    BY <2>2 DEF Burn
  <2>3. CASE FreeRecord(p) \/ ReadRecord(p) \/ Bump(p) \/ Die(p)
    BY <2>3 DEF FreeRecord, ReadRecord, Bump, Die, ghosts
  <2> QED BY <2>1, <2>2, <2>3
<1> QED BY <1>1, <1>2, <1>3, CalmStep DEF Calm, appVars

LEMMA TickStep ==
  ASSUME Inv, Tick
  PROVE  Inv'
<1> USE DEF Inv, Tick
<1>1. OtpInv'
  BY KeysExpireStep
<1>2. \A c \in Codes :
        /\ marker[c] \in 0..Ttl
        /\ marker'[c] = IF marker[c] = 0 THEN 0 ELSE marker[c] - 1
  BY OtpAssumptions DEF KeysExpire, OtpInv, OtpTypeOK, Expire
<1>3. AppTypeOK'
  <2>1. pending' \in 1..Deadline \union {None}
    BY OtpAssumptions, DeadlineAssumption DEF AppTypeOK
  <2>2. feed' \in [Minters -> 0..Deadline \union {None}]
    <3> SUFFICES ASSUME NEW t \in Minters
                 PROVE  (IF feed[t] = None THEN None ELSE Countdown(feed[t]))
                          \in 0..Deadline \union {None}
      OBVIOUS
    <3>1. CASE feed[t] = None
      BY <3>1
    <3>2. CASE feed[t] # None
      <4>1. feed[t] \in 0..Deadline
        BY <3>2 DEF AppTypeOK
      <4>2. \A n \in 0..Deadline : Countdown(n) \in 0..Deadline
        BY DeadlineAssumption DEF Countdown
      <4> QED BY <3>2, <4>1, <4>2
    <3> QED BY <3>1, <3>2
  <2>3. shown' \in [Minters -> [code : Codes \union {None}, left : 0..Ttl]]
    BY OtpAssumptions DEF AppTypeOK, Countdown, Hidden
  <2>4. lag' \in [Minters -> 0..Ttl]
    BY OtpAssumptions DEF AppTypeOK
  <2> QED BY <2>1, <2>2, <2>3, <2>4 DEF AppTypeOK
<1>4. UNCHANGED <<req, hits, burnt>>
  BY DEF KeysExpire, ghosts
<1>5. AwaitedOK'
  <2> SUFFICES ASSUME NEW t \in Minters, req[t].pc = "minted", ~Excused(req[t].code)
               PROVE  Ttl <= marker'[req[t].code] + lag'[t]
    BY <1>4 DEF AwaitedOK, Excused
  <2>1. req[t].code \in Codes /\ lag[t] \in 0..Ttl
    BY DEF AppTypeOK, OtpInv, CodeOK, Requests
  <2>2. Ttl <= marker[req[t].code] + lag[t]
    BY DEF AwaitedOK
  <2>3. lag'[t] = IF lag[t] < Ttl THEN lag[t] + 1 ELSE lag[t]
    BY OtpAssumptions DEF AppTypeOK
  <2> QED BY <1>2, <2>1, <2>2, <2>3, OtpAssumptions
<1>6. ShownIsLive'
  <2> SUFFICES ASSUME NEW t \in Minters, NEW c \in Codes,
                      shown'[t].code = c, hits[c] = 0, c \notin burnt
               PROVE  shown'[t].left <= marker'[c] + lag'[t]
    BY <1>4 DEF ShownIsLive
  <2>1. shown[t].left \in 2..Ttl /\ shown'[t] = [shown[t] EXCEPT !.left = shown[t].left - 1]
    BY OtpAssumptions DEF AppTypeOK, Hidden, Countdown
  <2>2. shown[t].code = c /\ shown'[t].left = shown[t].left - 1
    BY <2>1 DEF AppTypeOK
  <2>3. shown[t].left <= marker[c] + lag[t]
    BY <2>2 DEF ShownIsLive
  <2>4. lag[t] \in Nat /\ lag'[t] \in Nat /\ lag[t] <= lag'[t]
    BY <1>3, OtpAssumptions DEF AppTypeOK
  <2> QED BY <1>2, <2>1, <2>2, <2>3, <2>4, OtpAssumptions
<1> QED BY <1>1, <1>3, <1>5, <1>6

LEMMA StutterStep ==
  ASSUME Inv, UNCHANGED vars
  PROVE  Inv'
<1>1. AppTypeOK'
  BY DEF vars, Inv, AppTypeOK
<1> QED BY <1>1, FeedStep DEF vars

LEMMA InvInductive == Inv /\ [Next]_vars => Inv'
<1> SUFFICES ASSUME Inv, [Next]_vars PROVE Inv'
  OBVIOUS
<1>1. CASE StartTransfer \/ EndTransfer
  BY <1>1, TransferStep
<1>2. CASE Tick
  BY <1>2, TickStep
<1>3. ASSUME NEW t \in Minters, Refresh(t) \/ Place(t) \/ ShowCode(t) \/ MintFails(t)
      PROVE  Inv'
  BY <1>3, RefreshStep, PlaceStep, ShowCodeStep, MintFailsStep
<1>4. ASSUME NEW t \in Minters, NEW c \in Codes, Reveal(t, c) PROVE Inv'
  BY <1>4, RevealStep
<1>5. ASSUME NEW p \in Confirmers, NEW c \in Codes, Confirm(p, c) PROVE Inv'
  BY <1>5, ConfirmIsCalm
<1>6. ASSUME NEW p \in Confirmers, ConfirmStep(p) PROVE Inv'
  BY <1>6, ConfirmIsCalm
<1>7. CASE UNCHANGED vars
  BY <1>7, StutterStep
<1> QED BY <1>1, <1>2, <1>3, <1>4, <1>5, <1>6, <1>7 DEF Next

-----------------------------------------------------------------------------
(* The theorems.                                                           *)

\* The strengthening is an invariant.
THEOREM AlwaysInv == Spec => []Inv
<1>1. Init => Inv
  BY InitInv
<1>2. Inv /\ [Next]_vars => Inv'
  BY InvInductive
<1> QED BY <1>1, <1>2, PTL DEF Spec

\* Every variable keeps its type: no key is without an expiry, no count passes the
\* number of attempts (OtpService, OtpApp).
THEOREM TypeCorrect == Spec => []TypeOK
<1>1. Inv => TypeOK
  BY DEF Inv, OtpInv, AppTypeOK, TypeOK
<1> QED BY <1>1, AlwaysInv, PTL

\* However many confirms race for a code and wherever one dies, one finds it right
\* (consume: GETDEL).
THEOREM UsedOnce == Spec => []SingleUse
<1>1. Inv => SingleUse
  BY DEF Inv, OtpInv
<1> QED BY <1>1, AlwaysInv, PTL

\* Unless a request was overtaken by another code, every live code is the one its
\* record names, so that wrong guesses are counted against it (generate, consume).
THEOREM Recorded == Spec => []LiveCodeIsRecorded
<1>1. Inv => LiveCodeIsRecorded
  BY DEF Inv, OtpInv, InStep, LiveCodeIsRecorded
<1> QED BY <1>1, AlwaysInv, PTL

\* A code that was tried more often than OTP_MAX_ATTEMPTS allows had one of the wrong
\* codes counted from a count that another confirm had changed meanwhile (consume).
THEOREM Throttled == Spec => []ThrottleHolds
<1>1. Inv => ThrottleHolds
  BY DEF Inv, OtpInv
<1> QED BY <1>1, AlwaysInv, PTL

\* A tab shows a code no longer than it lives and its answer took (CodeRevealPanel).
THEOREM DisplayedIsLive == Spec => []ShownIsLive
<1>1. Inv => ShownIsLive
  BY DEF Inv
<1> QED BY <1>1, AlwaysInv, PTL
==============================================================================
