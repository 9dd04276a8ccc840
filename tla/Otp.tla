---------------------------------- MODULE Otp ----------------------------------
(***************************************************************************)
(* OtpService of the balance service: the one-time code of one user, as    *)
(* two Redis keys that are written and deleted one after the other, by     *)
(* requests that overlap and may die in between.  Redis runs one command   *)
(* at a time and is external: its commands are modelled by what they do.   *)
(*                                                                         *)
(* A code stands for its keyed hash.  Codes are drawn at random; the model *)
(* leaves out that a draw repeats an earlier one.                          *)
(***************************************************************************)
EXTENDS Naturals, FiniteSets

CONSTANTS
  Codes,         \* BOUND: the codes that may be minted
  Minters,       \* requests to POST /api/otp
  Confirmers,    \* confirm requests, which consume
  MaxAttempts,   \* OTP_MAX_ATTEMPTS
  Ttl,           \* OTP_TTL_SECONDS, in ticks of the clock
  None

\* A key without an expiry lives for ever.
Forever == Ttl + 1
Records == [code : Codes, attempts : 0..MaxAttempts, left : 1..Forever]

ASSUME OtpAssumptions ==
  /\ MaxAttempts \in Nat \ {0} /\ Ttl \in Nat \ {0}
  /\ Minters \intersect Confirmers = {}
  /\ None \notin Codes /\ None \notin Nat /\ None \notin Records

VARIABLES
  record,     \* otp:<user>: the code, the attempts, and the ticks it has to live
  marker,     \* marker[c]: the ticks otp:<user>:<c> has to live, 0 if there is none
  req,        \* req[p]: what a request does next
  minted,     \* codes drawn so far
  hits,       \* hits[c]: how many confirms found c right
  tries,      \* tries[c]: how many wrong codes were counted against c, if none overlapped
  burnt,      \* codes that fell to too many of them
  overtaken,  \* a request acted on a record that was no longer the one it meant
  overlapped  \* codes with a wrong guess counted from a count no longer current

ghosts == <<hits, tries, burnt, overtaken, overlapped>>
otpVars == <<record, marker, req, minted, ghosts>>

Requests == Minters \union Confirmers
Idle == [pc |-> "idle", code |-> None, used |-> 0]
At(pc, c, used) == [pc |-> pc, code |-> c, used |-> used]
Stages == {"idle", "claimed", "minted", "hit", "missed", "bump", "burn"}

OtpTypeOK ==
  /\ record \in Records \union {None}
  /\ marker \in [Codes -> 0..Ttl]
  /\ req \in [Requests ->
       [pc : Stages, code : Codes \union {None}, used : 0..MaxAttempts]]
  /\ minted \subseteq Codes
  /\ hits \in [Codes -> Nat] /\ tries \in [Codes -> Nat] /\ burnt \subseteq Codes
  /\ overtaken \in BOOLEAN /\ overlapped \subseteq Codes

OtpInit ==
  /\ record = None
  /\ marker = [c \in Codes |-> 0]
  /\ req = [p \in Requests |-> Idle]
  /\ minted = {}
  /\ hits = [c \in Codes |-> 0] /\ tries = [c \in Codes |-> 0] /\ burnt = {}
  /\ overtaken = FALSE /\ overlapped = {}

Goto(p, state) == req' = [req EXCEPT ![p] = state]
RecordOf(c) == record # None /\ record.code = c

Expire(n) == IF n \in 1..Ttl THEN n - 1 ELSE n

(***************************************************************************)
(* generate.                                                               *)
(***************************************************************************)
\* SET ... EX NX: one of them finds the record free, the others are refused.
ClaimRecord(p, c) ==
  /\ req[p] = Idle
  /\ record = None /\ c \notin minted
  /\ minted' = minted \union {c}
  /\ record' = [code |-> c, attempts |-> 0, left |-> Ttl]
  /\ Goto(p, At("claimed", c, 0))
  /\ UNCHANGED <<marker, ghosts>>

\* SET ... EX: from now on the code is accepted.
PlaceMarker(p) ==
  /\ req[p].pc = "claimed"
  /\ marker' = [marker EXCEPT ![req[p].code] = Ttl]
  /\ Goto(p, [req[p] EXCEPT !.pc = "minted"])
  /\ overtaken' = (overtaken \/ ~RecordOf(req[p].code) \/ record.left < Ttl)
  /\ UNCHANGED <<record, minted, hits, tries, burnt, overlapped>>

(***************************************************************************)
(* consume.                                                                *)
(***************************************************************************)
\* Mutant of TakeMarker: a GET, and a DEL that comes too late to matter.
ReadMarker(p, c) ==
  /\ req[p] = Idle
  /\ Goto(p, At(IF marker[c] > 0 THEN "hit" ELSE "missed", c, 0))
  /\ hits' = IF marker[c] > 0 THEN [hits EXCEPT ![c] = @ + 1] ELSE hits
  /\ UNCHANGED <<record, marker, minted, tries, burnt, overtaken, overlapped>>

\* GETDEL.
TakeMarker(p, c) ==
  /\ req[p] = Idle
  /\ marker' = [marker EXCEPT ![c] = 0]
  /\ hits' = IF marker[c] > 0 THEN [hits EXCEPT ![c] = @ + 1] ELSE hits
  /\ Goto(p, At(IF marker[c] > 0 THEN "hit" ELSE "missed", c, 0))
  /\ UNCHANGED <<record, minted, tries, burnt, overtaken, overlapped>>

\* A request writes to a record it took for that of c.
Meaning(c) == overtaken' = (overtaken \/ (record # None /\ ~RecordOf(c)))
Current(p) == RecordOf(req[p].code) /\ record.attempts + 1 = req[p].used
\* A wrong code is counted against the code whose record the request read.  The
\* tally is given up at the first one that is counted from a stale count.
Counted(p) ==
  LET c == req[p].code IN
  /\ overlapped' = IF Current(p) THEN overlapped ELSE overlapped \union {c}
  /\ tries' = [tries EXCEPT ![c] = IF c \in overlapped' THEN 0 ELSE @ + 1]

\* DEL of the record, whichever it is by now.
FreeRecord(p) ==
  /\ req[p].pc = "hit"
  /\ record' = None
  /\ Goto(p, Idle)
  /\ Meaning(req[p].code)
  /\ UNCHANGED <<marker, minted, hits, tries, burnt, overlapped>>

\* GET of the record: without one, nothing is counted.
ReadRecord(p) ==
  /\ req[p].pc = "missed"
  /\ IF record = None THEN Goto(p, Idle)
     ELSE LET used == record.attempts + 1 IN
          Goto(p, At(IF used >= MaxAttempts THEN "burn" ELSE "bump", record.code, used))
  /\ UNCHANGED <<record, marker, minted, ghosts>>

\* Mutant of Burn: the code itself is left alive.
BurnRecordOnly(p) ==
  /\ req[p].pc = "burn"
  /\ record' = None
  /\ burnt' = burnt \union {req[p].code}
  /\ Goto(p, Idle)
  /\ Meaning(req[p].code) /\ Counted(p)
  /\ UNCHANGED <<marker, minted, hits>>

\* DEL of the code the record named, and of the record.
Burn(p) ==
  /\ req[p].pc = "burn"
  /\ marker' = [marker EXCEPT ![req[p].code] = 0]
  /\ record' = None
  /\ burnt' = burnt \union {req[p].code}
  /\ Goto(p, Idle)
  /\ Meaning(req[p].code) /\ Counted(p)
  /\ UNCHANGED <<minted, hits>>

\* Mutant of Bump: SET ... KEEPTTL without XX makes a record that never expires.
BumpAlways(p) ==
  /\ req[p].pc = "bump"
  /\ record' = [code |-> req[p].code, attempts |-> req[p].used,
                left |-> IF record = None THEN Forever ELSE record.left]
  /\ Goto(p, Idle)
  /\ Meaning(req[p].code) /\ Counted(p)
  /\ UNCHANGED <<marker, minted, hits, burnt>>

\* Mutant of Bump: the count is written back as it was read.
BumpByNone(p) ==
  /\ req[p].pc = "bump"
  /\ record' = IF record = None THEN None ELSE [record EXCEPT !.attempts = req[p].used - 1]
  /\ Goto(p, Idle)
  /\ Meaning(req[p].code) /\ Counted(p)
  /\ UNCHANGED <<marker, minted, hits, burnt>>

\* SET ... KEEPTTL XX.
Bump(p) ==
  /\ req[p].pc = "bump"
  /\ record' = IF record = None THEN None
               ELSE [code |-> req[p].code, attempts |-> req[p].used, left |-> record.left]
  /\ Goto(p, Idle)
  /\ Meaning(req[p].code) /\ Counted(p)
  /\ UNCHANGED <<marker, minted, hits, burnt>>

(***************************************************************************)
(* Time, and requests that die.                                            *)
(***************************************************************************)
KeysExpire ==
  /\ record' = IF record = None \/ record.left = 1 THEN None
               ELSE [record EXCEPT !.left = Expire(@)]
  /\ marker' = [c \in Codes |-> Expire(marker[c])]
  /\ UNCHANGED <<req, minted, ghosts>>

Die(p) ==
  /\ req[p] # Idle
  /\ Goto(p, Idle)
  /\ UNCHANGED <<record, marker, minted, ghosts>>

ConsumeStep(p) == FreeRecord(p) \/ ReadRecord(p) \/ Burn(p) \/ Bump(p)
===============================================================================
