------------------------------- MODULE Console -------------------------------
(***************************************************************************)
(* The administrators' web application in one browser tab: the screens for *)
(* reversals, accounts and limits with the mutations they have on the wire *)
(* and the lists they have cached under tags (RTK Query), and the audit    *)
(* log with its pages.  The server is AdminStore, at which other           *)
(* administrators are at work too.                                         *)
(***************************************************************************)
EXTENDS AdminStore

CONSTANTS
  Tours,         \* sets of screens that a tab goes to and fro between
  PageSize,      \* PAGE_SIZE
  LastPage,      \* pages of the audit log that are gone to
  MaxCalls,      \* mutations on the wire at a time
  MaxSends,      \* mutations in all
  MaxUpsets      \* losses of the network and doings of other administrators

VARIABLES
  tour,          \* the screens this tab goes to
  screen,        \* the one that is open
  target,        \* reverseTargetId: a proposal is being written for it
  hooks,         \* what the screen knows of the last mutation of each kind
  sends,         \* mutations triggered so far
  calls,         \* mutations on the wire
  cache,         \* what was last read of a list, None if nothing
  reading,       \* a read of it on the wire
  stale,         \* lists whose tag was invalidated and that are yet to be read again
  page,          \* the page of the audit log that is shown
  pages,         \* the rows there were when a page was read, None if it was not
  upsets,        \* of those, how many there were
  untold         \* lists that changed since they were last read, in a way no
                 \* answer told this tab of

deskVars == <<target, hooks, sends, calls, cache, reading, stale, untold>>
auditVars == <<page, pages>>
place == <<tour, screen>>
vars == <<adminVars, place, deskVars, auditVars, upsets>>

Lists == {"transactions", "approvals", "accounts", "limits"}
Ops == {"propose", "approve", "reject", "freeze", "unfreeze", "upsert"}
Shows == [reversals |-> {"transactions", "approvals"}, accounts |-> {"accounts"},
          limits |-> {"limits"}, audit |-> {}, home |-> {}]

\* Mutant of Invalidates: the transactions are forgotten.
InvalidatesApprovalsOnly(op) ==
  CASE op \in {"propose", "approve", "reject"} -> {"approvals"}
    [] op \in {"freeze", "unfreeze"} -> {"accounts"}
    [] op = "upsert" -> {"limits"}

\* invalidatesTags of each mutation.
Invalidates(op) ==
  CASE op \in {"propose", "reject"} -> {"approvals"}
    [] op = "approve" -> {"approvals", "transactions"}
    [] op \in {"freeze", "unfreeze"} -> {"accounts"}
    [] op = "upsert" -> {"limits"}

Listed(l) ==
  CASE l = "transactions" -> transactions
    [] l = "approvals" -> PendingApprovals
    [] l = "accounts" -> account
    [] l = "limits" -> limits

Unasked == [phase |-> "idle", value |-> None]
Asked == [phase |-> "asked", value |-> None]
Answered(v) == [phase |-> "answered", value |-> v]

(***************************************************************************)
(* A mutation hook keeps the last request it was triggered with, the       *)
(* order of the triggers (startedTimeStamp) and how that request went.  It *)
(* is made afresh with its screen.                                         *)
(***************************************************************************)
Untriggered == [phase |-> "idle", arg |-> None, at |-> 0]
Fresh == [op \in Ops |-> Untriggered]

\* The buttons of a row are disabled for the request one of the two hooks waits
\* for, of the first one if both do.
PendingId(first, second) ==
  IF hooks[first].phase = "loading" THEN hooks[first].arg
  ELSE IF hooks[second].phase = "loading" THEN hooks[second].arg ELSE None

\* The error that is shown is that of the hook that was triggered last.
LatestOf(first, second) == IF hooks[second].at > hooks[first].at THEN second ELSE first

\* Mutant of Banner: the error of either hook is shown.
BannerOfEither(first, second) ==
  /\ cache["approvals"] \notin {None, {}}
  /\ hooks[first].phase = "failed" \/ hooks[second].phase = "failed"

\* The banner above the queue.  A queue that is empty, or not read yet, says only that
\* nothing waits, or that it is being read, and has no banner.
Banner(first, second) ==
  /\ cache["approvals"] \notin {None, {}}
  /\ hooks[LatestOf(first, second)].phase = "failed"

Awaited(cs) == {c \in cs : c.by = "tab"}

Trigger(op, arg) ==
  /\ Cardinality(Awaited(calls)) < MaxCalls /\ sends < MaxSends
  /\ sends' = sends + 1
  /\ calls' = calls \union {[op |-> op, arg |-> arg, at |-> sends', by |-> "tab", answer |-> None]}
  /\ hooks' = [hooks EXCEPT ![op] = [phase |-> "loading", arg |-> arg, at |-> sends']]
  /\ UNCHANGED <<adminVars, place, cache, reading, stale, auditVars, upsets, untold>>

(***************************************************************************)
(* The administrator.  What is offered is what the lists showed.           *)
(***************************************************************************)
BeginReverse(id) ==
  /\ screen = "reversals" /\ cache["transactions"] # None
  /\ id \in DOMAIN cache["transactions"] /\ IsReversible(cache["transactions"][id])
  /\ ~(hooks["propose"].phase = "loading" /\ hooks["propose"].arg = id)
  /\ target' = id
  /\ UNCHANGED <<adminVars, place, hooks, sends, calls, cache, reading, stale, auditVars,
                 upsets, untold>>

\* The form stays until it is confirmed or cancelled, whatever becomes of the row.
ConfirmReverse ==
  /\ target # None
  /\ target' = None
  /\ Trigger("propose", target)

CancelReverse ==
  /\ target # None
  /\ target' = None
  /\ UNCHANGED <<adminVars, place, hooks, sends, calls, cache, reading, stale, auditVars,
                 upsets, untold>>

Decision(op, i) ==
  /\ screen = "reversals" /\ cache["approvals"] # None
  /\ i \in cache["approvals"] /\ PendingId("approve", "reject") # i
  /\ Trigger(op, i)
  /\ UNCHANGED target

\* A frozen account offers to be unfrozen, any other to be frozen.
FreezeOrUnfreeze(a) ==
  /\ screen = "accounts" /\ cache["accounts"] # None
  /\ PendingId("freeze", "unfreeze") # a
  /\ Trigger(IF cache["accounts"][a] = "frozen" THEN "unfreeze" ELSE "freeze", a)
  /\ UNCHANGED target

SaveLimits(s, caps) ==
  /\ screen = "limits"
  /\ hooks["upsert"].phase # "loading"
  /\ Trigger("upsert", <<s, caps>>)
  /\ UNCHANGED target

\* A screen is opened: what it shows is read unless it is still cached, and the
\* mutations of the one before it are answered to the store alone.
Open(s) ==
  /\ s \in tour \ {screen}
  /\ screen' = s
  /\ target' = None
  /\ hooks' = Fresh
  /\ reading' = [l \in Lists |-> IF l \in Shows[s] /\ cache[l] = None /\ reading[l] = Unasked
                                 THEN Asked ELSE reading[l]]
  /\ page' = 0
  /\ UNCHANGED <<adminVars, tour, sends, calls, cache, stale, pages, upsets, untold>>

(***************************************************************************)
(* The lists.  A tag waits until nothing of the tab is on the wire.  Then  *)
(* a list on show is read again, and one that is not is forgotten, as it   *)
(* is a minute after it was last on show.                                  *)
(***************************************************************************)
Refresh ==
  /\ stale # {} /\ Awaited(calls) = {} /\ \A l \in Lists : reading[l] = Unasked
  /\ stale' = {}
  /\ reading' = [l \in Lists |-> IF l \in stale \intersect Shows[screen] THEN Asked ELSE Unasked]
  /\ cache' = [l \in Lists |-> IF l \in stale \ Shows[screen] THEN None ELSE cache[l]]
  /\ UNCHANGED <<adminVars, place, target, hooks, sends, calls, auditVars, upsets, untold>>

Forget(l) ==
  /\ l \notin Shows[screen] /\ cache[l] # None /\ reading[l] = Unasked
  /\ cache' = [cache EXCEPT ![l] = None]
  /\ UNCHANGED <<adminVars, place, target, hooks, sends, calls, reading, stale, auditVars,
                 upsets, untold>>

ServeRead(l) ==
  /\ reading[l] = Asked
  /\ reading' = [reading EXCEPT ![l] = Answered(Listed(l))]
  /\ untold' = untold \ {l}
  /\ UNCHANGED <<adminVars, place, target, hooks, sends, calls, cache, stale, auditVars, upsets>>

DeliverRead(l) ==
  /\ reading[l].phase = "answered"
  /\ cache' = [cache EXCEPT ![l] = reading[l].value]
  /\ reading' = [reading EXCEPT ![l] = Unasked]
  /\ UNCHANGED <<adminVars, place, target, hooks, sends, calls, stale, auditVars, upsets, untold>>

(***************************************************************************)
(* The mutations.                                                          *)
(***************************************************************************)
Handle(admin, op, arg, answer) ==
  CASE op = "propose"  -> ProposeReversal(admin, arg, answer)
    [] op = "approve"  -> ApproveReversal(admin, arg, answer)
    [] op = "reject"   -> RejectReversal(admin, arg, answer)
    [] op = "freeze"   -> SetAccountStatus(arg, "frozen", answer)
    [] op = "unfreeze" -> SetAccountStatus(arg, "active", answer)
    [] op = "upsert"   -> UpsertLimits(arg[1], arg[2], answer)

Answers == {Done} \union {Refuses(code) : code \in Codes}
Changed(l) == Listed(l)' # Listed(l)

ASSUME ConsoleAssumptions ==
  /\ \A t \in Tours : t \subseteq DOMAIN Shows
  /\ {MaxCalls, MaxSends, MaxUpsets, LastPage} \subseteq Nat /\ PageSize \in Nat \ {0}
  /\ None \notin Answers /\ None \notin Codes

Serve(c) ==
  /\ c.answer = None
  /\ \E answer \in Answers :
       /\ Handle(Me, c.op, c.arg, answer)
       /\ calls' = IF c.by = "nobody" THEN calls \ {c}
                   ELSE (calls \ {c}) \union {[c EXCEPT !.answer = answer]}
  /\ untold' = IF c.by = "nobody" THEN untold \union {l \in Lists : Changed(l)} ELSE untold
  /\ UNCHANGED <<place, target, hooks, sends, cache, reading, stale, auditVars, upsets>>

\* The hook takes the answer to the request it was triggered with last.
Hear(c, answer, rest) ==
  /\ calls' = rest
  /\ hooks' = IF hooks[c.op].at = c.at
              THEN [hooks EXCEPT ![c.op].phase = IF answer.ok THEN "done" ELSE "failed"]
              ELSE hooks
  /\ stale' = stale \union Invalidates(c.op)
  /\ UNCHANGED <<place, target, sends, cache, reading, auditVars>>

Deliver(c) ==
  /\ c.answer # None
  /\ Hear(c, c.answer, calls \ {c})
  /\ UNCHANGED <<adminVars, upsets, untold>>

\* The network fails a call.  The request may be lost, or its answer, or it may
\* still arrive.
Lose(c) ==
  /\ upsets < MaxUpsets /\ c.by = "tab"
  /\ upsets' = upsets + 1
  /\ \E onItsWay \in BOOLEAN :
       /\ onItsWay => c.answer = None
       /\ Hear(c, Refuses("FETCH_ERROR"),
               (calls \ {c}) \union (IF onItsWay THEN {[c EXCEPT !.by = "nobody"]} ELSE {}))
  /\ UNCHANGED <<adminVars, untold>>

\* Another administrator decides, proposes or freezes.
Elsewhere ==
  /\ upsets < MaxUpsets
  /\ upsets' = upsets + 1
  /\ \E admin \in Admins \ {Me} :
       \/ \E id \in DOMAIN transactions : ProposeReversal(admin, id, Done)
       \/ \E i \in DOMAIN approvals :
            ApproveReversal(admin, i, Done) \/ RejectReversal(admin, i, Done)
       \/ \E a \in Accounts, s \in {"active", "frozen"} : SetAccountStatus(a, s, Done)
  /\ untold' = untold \union {l \in Lists : Changed(l)}
  /\ UNCHANGED <<place, target, hooks, sends, calls, cache, reading, stale, auditVars>>

(***************************************************************************)
(* The audit log.  A page that is cached is shown as it is: nothing ever   *)
(* invalidates it, and it is forgotten a minute after it was last shown.   *)
(***************************************************************************)
Rows(p) == IF pages[p] = None THEN {} ELSE AuditPage(p, PageSize, pages[p])

\* A page is read when it is shown, which here is at once.
ReadPage ==
  /\ screen = "audit" /\ pages[page] = None
  /\ pages' = [pages EXCEPT ![page] = log]
  /\ UNCHANGED <<adminVars, place, deskVars, page, upsets>>

\* Next is disabled on a page that is not full.
NextPage ==
  /\ screen = "audit" /\ pages[page] # None /\ page < LastPage
  /\ Cardinality(Rows(page)) = PageSize
  /\ page' = page + 1
  /\ UNCHANGED <<adminVars, place, deskVars, pages, upsets>>

PreviousPage ==
  /\ screen = "audit" /\ page > 0
  /\ page' = page - 1
  /\ UNCHANGED <<adminVars, place, deskVars, pages, upsets>>

ForgetPage(p) ==
  /\ ~(screen = "audit" /\ p = page) /\ pages[p] # None
  /\ pages' = [pages EXCEPT ![p] = None]
  /\ UNCHANGED <<adminVars, place, deskVars, page, upsets>>

\* While the log is read, it grows.
Grow ==
  /\ screen = "audit"
  /\ Record
  /\ UNCHANGED <<place, deskVars, auditVars, upsets>>

(***************************************************************************)
(* The specification.                                                      *)
(***************************************************************************)
Init ==
  /\ StoreInit
  /\ tour \in Tours
  /\ screen \in tour
  /\ log \in IF screen = "audit" THEN SUBSET (1..MaxEntries) ELSE {{}}
  /\ target = None
  /\ hooks = Fresh
  /\ sends = 0
  /\ calls = {}
  /\ cache = [l \in Lists |-> None]
  /\ reading = [l \in Lists |-> IF l \in Shows[screen] THEN Asked ELSE Unasked]
  /\ stale = {}
  /\ page = 0
  /\ pages = [p \in 0..LastPage |-> None]
  /\ upsets = 0
  /\ untold = {}

Administrator ==
  \/ \E id \in 1..MaxRows : BeginReverse(id)
  \/ ConfirmReverse \/ CancelReverse
  \/ \E op \in {"approve", "reject"}, i \in 1..MaxApprovals : Decision(op, i)
  \/ \E a \in Accounts : FreezeOrUnfreeze(a)
  \/ \E s \in Scopes, caps \in Caps : SaveLimits(s, caps)
  \/ \E s \in tour : Open(s)
  \/ NextPage \/ PreviousPage

Network ==
  \/ \E c \in calls : Serve(c) \/ Deliver(c) \/ Lose(c)
  \/ \E l \in Lists : ServeRead(l) \/ DeliverRead(l) \/ Forget(l)
  \/ Refresh \/ ReadPage
  \/ \E p \in 0..LastPage : ForgetPage(p)

Next == Administrator \/ Network \/ Elsewhere \/ Grow

Spec == Init /\ [][Next]_vars

-----------------------------------------------------------------------------
\* Every variable holds what it may, a form is open only on its screen, and the
\* requests of the hooks are ones that were sent.
ConsoleTypeOK ==
  /\ StoreTypeOK
  /\ tour \in Tours /\ screen \in tour
  /\ target \in {None} \union 1..MaxRows /\ (target # None => screen = "reversals")
  /\ \A op \in Ops : hooks[op].phase \in {"idle", "loading", "done", "failed"}
                     /\ hooks[op].at \in 0..sends
  /\ sends \in 0..MaxSends /\ upsets \in 0..MaxUpsets
  /\ \A c \in calls : c.by \in {"tab", "nobody"} /\ c.answer \in Answers \union {None}
  /\ \A l \in Lists : reading[l].phase \in {"idle", "asked", "answered"}
  /\ {stale, untold} \subseteq SUBSET Lists
  /\ page \in 0..LastPage
  /\ pages \in [0..LastPage -> (SUBSET (1..MaxEntries)) \union {None}]

\* A transaction is reversed exactly if one approval of it was executed and one
\* other transaction compensates it, and no approval was decided by its maker:
\* whatever two administrators propose and decide at once.
ReversedByOneApproval ==
  /\ \A t \in DOMAIN transactions :
       LET executed == {i \in DOMAIN approvals :
                          approvals[i].target = t /\ approvals[i].status = "EXECUTED"}
           compensations == {r \in DOMAIN transactions : transactions[r].reverses = t}
           reversed == IF transactions[t].status = "REVERSED" THEN 1 ELSE 0
       IN Cardinality(executed) = reversed /\ Cardinality(compensations) = reversed
  /\ \A i \in DOMAIN approvals : approvals[i].maker # approvals[i].checker

\* Once nothing is on the wire and no tag waits, the lists on show are those of
\* the server, apart from what others have changed, or calls the tab was told
\* had failed: an approval shows in both of its lists.
ListsAreCurrent ==
  Awaited(calls) = {} /\ stale = {} =>
    \A l \in Shows[screen] \ untold :
      reading[l] = Unasked /\ cache[l] # None => cache[l] = Listed(l)

Decisions == {"approve", "reject"}

\* The decision this screen was last asked for.
LatestDecision == IF hooks["reject"].at > hooks["approve"].at THEN "reject" ELSE "approve"

\* "So a stale error does not linger": an error is on show only if the decision asked
\* for last has failed, never while one asked for later is on the wire.  And above a
\* queue that shows anything, no error means that the decision asked for last was
\* taken, by the one who took it.  An empty queue shows no error (RefusalsAreTold).
BannerTellsLatest ==
  LET latest == hooks[LatestDecision]
      a == approvals[latest.arg]
  IN /\ Banner("approve", "reject") =>
          /\ latest.phase = "failed"
          /\ \A c \in Awaited(calls) : c.op \in Decisions => c.at < latest.at
     /\ /\ cache["approvals"] \notin {None, {}} /\ ~Banner("approve", "reject")
        /\ latest.phase \notin {"idle", "loading"}
        => /\ a.status = (IF LatestDecision = "approve" THEN "EXECUTED" ELSE "REJECTED")
           /\ a.checker = Me

\* "A failed action surfaces via the Alert": once the queue has been read, a decision
\* that failed, and that this administrator did not take, shows its error.
RefusalsAreTold ==
  LET latest == hooks[LatestDecision] IN
  latest.phase = "failed" /\ cache["approvals"] # None /\ approvals[latest.arg].checker # Me
    => Banner("approve", "reject")

\* The pages of the log, if none was read before the one ahead of it, show every row
\* that was there when the first was read, from the newest to the oldest on the page
\* shown: rows that come in meanwhile push others to the next page, and none past it.
\* Of a row that comes in later, among those already shown, nothing is said.
NothingSkipped ==
  (\A p \in 0..page : pages[p] # None) /\ (\A p \in 1..page : pages[p - 1] \subseteq pages[p]) =>
    LET shown == UNION {Rows(p) : p \in 0..page} IN
    \A k \in pages[0] : (\E r \in shown : r <= k) => k \in shown

===============================================================================
