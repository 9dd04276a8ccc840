------------------------------ MODULE EventFeed ------------------------------
(***************************************************************************)
(* What the outbox, the stream and the analytics consumer promise together: *)
(* what the balance service committed becomes known to the read model,     *)
(* nothing else does, and nothing is ever unlearned.                       *)
(***************************************************************************)
CONSTANTS
  Events,
  Readable   \* the events the read model can make sense of

VARIABLES
  committed,  \* events of committed movements
  known,      \* events with a document in the read model
  promised    \* events that come after the read model began to listen

feedVars == <<committed, known>>

Init == committed = {} /\ known = {}

Commit(e) ==
  /\ e \notin committed
  /\ committed' = committed \cup {e}
  /\ UNCHANGED known

Learn(e) ==
  /\ e \in (committed \cap Readable) \ known
  /\ known' = known \cup {e}
  /\ UNCHANGED committed

Next == \E e \in Events : Commit(e) \/ Learn(e)

\* Any event may be learned, one that is promised has to be.
Spec == Init /\ [][Next]_feedVars /\ \A e \in Events : WF_feedVars(e \in promised /\ Learn(e))

==============================================================================
