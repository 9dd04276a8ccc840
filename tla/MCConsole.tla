------------------------------ MODULE MCConsole ------------------------------
(***************************************************************************)
(* A small instance of the console for TLC.                                *)
(***************************************************************************)
EXTENDS Console

\* Two transactions that can be reversed and one that cannot.
ThreeKinds ==
  <<[type |-> "internal", status |-> "POSTED", reverses |-> 0],
    [type |-> "external_inbound", status |-> "POSTED", reverses |-> 0],
    [type |-> "external_outbound", status |-> "POSTED", reverses |-> 0]>>
===============================================================================
