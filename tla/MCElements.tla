----------------------------- MODULE MCElements -----------------------------
(* An instance of Elements for TLC: three requests and every reference a   *)
(* server can quote.                                                       *)
EXTENDS Elements

\* Every message number, one that was never used, and "not a number".
AllRefs == {AnyMessage} \cup 0 .. MaxMessageId + 1
=============================================================================
