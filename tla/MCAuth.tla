-------------------------------- MODULE MCAuth --------------------------------
(* Instances of Auth for TLC.                                              *)
EXTENDS Auth

\* Every combination of the two types that can succeed.
MCAccounts == [clt : {"basic", "digest"}, srv : {"basic", "digest"}]

\* Nonces of 9 and 16 bytes.
Whole == [n \in SrvNonce |-> IF n = "n1" THEN 0 ELSE 1]
===============================================================================
