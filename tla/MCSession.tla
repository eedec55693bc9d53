----------------------------- MODULE MCSession ------------------------------
(* Instances of Session for TLC.                                           *)
EXTENDS Session

BothCreds == [clt |-> TRUE, srv |-> TRUE]
NoServerCred == [clt |-> TRUE, srv |-> FALSE]
NoCred == [clt |-> FALSE, srv |-> FALSE]

\* The DM accounts of each run.
FullAccount == {BothCreds}
GoodAccounts == {BothCreds, NoServerCred}
OddAccounts == {BothCreds, NoCred}
=============================================================================
