------------------------------- MODULE MCMoMgr -------------------------------
(* An instance of MoMgr for TLC: account objects, one inside the other,    *)
(* one that takes the place of another, DevDetail with its limits, and     *)
(* objects that are refused.  The outer account object knows several URIs: *)
(* <<a, c>>, of which the second has the value looked for, and <<a, b, c>>,*)
(* of which b is there only if the inner object is.                        *)
EXTENDS MoMgr, TLC

acc    == <<"DMAcc">>
a      == acc \o <<"a">>
b      == a \o <<"b">>
c      == acc \o <<"c">>
detail == <<"DevDetail">>

All == {"isNode", "findURN", "get", "set", "getACL"}

Object(base, interior, leaf, uris, all, funcs) ==
  [base |-> base, init |-> TRUE, interior |-> interior, leaf |-> leaf,
   urn |-> [u \in {"dmacc", "all"} |-> IF u = "dmacc" THEN uris ELSE all],
   funcs |-> funcs]

Empty == [u \in {} |-> "none"]

Limit(name) == detail \o <<"URI", name>>

MCMO(p) ==
  CASE p = "root" -> Object(<< >>, {<< >>}, Empty, << >>, << >>, {"isNode", "get", "getACL"})
    [] p = "accounts" -> Object(acc, {acc, a, c},
                     (Append(a, "ServerID") :> "x") @@ (Append(c, "ServerID") :> "dm"),
                     <<a, c>>, <<a, b, c>>, All)
    [] p = "account" -> Object(b, {b}, (Append(b, "ServerID") :> "dm"), <<b>>, << >>,
                     All \cup {"exec"})
    [] p = "other" -> Object(detail, {detail}, Empty, << >>, << >>, {"isNode"})
    [] p = "detail" -> Object(detail, {detail, detail \o <<"URI">>},
                     [u \in {Limit("MaxDepth"), Limit("MaxTotLen"), Limit("MaxSegLen")} |->
                        IF u = Limit("MaxDepth") THEN "1" ELSE "0"], << >>, << >>, All)
    [] p = "top" -> Object(<< >>, {<< >>}, Empty, << >>, << >>, All)
    [] p = "broken" -> [Object(<<"Broken">>, {}, Empty, << >>, << >>, {}) EXCEPT !.init = FALSE]

MCPlugins == {"accounts", "account", "other", "detail", "top", "broken"}

MCUris == {<< >>, acc, a, b, c, b \o <<"ServerID">>}

MCStarts == {<< >>, acc}

MCCriteria == {<<"ServerID", "dm">>}

MCNumber == ("0" :> 0) @@ ("1" :> 1) @@ ("70000" :> 70000)
==============================================================================
