------------------------------- MODULE MCDmTree -------------------------------
EXTENDS DmTree

\* "dm" is part of "dm2"
MCWithin == {<<"dm", "dm2">>}

All(c) == [cmd |-> c, all |-> TRUE, ids |-> <<>>]
For(c, ids) == [cmd |-> c, all |-> FALSE, ids |-> ids]

MCBase == <<"Vendor", "memory">>
MCTarget ==
    {<<>>, <<"Vendor">>, MCBase, MCBase \o <<"a">>, MCBase \o <<"a", "b">>, MCBase \o <<"a", "b", "d">>}

MemoryObject == {"set", "setACL", "delete"}
OldObject == {"set", "delete", "exec"}
MCPlugins == {MemoryObject, OldObject}
MCMemory == {MemoryObject}

\* The ACL of the memory object, and one that separates the servers.
StockACL == <<All("Add"), All("Get"), All("Replace"), All("Delete")>>
SharedACL == <<For("Replace", <<"dm2">>), For("Add", <<"dm", "dm2">>), All("Get"), For("Exec", <<"dm">>),
               For("Delete", <<"dm", "dm2">>)>>

MCNewACL ==
    {<<>>, <<For("Get", <<>>)>>, <<All("Get"), All("Unknown")>>,
     <<For("Add", <<"dm2", "dm">>), For("Replace", <<"dm">>), For("Delete", <<"dm">>)>>,
     <<For("Replace", <<"dm2">>), All("Exec"), For("Replace", <<"dm">>)>>}
PlainACL == {<<For("Add", <<"dm", "dm2">>), For("Replace", <<"dm2", "dm">>)>>}

\* The code of the last command decides nothing: states that differ in it
\* alone are explored once, while every transition is still checked.
View == <<node, acl, callbacks, server, mo>>
=============================================================================
