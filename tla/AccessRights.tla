---------------------------- MODULE AccessRights ----------------------------
(***************************************************************************)
(* Access control lists of the device tree, as dmtree.c reads them.        *)
(*                                                                         *)
(* The text of an ACL, "Add=dm1+dm2&Get=*", is a sequence of entries: a    *)
(* command, and either "*" or the sequence of the server ids it lists.     *)
(* The code searches that text with strstr, so the one thing about an id   *)
(* that matters besides its identity is which other ids its text contains: *)
(* the relation Within.                                                    *)
(***************************************************************************)
EXTENDS Integers, Sequences

CONSTANTS
    Server,     \* server ids that prv_check_server_id accepts
    Within      \* pairs <<s, t>>: the text of s is a proper part of that of t

ASSUME AccessAssumption == Within \subseteq {p \in Server \X Server : p[1] # p[2]}

AclCommand == {"Add", "Get", "Replace", "Exec", "Delete"}
Entry == [cmd : AclCommand \cup {"Unknown"}, all : BOOLEAN, ids : Seq(Server)]
ACL == Seq(Entry)

\* prv_check_acl_syntax, for lists whose ids are well formed: "Get=" without
\* a server and unknown commands are refused; the empty ACL is accepted.
prv_check_acl_syntax(acl) ==
    \A i \in DOMAIN acl : acl[i].cmd \in AclCommand /\ (acl[i].all \/ acl[i].ids # <<>>)

\* Where strstr finds the command first: nowhere, or at one entry.
EntryOf(acl, cmd) ==
    {i \in DOMAIN acl : acl[i].cmd = cmd /\ \A j \in 1 .. i - 1 : acl[j].cmd # cmd}

\* Where strstr finds the id first in a list: in the id itself or in one that
\* contains it.
FirstMatch(ids, s) ==
    {i \in DOMAIN ids : /\ ids[i] = s \/ <<s, ids[i]>> \in Within
                        /\ \A j \in 1 .. i - 1 : ids[j] # s /\ <<s, ids[j]>> \notin Within}

\* Mutant of prv_check_access_rights: the characters around the match are not
\* compared with the separators.
MutantSubstring(acl, cmd, s) ==
    \E i \in EntryOf(acl, cmd) : acl[i].all \/ FirstMatch(acl[i].ids, s) # {}

\* Does the ACL let server s run the command?  The first match must be a
\* whole id; if it is not, the code does not look for another one.
prv_check_access_rights(acl, cmd, s) ==
    \E i \in EntryOf(acl, cmd) :
        acl[i].all \/ \E k \in FirstMatch(acl[i].ids, s) : acl[i].ids[k] = s

\* What prv_check_access_rights leaves of the text it was given: it ends the
\* string where the entry of the command ends.
CutAfter(acl, cmd) ==
    SubSeq(acl, 1, IF EntryOf(acl, cmd) = {} THEN Len(acl)
                   ELSE CHOOSE i \in EntryOf(acl, cmd) : TRUE)

\* What an ACL means: some entry of the command lists the server or everyone.
Granted(acl, cmd, s) ==
    \E i \in DOMAIN acl :
        acl[i].cmd = cmd /\ (acl[i].all \/ \E k \in DOMAIN acl[i].ids : acl[i].ids[k] = s)
=============================================================================
