----------------------------- MODULE MCWorkspace -----------------------------
(* An instance of Workspace for TLC: replies that are whole, cut short,    *)
(* too long for the workspace, go on after their end, or are no message.   *)
EXTENDS Workspace

Sent ==
  {<<"header", "end">>, <<"header", "command", "end">>,
   <<"header", "command", "command">>, <<"header", "end", "junk">>, <<"junk">>,
   <<"header", "command", "command", "command", "end">>}
==============================================================================
