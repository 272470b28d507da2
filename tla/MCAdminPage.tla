----------------------------- MODULE MCAdminPage -----------------------------
(* Threads are numbered, so that the first free one can be named.  The      *)
(* pipeline appends a row with an intent; a client lists the newest row.    *)
EXTENDS AdminPage

MCThreads == 1..2
MCOthers  ==
  {[op |-> "append", row |-> [tenant |-> First, event |-> "email_ingested", intent |-> "VPN_ISSUE"]],
   [op |-> "list", tenant |-> First, limit |-> 1, offset |-> 0]}
=============================================================================
