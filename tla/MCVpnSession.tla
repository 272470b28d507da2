---------------------------- MODULE MCVpnSession ----------------------------
(* Small instances of VpnSession for TLC.                                  *)
EXTENDS VpnSession

\* Whatever mixture of answers one text can hold.
EveryMessage == VpnMessage
=============================================================================
