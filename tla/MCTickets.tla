------------------------------ MODULE MCTickets ------------------------------
(* One email id and one tenant whose labels are edited.  The texts: a VPN     *)
(* case that names two symptoms, which the extractor and the mock client      *)
(* order differently; a VPN client only the mock client recognises; a VPN     *)
(* case with a certificate; one about a password; and one too short to tell.  *)
(* The responses: a confident one that fills gaps and adds a tag, one with an *)
(* intent and tags out of range, and an unsure one.                           *)
EXTENDS Tickets

CONSTANTS w1, w2, bank

MCWorkers == {w1, w2}

Email(intent, confidence, symptom, code, mock) ==
  [intent |-> intent, confidence |-> confidence, symptom |-> symptom, code |-> code, mock |-> mock]
Mock(intent, symptom, code) == [intent |-> intent, symptom |-> symptom, code |-> code]

MCTexts == {
  Email("VPN_ISSUE", 80, "cannot_connect", "619", Mock("VPN_ISSUE", "disconnects", "619")),
  Email("GENERAL", 55, Null, Null, Mock("VPN_ISSUE", Null, Null)),
  Email("VPN_ISSUE", 80, Null, "CERTIFICATE", Mock("VPN_ISSUE", "connects_no_access", Null)),
  Email("PASSWORD_RESET", 80, Null, Null, Mock("PASSWORD_RESET", Null, Null)),
  Email("UNKNOWN", 40, Null, Null, Mock("UNKNOWN", Null, Null)) }

Reply(intent, confidence, symptom, code, tags) ==
  [intent |-> intent, confidence |-> confidence, symptom |-> symptom, code |-> code, tags |-> tags]

MCResponses == {
  Reply("VPN_ISSUE", 90, "disconnects", "619", <<"vpn", "timeout", "error_unknown">>),
  Reply("PRINTER", 95, Null, Blank, <<"printer", "email", "email">>),
  Reply("PASSWORD_RESET", 60, Null, Null, <<"password", "escalated">>) }

Setting(provider, threshold) == [provider |-> provider, threshold |-> threshold]
MCSettings == { Setting("off", 75), Setting("mock", Garbled), Setting("mock", -10),
                Setting("mock", 150), Setting("openai", 75) }

Symmetry == Permutations(MCWorkers)

MCConfigs == {
  [project |-> "BANK", defaults |-> <<"it-support">>,
   map |-> [vpn |-> <<"vpn">>, connectivity |-> <<"bank-network">>, error_619 |-> <<"error-619">>,
            escalated |-> <<"escalated">>]],
  [project |-> "BANK", defaults |-> <<"it-support", "vpn">>,
   map |-> [vpn |-> <<"vpn">>, stability |-> <<"vpn-disconnect", "vpn">>, timeout |-> <<"slow">>,
            certificate |-> <<"pki", Blank>>, password |-> <<"it-support">>]] }
=============================================================================
