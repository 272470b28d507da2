--------------------------- MODULE MCChatSession ---------------------------
(* Small instances of ChatSession for TLC.                                 *)
EXTENDS ChatSession, TLC

CONSTANTS w1, w2

MCWorkers1 == {w1}
MCWorkers2 == {w1, w2}
Symmetry2  == Permutations(MCWorkers2)

\* The texts a user sends: a full description, a description without the
\* error, the error alone, a failure, a success, another topic, a company.
Words(os, code, success, failure) ==
  [os |-> os, client |-> IF os = None THEN None ELSE "AnyConnect",
   symptom |-> IF os = None THEN None ELSE "disconnects", code |-> code,
   success |-> success, failure |-> failure]
Text(vpn, topic, vague, names) ==
  [vpn |-> vpn, topic |-> topic, vague |-> vague, names |-> names]

FullVpn  == Text(Words("windows", "619", FALSE, FALSE), "VPN_ISSUE", FALSE, Unknown)
PartVpn  == Text(Words("windows", None, FALSE, FALSE), "VPN_ISSUE", FALSE, Unknown)
ErrorMsg == Text(Words(None, "619", FALSE, FALSE), "GENERAL", TRUE, Unknown)
Fails    == Text(Words(None, None, FALSE, TRUE), "GENERAL", TRUE, Unknown)
Works    == Text(Words(None, None, TRUE, FALSE), "GENERAL", FALSE, Unknown)
Password == Text(Words(None, None, FALSE, FALSE), "PASSWORD_RESET", FALSE, Unknown)
Company  == Text(Words(None, None, FALSE, FALSE), "GENERAL", FALSE, "bank_demo")

Post(h, b, m) == [header |-> h, body |-> b, message |-> m]

\* With and without a company in the header, a header that names no tenant,
\* and the company as a message of its own.
AllRequests ==
  {Post(h, None, m) : h \in {None, "bank_demo"}, m \in {FullVpn, Fails, Works}}
  \cup {Post(None, None, m) : m \in {PartVpn, ErrorMsg, Password, Company}}
  \cup {Post(Unknown, "bank_demo", Fails), Post(None, "bank_demo", Fails)}

\* What it takes to escalate, to solve and to name the company.
FewRequests ==
  {Post(None, None, m) : m \in {FullVpn, Fails, Works, Company}}
  \cup {Post("bank_demo", None, Fails), Post(Unknown, None, Fails)}
=============================================================================
