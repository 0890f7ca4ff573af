-------------------------- MODULE BrowserSessionMC --------------------------
(* Small instances of BrowserSession.                                      *)
EXTENDS BrowserSession

CONSTANTS t1, t2, ann, bob, s1, s2

TwoTabs   == {t1, t2}
OneUser   == {ann}
TwoUsers  == {ann, bob}
TwoTokens == {s1, s2}
=============================================================================
