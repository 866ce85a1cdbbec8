----------------------------- MODULE MCSessionLog -----------------------------
(* Small instances of SessionLog.                                          *)
EXTENDS SessionLog

CONSTANTS s1, s2

OneSession == {s1}
OtherSession == {s2}
TwoSessions == {s1, s2}
(* s1 is appended everything, s2, also as a fork of s1, only messages.     *)
KindsOf == (s1 :> {"call", "replace"}) @@ (s2 :> {"message"})
===============================================================================
