------------------------------- MODULE MCChat -------------------------------
(* Chat with an own message and two of other senders.                      *)
EXTENDS Chat

CONSTANTS me, s1, s2, m1, m2, m3

Messages == {m1, m2, m3}

Senders == [m \in Messages |-> CASE m = m1 -> me [] m = m2 -> s1 [] m = m3 -> s2]
=============================================================================
