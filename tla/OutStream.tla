----------------------------- MODULE OutStream -----------------------------
(***************************************************************************)
(* What a connection of the mini-redis server promises about its output:   *)
(* the peer receives what was accepted for it, in order and each item      *)
(* once, and the server closes a usable connection only after the last     *)
(* item.  Only a connection that breaks loses output, and then a suffix.   *)
(***************************************************************************)
EXTENDS Naturals, Sequences

VARIABLES
  accepted,   \* everything accepted for the peer, in order
  received,   \* everything the peer has received
  link        \* "up", "closed" by the server, or "broken"

vars == <<accepted, received, link>>

\* t continues s.
Extends(s, t) == Len(s) <= Len(t) /\ \A i \in 1..Len(s) : s[i] = t[i]

Init == accepted = <<>> /\ received = <<>> /\ link = "up"

\* More is accepted, and the peer receives more of what was accepted.
Transfer ==
  /\ link = "up"
  /\ Extends(accepted, accepted')
  /\ Extends(received, received')
  /\ Extends(received', accepted')
  /\ UNCHANGED link

\* Output for a peer that is gone is accepted and lost.
Discard ==
  /\ link = "broken"
  /\ Extends(accepted, accepted')
  /\ UNCHANGED <<received, link>>

Close ==
  /\ link = "up"
  /\ received = accepted
  /\ link' = "closed"
  /\ UNCHANGED <<accepted, received>>

Break ==
  /\ link = "up"
  /\ link' = "broken"
  /\ UNCHANGED <<accepted, received>>

Next == Transfer \/ Discard \/ Close \/ Break

Spec == Init /\ [][Next]_vars
=============================================================================
