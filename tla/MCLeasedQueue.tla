---------------------------- MODULE MCLeasedQueue ----------------------------
(* LeasedQueue for TLC: two message bodies, three consumers. *)
EXTENDS LeasedQueue

Anywhere == {"recovering", "leasing", "holding"}

\* Unique messages, crashes between the pop and the lease too.
UniqueAnywhere == {[copies |-> 1, crash |-> Anywhere]}
=============================================================================
