------------------------------ MODULE MCMailbox ------------------------------
(* Instances of Mailbox for TLC: thread names are strings, so that engine   *)
(* can be compared with "free" and "consumer".                              *)
EXTENDS Mailbox
OneSender == {"s1"}
TwoUnlockers == {"u1", "u2"}
Posts == [s1 |-> 1, u1 |-> 2, u2 |-> 1]
TheSyncThreads == {"s1"}
=============================================================================
