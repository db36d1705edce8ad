--------------------------- MODULE MessageChannel ---------------------------
(***************************************************************************)
(* What the termio mailbox promises to the threads that post to it: one    *)
(* consumer takes every accepted message exactly once, in the order the    *)
(* queue accepted them, and at most Capacity accepted messages are waiting *)
(* at any time.  How producers block, release their lock and are woken is  *)
(* the business of Mailbox, which implements this specification.           *)
(***************************************************************************)
EXTENDS Naturals, Sequences

CONSTANTS
    Message,        \* the messages that can be posted
    Capacity        \* how many accepted messages may wait

VARIABLES
    accepted,       \* every message the channel accepted, in order
    taken           \* how many of them the consumer has taken

vars == <<accepted, taken>>

Waiting == SubSeq(accepted, taken + 1, Len(accepted))

Init ==
    /\ accepted = <<>>
    /\ taken = 0

Accept(m) ==
    /\ Len(accepted) - taken < Capacity
    /\ accepted' = Append(accepted, m)
    /\ UNCHANGED taken

(* The consumer always takes everything that waits.                        *)
TakeAll ==
    /\ taken < Len(accepted)
    /\ taken' = Len(accepted)
    /\ UNCHANGED accepted

Next == TakeAll \/ \E m \in Message : Accept(m)

Spec == Init /\ [][Next]_vars
=============================================================================
