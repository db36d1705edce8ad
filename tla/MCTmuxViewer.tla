---------------------------- MODULE MCTmuxViewer ----------------------------
(* Instances of TmuxViewer for TLC: two sessions of one window each, and   *)
(* one window and one pane that may still be created.                      *)
EXTENDS TmuxViewer

CONSTANTS s1, s2, w1, w2, w3, p1, p2, p3, small, large

Tree == [s \in Sessions |->
           [w \in Windows |->
              CASE s = s1 /\ w = w1 -> {p1}
                [] s = s2 /\ w = w2 -> {p2}
                [] OTHER -> {}]]

(* Everyone acts; MaxActs bounds how often in all.                         *)
Everyone == "user" :> 2 @@ "remote" :> 1 @@ "print" :> 2 @@ "switch" :> 1

(* The user types, and the client is switched to another session.          *)
Switching == "user" :> 1 @@ "remote" :> 0 @@ "print" :> 0 @@ "switch" :> 1

=============================================================================
