----------------------------- MODULE TmuxServer -----------------------------
(***************************************************************************)
(* What the client in tmux control mode and the server say to each other,  *)
(* and what the server does with a command, as tmux_viewer.rs, its tests   *)
(* and control.rs assume it.  The server is not part of this repository:   *)
(* it is modelled as far as the Viewer depends on it.                      *)
(*                                                                         *)
(* Abstracted: a layout is the panes of a window and the client's size;    *)
(* what a pane prints is a sequence of numbered outputs, of which the last *)
(* Rows are on the screen; other replies carry no data.                    *)
(***************************************************************************)
EXTENDS Naturals, Sequences, FiniteSets, SequencesExt

CONSTANTS
    Sessions, Windows, Panes,   \* what tmux has and may still create
    Sizes,                      \* sizes a client may declare
    InitialTree,                \* the panes of each window of each session
    Home,                       \* the session the client attaches to
    Rows                        \* how many outputs a pane's screen holds

None == "none"

ASSUME TreeAssumption ==
    /\ InitialTree \in [Sessions -> [Windows -> SUBSET Panes]]
    /\ \A s \in Sessions : \E w \in Windows : InitialTree[s][w] # {}
\* tmux's ids are unique, and no window is linked to two sessions.
ASSUME DistinctAssumption ==
    \A s, z \in Sessions, w, v \in Windows :
        /\ InitialTree[s][w] \cap InitialTree[z][v] # {} => s = z /\ w = v
        /\ InitialTree[s][w] # {} /\ InitialTree[z][w] # {} => s = z
ASSUME HomeAssumption == Home \in Sessions
ASSUME FiniteAssumption == IsFiniteSet(Windows) /\ IsFiniteSet(Panes)
ASSUME RowsAssumption == Rows \in Nat \ {0}
ASSUME NoneAssumption ==
    None \notin Sessions \cup Windows \cup Panes \cup Sizes

-----------------------------------------------------------------------------
(* Commands, replies and notifications.                                    *)

Cmd(op, arg) == [op |-> op, arg |-> arg]
ListWindows == Cmd("list-windows", None)
TmuxVersion == Cmd("display-message", None)
PaneState == Cmd("list-panes", None)
DetachClient == Cmd("detach-client", None)
Attach == Cmd("attach", None)   \* what the first block answers
RefreshClient(z) == Cmd("refresh-client", z)

PaneWrites == {"send-keys", "split-window", "kill-pane", "resize-pane"}

(* The payload of a block: a window list, other text (with the outputs it  *)
(* shows), or nothing at all.                                              *)
WindowList(ws) == [type |-> "windows", windows |-> ws]
Text(s) == [type |-> "text", shows |-> s]
Empty == [type |-> "empty"]
Shows(r) == IF r.type = "text" THEN r.shows ELSE <<>>

Block(cmd, reply) == [kind |-> "block", of |-> cmd, reply |-> reply]
Notify(kind, arg) == [kind |-> kind, arg |-> arg]
LayoutChange(w, l) == [kind |-> "layout-change", arg |-> w, layout |-> l]
Output(p, n) == [kind |-> "output", arg |-> p, data |-> n]

Layout == [panes : SUBSET Panes, size : Sizes \cup {None}]
NoLayout == [panes |-> {}, size |-> None]
NoWindows == [w \in Windows |-> NoLayout]
Present(ws) == {w \in Windows : ws[w].panes # {}}
Leaves(ws) == UNION {ws[w].panes : w \in Windows}

(* What may be said, in either direction.                                  *)
PlainOps == {"list-windows", "display-message", "list-panes", "detach-client",
             "new-window"}
PaneOps == PaneWrites \cup
    {"select-pane", "capture-history", "capture-visible",
     "capture-history-alternate", "capture-visible-alternate"}
Command == [op : PlainOps, arg : {None}] \cup [op : PaneOps, arg : Panes]
           \cup [op : {"kill-window"}, arg : Windows]
           \cup [op : {"refresh-client"}, arg : Sizes]

Reply == [type : {"windows"}, windows : [Windows -> Layout]]
         \cup [type : {"text"}, shows : Seq(Nat)] \cup {Empty}
Event == [kind : {"window-add", "window-close"}, arg : Windows]
         \cup [kind : {"pane-changed"}, arg : Panes]
         \cup [kind : {"session-changed"}, arg : Sessions]
         \cup [kind : {"exit"}, arg : {None}]
         \cup [kind : {"layout-change"}, arg : Windows, layout : Layout]
         \cup [kind : {"output"}, arg : Panes, data : Nat]
Notification == Event
                \cup [kind : {"block"}, of : Command \cup {Attach}, reply : Reply]

-----------------------------------------------------------------------------
(* tmux.  An outcome is the server after the step, the payload of its      *)
(* reply and the notifications that follow it.                             *)

Server == [session : Sessions, tree : [Sessions -> [Windows -> SUBSET Panes]],
           size : Sizes, alive : BOOLEAN, active : [Windows -> Panes \cup {None}],
           printed : [Panes -> Nat], used : SUBSET (Windows \cup Panes)]

Outcome(t, reply, notes) == [tmux |-> t, reply |-> reply, notes |-> notes]
Rejected(t) == Outcome(t, Text(<<>>), <<>>)

LayoutOf(t, w) == [panes |-> t.tree[t.session][w], size |-> t.size]
Listing(t) == [w \in Windows |->
                 IF t.tree[t.session][w] = {} THEN NoLayout ELSE LayoutOf(t, w)]
Alive(t, p) == \E s \in Sessions, w \in Windows : p \in t.tree[s][w]
Place(t, p) == CHOOSE sw \in Sessions \X Windows : p \in t.tree[sw[1]][sw[2]]
WindowOf(t, p) == Place(t, p)[2]

(* Layout and active pane are reported for the client's own session only.  *)
Tell(t, s, notes) == IF s = t.session THEN notes ELSE <<>>

Printed(t, p) == [i \in 1 .. t.printed[p] |-> i]
OnScreen(t, p) ==
    SubSeq(Printed(t, p),
           IF t.printed[p] > Rows THEN t.printed[p] - Rows + 1 ELSE 1,
           t.printed[p])
History(t, p) ==
    SubSeq(Printed(t, p), 1,
           IF t.printed[p] > Rows THEN t.printed[p] - Rows ELSE 0)
TextOf(s) == IF s = <<>> THEN Empty ELSE Text(s)

Splits(t, p) ==
    LET s == Place(t, p)[1]
        w == Place(t, p)[2]
        With(q) == [t EXCEPT !.tree[s][w] = @ \cup {q},
                             !.active[w] = q, !.used = @ \cup {q}]
    IN  {Outcome(With(q), Empty,
                 Tell(t, s, <<LayoutChange(w, LayoutOf(With(q), w)),
                              Notify("pane-changed", q)>>)) : q \in Panes \ t.used}

(* Closing the last window of the client's session ends it; without        *)
(* detach-on-destroy the client is moved to a session that is left.        *)
Closes(t, s, w) ==
    LET rest == [t EXCEPT !.tree[s][w] = {}]
        note == Notify("window-close", w)
        left == {z \in Sessions : \E v \in Windows : rest.tree[z][v] # {}}
    IN  IF s # t.session \/ s \in left
          THEN {Outcome(rest, Empty, <<note>>)}
          ELSE {Outcome([rest EXCEPT !.alive = FALSE], Empty,
                        <<note, Notify("exit", None)>>)}
               \cup {Outcome([rest EXCEPT !.session = z], Empty,
                             <<note, Notify("session-changed", z)>>) : z \in left}

Kills(t, p) ==
    LET s == Place(t, p)[1]
        w == Place(t, p)[2]
        rest == [t EXCEPT !.tree[s][w] = @ \ {p}]
        laid == LayoutChange(w, LayoutOf(rest, w))
    IN  IF rest.tree[s][w] = {}
          THEN Closes(t, s, w)
        ELSE IF t.active[w] # p
          THEN {Outcome(rest, Empty, Tell(t, s, <<laid>>))}
        ELSE {Outcome([rest EXCEPT !.active[w] = q], Empty,
                      Tell(t, s, <<laid, Notify("pane-changed", q)>>)) :
              q \in rest.tree[s][w]}

Opens(t) ==
    {Outcome([t EXCEPT !.tree[t.session][wq[1]] = {wq[2]}, !.active[wq[1]] = wq[2],
                       !.used = @ \cup {wq[1], wq[2]}],
             Empty, <<Notify("window-add", wq[1])>>) :
     wq \in (Windows \ t.used) \X (Panes \ t.used)}

Selects(t, p) ==
    LET w == WindowOf(t, p)
    IN  IF t.active[w] = p
          THEN {Outcome(t, Empty, <<>>)}
          ELSE {Outcome([t EXCEPT !.active[w] = p], Empty,
                        Tell(t, Place(t, p)[1], <<Notify("pane-changed", p)>>))}

Resizes(t, z) ==
    LET now == [t EXCEPT !.size = z]
        some == SetToSeq(Present(Listing(now)))
    IN  {Outcome(now, Empty,
           [i \in DOMAIN some |-> LayoutChange(some[i], LayoutOf(now, some[i]))])}

(* What a command does; one whose target is gone fails.                    *)
Effects(t, c) ==
    CASE c.op = "list-windows" -> {Outcome(t, WindowList(Listing(t)), <<>>)}
      [] c.op \in {"display-message", "list-panes"} ->
           {Outcome(t, Text(<<>>), <<>>)}
      [] c.op = "capture-history" /\ Alive(t, c.arg) ->
           {Outcome(t, TextOf(History(t, c.arg)), <<>>)}
      [] c.op = "capture-visible" /\ Alive(t, c.arg) ->
           {Outcome(t, TextOf(OnScreen(t, c.arg)), <<>>)}
      [] c.op \in {"capture-history-alternate", "capture-visible-alternate",
                   "send-keys"} /\ Alive(t, c.arg) ->
           {Outcome(t, Empty, <<>>)}
      [] c.op = "split-window" /\ Alive(t, c.arg) /\ Panes \ t.used # {} ->
           Splits(t, c.arg)
      [] c.op = "kill-pane" /\ Alive(t, c.arg) -> Kills(t, c.arg)
      [] c.op = "select-pane" /\ Alive(t, c.arg) -> Selects(t, c.arg)
      [] c.op = "resize-pane" /\ Alive(t, c.arg) ->
           LET w == WindowOf(t, c.arg)
           IN  {Outcome(t, Empty, Tell(t, Place(t, c.arg)[1],
                                       <<LayoutChange(w, LayoutOf(t, w))>>))}
      [] c.op = "kill-window"
           /\ \E s \in Sessions : t.tree[s][c.arg] # {} ->
           Closes(t, CHOOSE s \in Sessions : t.tree[s][c.arg] # {}, c.arg)
      [] c.op = "new-window" /\ Opens(t) # {} -> Opens(t)
      [] c.op = "refresh-client" -> Resizes(t, c.arg)
      [] c.op = "detach-client" ->
           {Outcome([t EXCEPT !.alive = FALSE], Empty, <<Notify("exit", None)>>)}
      [] OTHER -> {Rejected(t)}

-----------------------------------------------------------------------------
(* What happens at the server without the client: in its session another   *)
(* client or a shell opens, splits, closes or selects.                     *)
RemoteEffects(t) ==
    LET own == {p \in Panes : \E w \in Windows : p \in t.tree[t.session][w]}
    IN  (UNION {Splits(t, p) \cup Kills(t, p) \cup Selects(t, p) : p \in own})
        \cup (UNION {Closes(t, t.session, w) : w \in Present(Listing(t))})
        \cup Opens(t)

(* The server when the client attaches.                                    *)
Attached ==
    LET all == UNION {InitialTree[s][w] : s \in Sessions, w \in Windows}
        shown(w) == UNION {InitialTree[s][w] : s \in Sessions}
    IN  {[session |-> Home, tree |-> InitialTree, size |-> z, alive |-> TRUE,
          active |-> [w \in Windows |-> IF shown(w) = {} THEN None
                                        ELSE CHOOSE p \in shown(w) : TRUE],
          printed |-> [p \in Panes |-> 0],
          used |-> all \cup {w \in Windows : shown(w) # {}}] :
         z \in Sizes}

=============================================================================
