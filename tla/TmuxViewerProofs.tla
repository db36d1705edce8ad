-------------------------- MODULE TmuxViewerProofs --------------------------
(***************************************************************************)
(* Proofs about TmuxViewer for any sessions, windows, panes and sizes and  *)
(* any number of acts: its variables keep their types, one command is in   *)
(* flight, the head of the queue, and when all is quiet the Viewer mirrors *)
(* tmux.                                                                   *)
(*                                                                         *)
(* The mirror is proved of what the Viewer will have heard when it has     *)
(* taken all that is on the pty (Final): at every moment that view mirrors *)
(* tmux, but for what the commands that tmux has not executed see to.      *)
(***************************************************************************)
EXTENDS TmuxViewer, FiniteSetTheorems, SequenceTheorems, TLAPS

-----------------------------------------------------------------------------
(* What tmux does with a command is well-formed.                          *)

(* The enumeration of a finite set consists of its elements.               *)
LEMMA Enumeration ==
  ASSUME NEW S, IsFiniteSet(S)
  PROVE  /\ Cardinality(S) \in Nat
         /\ SetToSeq(S) \in [1 .. Cardinality(S) -> S]
         /\ \A x \in S : \E i \in 1 .. Cardinality(S) : SetToSeq(S)[i] = x
  <1>1. Cardinality(S) \in Nat /\ ExistsBijection(1 .. Cardinality(S), S)
    BY FS_CardinalityType
  <1>2. PICK f \in [1 .. Cardinality(S) -> S] : IsInjective(f)
    BY <1>1 DEF ExistsBijection, Bijection, Injection, IsInjective
  <1> DEFINE n == Cardinality(S)
             e == SetToSeq(S)
  <1>3. e \in [1 .. n -> S] /\ IsInjective(e)
    BY <1>1, <1>2 DEF SetToSeq
  <1>4. e \in Injection(1 .. n, S)
    BY <1>3 DEF Injection, IsInjective
  <1>5. Cardinality(1 .. n) = n
    BY <1>1, FS_Interval
  <1> HIDE DEF n, e
  <1>6. e \in Surjection(1 .. n, S)
    BY <1>4, <1>5, FS_Injection DEF n
  <1>7. \A x \in S : \E i \in 1 .. n : e[i] = x
    BY <1>6 DEF Surjection
  <1> QED BY <1>1, <1>3, <1>7 DEF n, e

-----------------------------------------------------------------------------
(* Layouts and events.                                                     *)
LEMMA LayoutsTyped ==
  ASSUME NEW t \in Server, NEW w \in Windows
  PROVE  LayoutOf(t, w) \in Layout
  BY DEF Server, LayoutOf, Layout

LEMMA ListingTyped ==
  ASSUME NEW t \in Server
  PROVE  Listing(t) \in [Windows -> Layout]
  <1>1. NoLayout \in Layout
    BY DEF NoLayout, Layout
  <1> QED BY <1>1, LayoutsTyped DEF Listing

LEMMA EventsTyped ==
  /\ \A w \in Windows : Notify("window-add", w) \in Event
                        /\ Notify("window-close", w) \in Event
  /\ \A p \in Panes : Notify("pane-changed", p) \in Event
  /\ \A s \in Sessions : Notify("session-changed", s) \in Event
  /\ Notify("exit", None) \in Event
  /\ \A w \in Windows, l \in Layout : LayoutChange(w, l) \in Event
  /\ \A p \in Panes, n \in Nat : Output(p, n) \in Event
  BY DEF Notify, LayoutChange, Output, Event

LEMMA TellTyped ==
  ASSUME NEW t, NEW s, NEW notes \in Seq(Event)
  PROVE  Tell(t, s, notes) \in Seq(Event)
  BY DEF Tell

(* A pane that is alive is in the place that Place gives.                  *)
LEMMA PlaceTyped ==
  ASSUME NEW t \in Server, NEW p \in Panes, Alive(t, p)
  PROVE  /\ Place(t, p)[1] \in Sessions
         /\ Place(t, p)[2] \in Windows
         /\ p \in t.tree[Place(t, p)[1]][Place(t, p)[2]]
  <1>1. PICK s \in Sessions, w \in Windows : p \in t.tree[s][w]
    BY DEF Alive
  <1>2. <<s, w>> \in Sessions \X Windows /\ p \in t.tree[<<s, w>>[1]][<<s, w>>[2]]
    BY <1>1
  <1>3. /\ Place(t, p) \in Sessions \X Windows
        /\ p \in t.tree[Place(t, p)[1]][Place(t, p)[2]]
    BY <1>2 DEF Place
  <1> QED BY <1>3

(* What a pane has printed, on its screen and above it.                    *)
LEMMA TextsTyped ==
  ASSUME NEW t \in Server, NEW p \in Panes
  PROVE  TextOf(OnScreen(t, p)) \in Reply /\ TextOf(History(t, p)) \in Reply
  <1> DEFINE n == t.printed[p]
             first == IF n > Rows THEN n - Rows + 1 ELSE 1
             last == IF n > Rows THEN n - Rows ELSE 0
  <1>1. n \in Nat /\ first \in Int /\ last \in Int /\ first >= 1 /\ last <= n
    BY RowsAssumption DEF Server
  <1>2. \A i \in 1 .. n : Printed(t, p)[i] \in Nat
    BY <1>1 DEF Printed
  <1>3. OnScreen(t, p) = SubSeq(Printed(t, p), first, n)
        /\ History(t, p) = SubSeq(Printed(t, p), 1, last)
    BY DEF OnScreen, History
  <1> HIDE DEF first, last, n
  <1>4. (\A i \in first .. n : Printed(t, p)[i] \in Nat)
        /\ (\A i \in 1 .. last : Printed(t, p)[i] \in Nat)
    BY <1>1, <1>2
  <1>5. SubSeq(Printed(t, p), first, n) \in Seq(Nat)
    BY <1>1, <1>4, SubSeqProperties
  <1>6. SubSeq(Printed(t, p), 1, last) \in Seq(Nat)
    BY <1>1, <1>4, SubSeqProperties
  <1> QED BY <1>3, <1>5, <1>6 DEF TextOf, Text, Reply, Empty

-----------------------------------------------------------------------------
(* What a step of tmux may come to.                                        *)
Outcomes == [tmux : Server, reply : Reply, notes : Seq(Event)]

LEMMA OutcomeTyped ==
  ASSUME NEW t \in Server, NEW reply \in Reply, NEW notes \in Seq(Event)
  PROVE  Outcome(t, reply, notes) \in Outcomes
  BY DEF Outcome, Outcomes

LEMMA RepliesTyped ==
  Empty \in Reply /\ Text(<<>>) \in Reply
  BY DEF Empty, Text, Reply

LEMMA FailureTyped ==
  ASSUME NEW t \in Server
  PROVE  Rejected(t) \in Outcomes
  <1>1. <<>> \in Seq(Event)
    OBVIOUS
  <1> QED BY <1>1, OutcomeTyped, RepliesTyped DEF Rejected

(* A change of one window leaves a server.                                 *)
LEMMA WindowUpdated ==
  ASSUME NEW t \in Server, NEW s \in Sessions, NEW w \in Windows,
         NEW ps \in SUBSET Panes
  PROVE  /\ [t EXCEPT !.tree[s][w] = ps] \in Server
         /\ \A q \in Panes, us \in SUBSET (Windows \cup Panes) :
              [t EXCEPT !.tree[s][w] = ps, !.active[w] = q, !.used = us] \in Server
  <1> DEFINE tree == [t.tree EXCEPT ![s][w] = ps]
             now == [t EXCEPT !.tree = tree]
  <1>1. tree \in [Sessions -> [Windows -> SUBSET Panes]] /\ tree[s][w] = ps
    BY DEF Server
  <1>2. now \in Server /\ now.tree = tree
    <2> HIDE DEF tree
    <2> QED BY <1>1 DEF Server
  <1>3. \A q \in Panes, us \in SUBSET (Windows \cup Panes) :
          [now EXCEPT !.active[w] = q, !.used = us] \in Server
    <2> HIDE DEF now
    <2> QED BY <1>2 DEF Server
  <1>4. now = [t EXCEPT !.tree[s][w] = ps]
    OBVIOUS
  <1> QED BY <1>1, <1>2, <1>3, <1>4

LEMMA SplitsTyped ==
  ASSUME NEW t \in Server, NEW p \in Panes, Alive(t, p)
  PROVE  Splits(t, p) \subseteq Outcomes
  <1> DEFINE s == Place(t, p)[1]
             w == Place(t, p)[2]
             With(q) == [t EXCEPT !.tree[s][w] = @ \cup {q},
                                  !.active[w] = q, !.used = @ \cup {q}]
             notes(q) == <<LayoutChange(w, LayoutOf(With(q), w)),
                           Notify("pane-changed", q)>>
  <1>1. s \in Sessions /\ w \in Windows
    BY PlaceTyped
  <1>2. ASSUME NEW q \in Panes PROVE With(q) \in Server
    <2>1. t.tree[s][w] \cup {q} \in SUBSET Panes
          /\ t.used \cup {q} \in SUBSET (Windows \cup Panes)
      BY <1>1 DEF Server
    <2> HIDE DEF s, w
    <2> QED BY <1>1, <2>1, WindowUpdated
  <1>3. ASSUME NEW q \in Panes PROVE Tell(t, s, notes(q)) \in Seq(Event)
    <2>1. LayoutOf(With(q), w) \in Layout
      BY <1>1, <1>2, LayoutsTyped
    <2> HIDE DEF With, s, w
    <2>2. notes(q) \in Seq(Event)
      BY <1>1, <2>1, EventsTyped
    <2> HIDE DEF notes
    <2> QED BY <2>2, TellTyped
  <1>4. ASSUME NEW q \in Panes
        PROVE  Outcome(With(q), Empty, Tell(t, s, notes(q))) \in Outcomes
    <2> HIDE DEF With, notes, s
    <2> QED BY <1>2, <1>3, OutcomeTyped, RepliesTyped
  <1>5. Splits(t, p) = {Outcome(With(q), Empty, Tell(t, s, notes(q))) :
                        q \in Panes \ t.used}
    BY DEF Splits
  <1> HIDE DEF With, notes, s, w
  <1> QED BY <1>4, <1>5

LEMMA ClosesTyped ==
  ASSUME NEW t \in Server, NEW s \in Sessions, NEW w \in Windows
  PROVE  Closes(t, s, w) \subseteq Outcomes
  <1> DEFINE rest == [t EXCEPT !.tree[s][w] = {}]
             note == Notify("window-close", w)
             left == {z \in Sessions : \E v \in Windows : rest.tree[z][v] # {}}
  <1>1. rest \in Server /\ [rest EXCEPT !.alive = FALSE] \in Server
        /\ \A z \in left : [rest EXCEPT !.session = z] \in Server
    BY DEF Server
  <1>2. <<note>> \in Seq(Event) /\ <<note, Notify("exit", None)>> \in Seq(Event)
        /\ \A z \in left : <<note, Notify("session-changed", z)>> \in Seq(Event)
    BY EventsTyped
  <1>3. Outcome(rest, Empty, <<note>>) \in Outcomes
    BY <1>1, <1>2, OutcomeTyped, RepliesTyped
  <1>4. Outcome([rest EXCEPT !.alive = FALSE], Empty,
                <<note, Notify("exit", None)>>) \in Outcomes
    BY <1>1, <1>2, OutcomeTyped, RepliesTyped
  <1>5. \A z \in left : Outcome([rest EXCEPT !.session = z], Empty,
                                <<note, Notify("session-changed", z)>>) \in Outcomes
    BY <1>1, <1>2, OutcomeTyped, RepliesTyped
  <1> QED BY <1>3, <1>4, <1>5 DEF Closes

LEMMA KillsTyped ==
  ASSUME NEW t \in Server, NEW p \in Panes, Alive(t, p)
  PROVE  Kills(t, p) \subseteq Outcomes
  <1> DEFINE s == Place(t, p)[1]
             w == Place(t, p)[2]
             rest == [t EXCEPT !.tree[s][w] = @ \ {p}]
             laid == LayoutChange(w, LayoutOf(rest, w))
             after(q) == [rest EXCEPT !.active[w] = q]
             notes(q) == Tell(t, s, <<laid, Notify("pane-changed", q)>>)
  <1>1. s \in Sessions /\ w \in Windows
    BY PlaceTyped
  <1>2. rest \in Server /\ rest.tree[s][w] = t.tree[s][w] \ {p}
        /\ t.tree[s][w] \ {p} \in SUBSET Panes
    <2> DEFINE ps == t.tree[s][w] \ {p}
    <2>1. ps \in SUBSET Panes
      BY <1>1 DEF Server
    <2>2. rest = [t EXCEPT !.tree[s][w] = ps]
      OBVIOUS
    <2>3. [t EXCEPT !.tree[s][w] = ps] \in Server
      <3> HIDE DEF ps, s, w
      <3> QED BY <1>1, <2>1, WindowUpdated
    <2>4. [t EXCEPT !.tree[s][w] = ps].tree[s][w] = ps
      <3> HIDE DEF ps, s, w
      <3> QED BY <1>1 DEF Server
    <2> HIDE DEF rest, s, w
    <2> QED BY <2>1, <2>2, <2>3, <2>4
  <1>11. \A q \in Panes : after(q) \in Server
    <2> HIDE DEF w, rest
    <2> QED BY <1>1, <1>2 DEF Server
  <1>3. laid \in Event
    BY <1>1, <1>2, LayoutsTyped, EventsTyped
  <1>4. Tell(t, s, <<laid>>) \in Seq(Event)
    <2> HIDE DEF laid, s
    <2>1. <<laid>> \in Seq(Event)
      BY <1>3
    <2> QED BY <2>1, TellTyped
  <1>5. ASSUME NEW q \in Panes PROVE notes(q) \in Seq(Event)
    <2> HIDE DEF laid, s
    <2>1. <<laid, Notify("pane-changed", q)>> \in Seq(Event)
      BY <1>3, EventsTyped
    <2> QED BY <2>1, TellTyped
  <1>6. rest.tree[s][w] \subseteq Panes
    BY <1>2
  <1>7. Closes(t, s, w) \subseteq Outcomes
    BY <1>1, ClosesTyped
  <1>8. Outcome(rest, Empty, Tell(t, s, <<laid>>)) \in Outcomes
    BY <1>2, <1>4, OutcomeTyped, RepliesTyped
  <1>9. \A q \in Panes : Outcome(after(q), Empty, notes(q)) \in Outcomes
    BY <1>11, <1>5, OutcomeTyped, RepliesTyped
  <1>10. Kills(t, p) = IF rest.tree[s][w] = {} THEN Closes(t, s, w)
                       ELSE IF t.active[w] # p
                         THEN {Outcome(rest, Empty, Tell(t, s, <<laid>>))}
                       ELSE {Outcome(after(q), Empty, notes(q)) : q \in rest.tree[s][w]}
    BY DEF Kills
  <1> HIDE DEF s, w, rest, laid, after, notes
  <1> QED BY <1>6, <1>7, <1>8, <1>9, <1>10

LEMMA OpensTyped ==
  ASSUME NEW t \in Server
  PROVE  Opens(t) \subseteq Outcomes
  <1> DEFINE now(w, q) == [t EXCEPT !.tree[t.session][w] = {q}, !.active[w] = q,
                                    !.used = @ \cup {w, q}]
  <1>1. ASSUME NEW w \in Windows, NEW q \in Panes
        PROVE  Outcome(now(w, q), Empty, <<Notify("window-add", w)>>) \in Outcomes
    <2>1. now(w, q) \in Server
      BY DEF Server
    <2>2. <<Notify("window-add", w)>> \in Seq(Event)
      BY EventsTyped
    <2> QED BY <2>1, <2>2, OutcomeTyped, RepliesTyped
  <1>2. Opens(t) = {Outcome(now(wq[1], wq[2]), Empty, <<Notify("window-add", wq[1])>>) :
                    wq \in (Windows \ t.used) \X (Panes \ t.used)}
    BY DEF Opens
  <1> HIDE DEF now
  <1> QED BY <1>1, <1>2

LEMMA SelectsTyped ==
  ASSUME NEW t \in Server, NEW p \in Panes, Alive(t, p)
  PROVE  Selects(t, p) \subseteq Outcomes
  <1> DEFINE w == Place(t, p)[2]
             s == Place(t, p)[1]
  <1>1. w \in Windows
    BY PlaceTyped
  <1>2. [t EXCEPT !.active[w] = p] \in Server
    <2> HIDE DEF w
    <2> QED BY <1>1 DEF Server
  <1>3. <<Notify("pane-changed", p)>> \in Seq(Event) /\ <<>> \in Seq(Event)
    BY EventsTyped
  <1>4. Tell(t, s, <<Notify("pane-changed", p)>>) \in Seq(Event)
    BY <1>3, TellTyped
  <1>5. Outcome(t, Empty, <<>>) \in Outcomes
    BY <1>3, OutcomeTyped, RepliesTyped
  <1>6. Outcome([t EXCEPT !.active[w] = p], Empty,
                Tell(t, s, <<Notify("pane-changed", p)>>)) \in Outcomes
    BY <1>2, <1>4, OutcomeTyped, RepliesTyped
  <1> QED BY <1>5, <1>6 DEF Selects, WindowOf

LEMMA ResizesTyped ==
  ASSUME NEW t \in Server, NEW z \in Sizes
  PROVE  Resizes(t, z) \subseteq Outcomes
  <1> DEFINE now == [t EXCEPT !.size = z]
             some == SetToSeq(Present(Listing(now)))
             notes == [i \in DOMAIN some |-> LayoutChange(some[i], LayoutOf(now, some[i]))]
  <1>1. now \in Server
    BY DEF Server
  <1>2. Present(Listing(now)) \subseteq Windows /\ IsFiniteSet(Present(Listing(now)))
    BY FiniteAssumption, FS_Subset DEF Present
  <1>3. /\ Cardinality(Present(Listing(now))) \in Nat
        /\ some \in [1 .. Cardinality(Present(Listing(now))) -> Windows]
    <2> HIDE DEF now
    <2> QED BY <1>2, Enumeration
  <1>4. ASSUME NEW i \in DOMAIN some
        PROVE  LayoutChange(some[i], LayoutOf(now, some[i])) \in Event
    <2> HIDE DEF now, some
    <2>1. some[i] \in Windows
      BY <1>3
    <2> QED BY <1>1, <2>1, LayoutsTyped, EventsTyped
  <1>5. notes \in Seq(Event)
    <2> DEFINE n == Cardinality(Present(Listing(now)))
    <2>1. n \in Nat /\ DOMAIN some = 1 .. n
      BY <1>3
    <2>2. notes \in [1 .. n -> Event]
      <3> HIDE DEF some, now, n
      <3> QED BY <1>4, <2>1
    <2> HIDE DEF notes, n
    <2> QED BY <2>1, <2>2
  <1>6. Outcome(now, Empty, notes) \in Outcomes
    <2> HIDE DEF now, notes
    <2> QED BY <1>1, <1>5, OutcomeTyped, RepliesTyped
  <1>7. Resizes(t, z) = {Outcome(now, Empty, notes)}
    BY DEF Resizes
  <1> QED BY <1>6, <1>7

-----------------------------------------------------------------------------
(* A reply that says no more than that the command was executed.           *)
LEMMA AnswersTyped ==
  ASSUME NEW t \in Server
  PROVE  /\ Outcome(t, Empty, <<>>) \in Outcomes
         /\ Outcome(t, WindowList(Listing(t)), <<>>) \in Outcomes
         /\ Outcome(t, Text(<<>>), <<>>) \in Outcomes
         /\ \A p \in Panes : /\ Outcome(t, TextOf(History(t, p)), <<>>) \in Outcomes
                             /\ Outcome(t, TextOf(OnScreen(t, p)), <<>>) \in Outcomes
  <1>1. <<>> \in Seq(Event)
    OBVIOUS
  <1>2. WindowList(Listing(t)) \in Reply
    BY ListingTyped DEF WindowList, Reply
  <1> QED BY <1>1, <1>2, OutcomeTyped, RepliesTyped, TextsTyped

(* The commands by what they are about.                                    *)
LEMMA CommandCases ==
  ASSUME NEW c \in Command
  PROVE  \/ c.op \in PlainOps
         \/ c.op \in PaneOps /\ c.arg \in Panes
         \/ c.op = "kill-window" /\ c.arg \in Windows
         \/ c.op = "refresh-client" /\ c.arg \in Sizes
  BY DEF Command

(* Whatever tmux does with a command of the client is well-formed.         *)
LEMMA EffectsTyped ==
  ASSUME NEW t \in Server, NEW c \in Command
  PROVE  Effects(t, c) \subseteq Outcomes
  <1>1. CASE c.op = "list-windows"
    BY <1>1, AnswersTyped DEF Effects
  <1>2. CASE c.op \in {"display-message", "list-panes"}
    BY <1>2, AnswersTyped DEF Effects
  <1>3. CASE c.op = "detach-client"
    <2>1. [t EXCEPT !.alive = FALSE] \in Server
      BY DEF Server
    <2>2. <<Notify("exit", None)>> \in Seq(Event)
      BY EventsTyped
    <2>3. Outcome([t EXCEPT !.alive = FALSE], Empty, <<Notify("exit", None)>>)
            \in Outcomes
      BY <2>1, <2>2, OutcomeTyped, RepliesTyped
    <2> QED BY <1>3, <2>3 DEF Effects
  <1>4. CASE c.op = "new-window"
    BY <1>4, OpensTyped, FailureTyped DEF Effects
  <1>5. CASE c.op \in PaneOps /\ c.arg \in Panes
    <2>1. CASE ~Alive(t, c.arg)
      BY <1>5, <2>1, FailureTyped DEF Effects, PaneOps, PaneWrites
    <2>2. CASE Alive(t, c.arg)
      <3>1. CASE c.op = "capture-history" \/ c.op = "capture-visible"
        BY <1>5, <2>2, <3>1, AnswersTyped DEF Effects
      <3>2. CASE c.op \in {"capture-history-alternate",
                           "capture-visible-alternate", "send-keys"}
        BY <1>5, <2>2, <3>2, AnswersTyped DEF Effects
      <3>3. CASE c.op = "split-window"
        BY <1>5, <2>2, <3>3, SplitsTyped, FailureTyped DEF Effects
      <3>4. CASE c.op = "kill-pane"
        BY <1>5, <2>2, <3>4, KillsTyped DEF Effects
      <3>5. CASE c.op = "select-pane"
        BY <1>5, <2>2, <3>5, SelectsTyped DEF Effects
      <3>6. CASE c.op = "resize-pane"
        <4> DEFINE w == WindowOf(t, c.arg)
                   laid == <<LayoutChange(w, LayoutOf(t, w))>>
        <4>1. w \in Windows
          BY <1>5, <2>2, PlaceTyped DEF WindowOf
        <4>2. laid \in Seq(Event)
          BY <4>1, LayoutsTyped, EventsTyped
        <4>3. Tell(t, Place(t, c.arg)[1], laid) \in Seq(Event)
          BY <4>2, TellTyped
        <4>4. Outcome(t, Empty, Tell(t, Place(t, c.arg)[1], laid)) \in Outcomes
          BY <4>3, OutcomeTyped, RepliesTyped
        <4> QED BY <1>5, <2>2, <3>6, <4>4 DEF Effects
      <3> QED BY <1>5, <3>1, <3>2, <3>3, <3>4, <3>5, <3>6 DEF PaneOps, PaneWrites
    <2> QED BY <2>1, <2>2
  <1>6. CASE c.op = "kill-window" /\ c.arg \in Windows
    <2>1. CASE \E s \in Sessions : t.tree[s][c.arg] # {}
      <3>1. (CHOOSE s \in Sessions : t.tree[s][c.arg] # {}) \in Sessions
        BY <2>1
      <3>2. Closes(t, CHOOSE s \in Sessions : t.tree[s][c.arg] # {}, c.arg)
              \subseteq Outcomes
        BY <1>6, <3>1, ClosesTyped
      <3> QED BY <1>6, <2>1, <3>2 DEF Effects
    <2>2. CASE ~\E s \in Sessions : t.tree[s][c.arg] # {}
      BY <1>6, <2>2, FailureTyped DEF Effects
    <2> QED BY <2>1, <2>2
  <1>7. CASE c.op = "refresh-client" /\ c.arg \in Sizes
    BY <1>7, ResizesTyped DEF Effects
  <1> QED
    BY <1>1, <1>2, <1>3, <1>4, <1>5, <1>6, <1>7, CommandCases DEF PlainOps

(* So is what other clients do.                                            *)
LEMMA RemoteTyped ==
  ASSUME NEW t \in Server
  PROVE  RemoteEffects(t) \subseteq Outcomes
  <1> DEFINE own == {p \in Panes : \E w \in Windows : p \in t.tree[t.session][w]}
  <1>1. ASSUME NEW p \in own
        PROVE  Splits(t, p) \cup Kills(t, p) \cup Selects(t, p) \subseteq Outcomes
    <2>1. p \in Panes /\ Alive(t, p)
      BY DEF Alive, Server
    <2> QED BY <2>1, SplitsTyped, KillsTyped, SelectsTyped
  <1>2. ASSUME NEW w \in Present(Listing(t))
        PROVE  Closes(t, t.session, w) \subseteq Outcomes
    <2>1. w \in Windows /\ t.session \in Sessions
      BY DEF Present, Server
    <2> QED BY <2>1, ClosesTyped
  <1>3. Opens(t) \subseteq Outcomes
    BY OpensTyped
  <1>4. RemoteEffects(t) =
          (UNION {Splits(t, p) \cup Kills(t, p) \cup Selects(t, p) : p \in own})
          \cup (UNION {Closes(t, t.session, w) : w \in Present(Listing(t))})
          \cup Opens(t)
    BY DEF RemoteEffects
  <1> HIDE DEF own
  <1> QED BY <1>1, <1>2, <1>3, <1>4

(* The server a client attaches to is a server.                            *)
LEMMA AttachedTyped == Attached \subseteq Server
  <1> DEFINE shown(w) == UNION {InitialTree[s][w] : s \in Sessions}
  <1>1. \A w \in Windows : shown(w) \subseteq Panes
    BY TreeAssumption
  <1>2. [w \in Windows |-> IF shown(w) = {} THEN None
                           ELSE CHOOSE p \in shown(w) : TRUE]
          \in [Windows -> Panes \cup {None}]
    BY <1>1
  <1>3. UNION {InitialTree[s][w] : s \in Sessions, w \in Windows} \subseteq Panes
    BY TreeAssumption
  <1>4. [p \in Panes |-> 0] \in [Panes -> Nat]
    OBVIOUS
  <1> SUFFICES ASSUME NEW t \in Attached PROVE t \in Server
    OBVIOUS
  <1>5. PICK z \in Sizes :
          t = [session |-> Home, tree |-> InitialTree, size |-> z, alive |-> TRUE,
               active |-> [w \in Windows |-> IF shown(w) = {} THEN None
                                             ELSE CHOOSE p \in shown(w) : TRUE],
               printed |-> [p \in Panes |-> 0],
               used |-> (UNION {InitialTree[s][w] : s \in Sessions, w \in Windows})
                        \cup {w \in Windows : shown(w) # {}}]
    BY DEF Attached
  <1> HIDE DEF shown
  <1> QED BY <1>2, <1>3, <1>4, <1>5, TreeAssumption, HomeAssumption DEF Server

-----------------------------------------------------------------------------
(* Types, and the command in flight.                                       *)


(* The replies among the notifications s, and that c is the only command   *)
(* they answer.                                                            *)
Answers(s) == {i \in DOMAIN s : IsReply(s[i])}
OnlyAnswers(s, c) == \E i \in DOMAIN s : Answers(s) = {i} /\ s[i].of = c

(* OneInFlight without its condition, of any queue q, commands cs about to *)
(* be written, commands pty written and notifications s.                   *)
InFlight(q, cs, pty, s) ==
    IF q = <<>>
      THEN cs = <<>> /\ pty = <<>> /\ Answers(s) = {}
      ELSE \/ cs = <<Head(q)>> /\ pty = <<>> /\ Answers(s) = {}
           \/ cs = <<>> /\ pty = <<Head(q)>> /\ Answers(s) = {}
           \/ cs = <<>> /\ pty = <<>> /\ OnlyAnswers(s, Head(q))

(* Before the steady state nothing has been asked, and the size to declare *)
(* is known.                                                               *)
StartupInv ==
    state \in {"StartupBlock", "StartupSession"} =>
        /\ queue = <<>> /\ commands = <<>> /\ toTmux = <<>>
        /\ Answers(fromTmux) = {}
        /\ ~changed
        /\ clientSize \in Sizes

(* The block that answers the attach is the first thing taken.             *)
IsAttach(n) == n.kind = "block" /\ n.of = Attach
AttachInv ==
    /\ state = "StartupBlock" => fromTmux # <<>> /\ IsAttach(Head(fromTmux))
    /\ \A i \in DOMAIN fromTmux :
         IsAttach(fromTmux[i]) => i = 1 /\ state = "StartupBlock"

FlightInv == state = "CommandQueue" /\ ~raced =>
               InFlight(queue, commands, toTmux, fromTmux)

(* The inductive invariant.                                                *)
IInv == TypeOK /\ StartupInv /\ AttachInv /\ FlightInv

-----------------------------------------------------------------------------
(* Replies in a sequence of notifications.                                 *)

LEMMA FlightIsOne == FlightInv => OneInFlight
  BY DEF FlightInv, OneInFlight, InFlight, Replies, Answers, OnlyAnswers

LEMMA EventsAnswerNothing ==
  \A n \in Event : ~IsReply(n) /\ ~IsAttach(n) /\ n \in Notification
  BY DEF Event, IsReply, IsAttach, Notification

LEMMA CommandsAreNotAttach == Attach \notin Command
  BY DEF Command, Attach, Cmd, PlainOps, PaneOps, PaneWrites

(* Events appended to the notifications are no replies.                    *)
LEMMA EventsAppended ==
  ASSUME NEW s \in Seq(Notification), NEW notes \in Seq(Event)
  PROVE  /\ s \o notes \in Seq(Notification)
         /\ Answers(s \o notes) = Answers(s)
         /\ \A c : OnlyAnswers(s, c) => OnlyAnswers(s \o notes, c)
         /\ \A i \in DOMAIN (s \o notes) :
              IsAttach((s \o notes)[i]) => i \in DOMAIN s /\ IsAttach(s[i])
         /\ s # <<>> => s \o notes # <<>> /\ Head(s \o notes) = Head(s)
  <1>1. notes \in Seq(Notification)
    BY EventsAnswerNothing, SeqMonotonic
  <1>2. /\ s \o notes \in Seq(Notification)
        /\ Len(s \o notes) = Len(s) + Len(notes)
        /\ \A i \in 1 .. Len(s) : (s \o notes)[i] = s[i]
        /\ \A i \in Len(s) + 1 .. Len(s) + Len(notes) : (s \o notes)[i] \in Event
    BY <1>1
  <1>3. DOMAIN s = 1 .. Len(s) /\ DOMAIN (s \o notes) = 1 .. Len(s) + Len(notes)
        /\ Len(s) \in Nat /\ Len(notes) \in Nat
    BY <1>1, <1>2
  <1> DEFINE both == s \o notes
  <1> HIDE DEF both
  <1>4. \A i \in DOMAIN both : i \in DOMAIN s \/ both[i] \in Event
    BY <1>2, <1>3 DEF both
  <1>5. Answers(both) = Answers(s)
    BY <1>2, <1>3, <1>4, EventsAnswerNothing DEF Answers, both
  <1>6. \A c : OnlyAnswers(s, c) => OnlyAnswers(both, c)
    BY <1>2, <1>3, <1>5 DEF OnlyAnswers, both
  <1>7. \A i \in DOMAIN both : IsAttach(both[i]) => i \in DOMAIN s /\ IsAttach(s[i])
    BY <1>2, <1>3, <1>4, EventsAnswerNothing DEF both
  <1>8. s # <<>> => both # <<>> /\ Head(both) = Head(s)
    BY <1>2, <1>3 DEF both
  <1> QED BY <1>2, <1>5, <1>6, <1>7, <1>8 DEF both

(* The reply to a command, appended, is the only one if there was none.    *)
LEMMA ReplyAppended ==
  ASSUME NEW s \in Seq(Notification), NEW c \in Command, NEW r \in Reply
  PROVE  LET t == s \o <<Block(c, r)>>
         IN  /\ t \in Seq(Notification)
             /\ Answers(s) = {} => OnlyAnswers(t, c)
             /\ \A i \in DOMAIN t : IsAttach(t[i]) => i \in DOMAIN s /\ IsAttach(s[i])
             /\ s # <<>> => t # <<>> /\ Head(t) = Head(s)
  <1> DEFINE b == Block(c, r)
             t == s \o <<b>>
  <1>1. b \in Notification /\ IsReply(b) /\ ~IsAttach(b) /\ b.of = c
    BY CommandsAreNotAttach DEF Block, Notification, IsReply, IsAttach
  <1> HIDE DEF b
  <1>2. /\ t \in Seq(Notification)
        /\ Len(t) = Len(s) + 1 /\ Len(s) \in Nat
        /\ DOMAIN t = 1 .. Len(s) + 1 /\ DOMAIN s = 1 .. Len(s)
        /\ \A i \in 1 .. Len(s) : t[i] = s[i]
        /\ t[Len(s) + 1] = b
    BY <1>1
  <1> HIDE DEF t
  <1>3. ASSUME Answers(s) = {} PROVE OnlyAnswers(t, c)
    <2>1. Answers(t) = {Len(s) + 1}
      BY <1>1, <1>2, <1>3 DEF Answers
    <2> QED BY <1>1, <1>2, <2>1 DEF OnlyAnswers
  <1>4. \A i \in DOMAIN t : IsAttach(t[i]) => i \in DOMAIN s /\ IsAttach(s[i])
    BY <1>1, <1>2
  <1>5. s # <<>> => t # <<>> /\ Head(t) = Head(s)
    BY <1>2
  <1> QED BY <1>2, <1>3, <1>4, <1>5 DEF t, b

(* Taking a notification that is no reply leaves the replies; taking the   *)
(* only one leaves none.                                                   *)
LEMMA FirstTaken ==
  ASSUME NEW s \in Seq(Notification), s # <<>>
  PROVE  /\ Tail(s) \in Seq(Notification)
         /\ Answers(s) = {} => Answers(Tail(s)) = {}
         /\ ~IsReply(Head(s)) => \A c : OnlyAnswers(s, c) => OnlyAnswers(Tail(s), c)
         /\ IsReply(Head(s)) => Answers(s) # {}
         /\ \A c : IsReply(Head(s)) /\ OnlyAnswers(s, c) => Answers(Tail(s)) = {}
         /\ \A i \in DOMAIN Tail(s) : Tail(s)[i] = s[i + 1] /\ i + 1 \in DOMAIN s
  <1> DEFINE t == Tail(s)
  <1>1. /\ t \in Seq(Notification) /\ Head(s) = s[1]
        /\ Len(s) \in Nat /\ Len(s) >= 1
        /\ DOMAIN s = 1 .. Len(s) /\ DOMAIN t = 1 .. Len(s) - 1
        /\ \A i \in 1 .. Len(s) - 1 : t[i] = s[i + 1]
    OBVIOUS
  <1> HIDE DEF t
  <1>2. Answers(s) = {} => Answers(t) = {}
    BY <1>1 DEF Answers
  <1>3. ASSUME ~IsReply(Head(s)), NEW c, OnlyAnswers(s, c)
        PROVE  OnlyAnswers(t, c)
    <2>1. PICK i \in DOMAIN s : Answers(s) = {i} /\ s[i].of = c
      BY <1>3 DEF OnlyAnswers
    <2>0. i # 1
      BY <1>1, <1>3, <2>1 DEF Answers
    <2>2. i \in Int /\ i - 1 \in DOMAIN t /\ t[i - 1] = s[i]
      BY <1>1, <2>0
    <2>3. \A j \in DOMAIN t : IsReply(t[j]) <=> j = i - 1
      <3>1. SUFFICES ASSUME NEW j \in DOMAIN t
                     PROVE  IsReply(t[j]) <=> j = i - 1
        OBVIOUS
      <3>2. t[j] = s[j + 1] /\ j + 1 \in DOMAIN s /\ j \in Int
        BY <1>1
      <3>3. IsReply(s[j + 1]) <=> j + 1 = i
        BY <2>1, <3>2 DEF Answers
      <3> QED BY <2>2, <3>2, <3>3
    <2>4. Answers(t) = {i - 1}
      BY <2>2, <2>3 DEF Answers
    <2> QED BY <2>1, <2>2, <2>4 DEF OnlyAnswers
  <1>4. IsReply(Head(s)) => 1 \in Answers(s)
    BY <1>1 DEF Answers
  <1>5. ASSUME NEW c, IsReply(Head(s)), OnlyAnswers(s, c) PROVE Answers(t) = {}
    <2>1. Answers(s) = {1}
      BY <1>4, <1>5 DEF OnlyAnswers
    <2> QED BY <1>1, <2>1 DEF Answers
  <1> QED BY <1>1, <1>2, <1>3, <1>4, <1>5 DEF t

-----------------------------------------------------------------------------
(* What the Viewer asks for is a command.                                  *)

LEMMA CommandsTyped ==
  /\ ListWindows \in Command /\ TmuxVersion \in Command
  /\ PaneState \in Command /\ DetachClient \in Command
  /\ Cmd("new-window", None) \in Command
  /\ \A op \in PaneOps, p \in Panes : Cmd(op, p) \in Command
  /\ \A w \in Windows : Cmd("kill-window", w) \in Command
  /\ \A z \in Sizes : RefreshClient(z) \in Command
  BY DEF ListWindows, TmuxVersion, PaneState, DetachClient, RefreshClient, Cmd,
         Command, PlainOps

LEMMA LeavesTyped ==
  ASSUME NEW ws \in [Windows -> Layout]
  PROVE  Leaves(ws) \subseteq Panes
  BY DEF Leaves, Layout

LEMMA NoWindowsTyped == NoWindows \in [Windows -> Layout] /\ Leaves(NoWindows) = {}
  BY DEF NoWindows, NoLayout, Layout, Leaves

LEMMA CapturesTyped ==
  ASSUME NEW new \in SUBSET Panes
  PROVE  CaptureAll(new) \in Seq(Command)
  <1> DEFINE some == SetToSeq(new)
             n == Cardinality(new)
             captures == [i \in 1 .. 4 * n |->
                            Captures(some[(i + 3) \div 4])[((i + 3) % 4) + 1]]
  <1>1. n \in Nat /\ some \in [1 .. n -> new]
    BY FiniteAssumption, FS_Subset, Enumeration
  <1>2. \A p \in Panes : \A k \in 1 .. 4 : Captures(p)[k] \in Command
    <2> SUFFICES ASSUME NEW p \in Panes
                 PROVE  \A k \in 1 .. 4 : Captures(p)[k] \in Command
      OBVIOUS
    <2>1. /\ Cmd("capture-history", p) \in Command
          /\ Cmd("capture-visible", p) \in Command
          /\ Cmd("capture-history-alternate", p) \in Command
          /\ Cmd("capture-visible-alternate", p) \in Command
      BY CommandsTyped DEF PaneOps
    <2> QED BY <2>1 DEF Captures
  <1> HIDE DEF some, n
  <1>3. ASSUME NEW i \in 1 .. 4 * n
        PROVE  captures[i] \in Command
    <2>1. (i + 3) \div 4 \in 1 .. n /\ ((i + 3) % 4) + 1 \in 1 .. 4
      BY <1>1
    <2>2. some[(i + 3) \div 4] \in Panes
      BY <1>1, <2>1
    <2> QED BY <1>2, <2>1, <2>2
  <1>4. 4 * n \in Nat
    BY <1>1
  <1> DEFINE m == 4 * n
  <1>5. captures \in [1 .. m -> Command]
    BY <1>3
  <1> HIDE DEF captures, m
  <1>6. captures \in Seq(Command)
    BY <1>4, <1>5 DEF m
  <1>7. Append(captures, PaneState) \in Seq(Command) /\ <<>> \in Seq(Command)
    BY <1>6, CommandsTyped
  <1> QED BY <1>7 DEF CaptureAll, captures, some, n

(* Commands appended to a queue leave its head.                            *)
LEMMA QueueGrows ==
  ASSUME NEW q \in Seq(Command), NEW cs \in Seq(Command)
  PROVE  /\ q \o cs \in Seq(Command)
         /\ q # <<>> => q \o cs # <<>> /\ Head(q \o cs) = Head(q)
  OBVIOUS

LEMMA QueueAppended ==
  ASSUME NEW q \in Seq(Command), NEW c \in Command
  PROVE  /\ Append(q, c) \in Seq(Command) /\ Append(q, c) # <<>>
         /\ Head(Append(q, c)) = IF q = <<>> THEN c ELSE Head(q)
  <1>1. /\ Append(q, c) \in Seq(Command)
        /\ Len(Append(q, c)) = Len(q) + 1 /\ Len(q) \in Nat
        /\ \A i \in 1 .. Len(q) : Append(q, c)[i] = q[i]
        /\ Append(q, c)[Len(q) + 1] = c
    OBVIOUS
  <1>2. Append(q, c) # <<>> /\ Head(Append(q, c)) = Append(q, c)[1]
    BY <1>1
  <1>3. CASE q = <<>>
    BY <1>1, <1>2, <1>3
  <1>4. CASE q # <<>>
    <2>1. Head(q) = q[1] /\ Len(q) >= 1
      BY <1>4
    <2> QED BY <1>1, <1>2, <1>4, <2>1
  <1> QED BY <1>1, <1>2, <1>3, <1>4

(* sync_layouts keeps the panes the leaves of the layouts and a terminal   *)
(* for no other pane, and leaves the head of the queue.                    *)
LEMMA Synced ==
  ASSUME TypeOK, NEW ws \in [Windows -> Layout], NEW q \in Seq(Command),
         SyncLayouts(ws, q)
  PROVE  /\ windows' = ws /\ panes' = Leaves(windows')
         /\ fed' \in [Panes -> Seq(Nat)]
         /\ \A p \in Panes \ panes' : fed'[p] = <<>>
         /\ changed'
         /\ queue' \in Seq(Command)
         /\ q # <<>> => queue' # <<>> /\ Head(queue') = Head(q)
  <1>1. windows' = ws /\ panes' = Leaves(ws) /\ changed'
    BY DEF SyncLayouts
  <1>2. fed' \in [Panes -> Seq(Nat)] /\ \A p \in Panes \ panes' : fed'[p] = <<>>
    <2>1. fed' = [p \in Panes |-> IF p \in Leaves(ws) THEN fed[p] ELSE <<>>]
      BY DEF SyncLayouts
    <2>2. <<>> \in Seq(Nat) /\ fed \in [Panes -> Seq(Nat)]
      BY DEF TypeOK
    <2> QED BY <1>1, <2>1, <2>2
  <1>3. CaptureAll(Leaves(ws) \ panes) \in Seq(Command)
    BY LeavesTyped, CapturesTyped
  <1>4. queue' = q \o CaptureAll(Leaves(ws) \ panes)
    BY DEF SyncLayouts
  <1> QED BY <1>1, <1>2, <1>3, <1>4, QueueGrows

LEMMA Fed ==
  ASSUME TypeOK, NEW p \in Panes, NEW s \in Seq(Nat), FeedPane(p, s)
  PROVE  /\ fed' \in [Panes -> Seq(Nat)]
         /\ \A r \in Panes \ panes : fed'[r] = <<>>
  <1>1. fed \in [Panes -> Seq(Nat)] /\ \A r \in Panes \ panes : fed[r] = <<>>
    BY DEF TypeOK
  <1>2. fed[p] \o s \in Seq(Nat)
    BY <1>1
  <1> QED BY <1>1, <1>2 DEF FeedPane

-----------------------------------------------------------------------------
(* What keeps one command in flight.                                       *)

(* The queue grows, and its head is asked for if it was empty.             *)
LEMMA FlightAsked ==
  ASSUME NEW q, NEW cs, NEW pty, NEW s, NEW q2, InFlight(q, cs, pty, s),
         q # <<>> => q2 # <<>> /\ Head(q2) = Head(q)
  PROVE  InFlight(q2, IF q = <<>> /\ q2 # <<>> THEN Append(cs, Head(q2)) ELSE cs,
                  pty, s)
  <1>1. CASE q = <<>>
    <2>1. cs = <<>> /\ Append(cs, Head(q2)) = <<Head(q2)>>
      BY <1>1 DEF InFlight
    <2> QED BY <1>1, <2>1 DEF InFlight
  <1>2. CASE q # <<>>
    BY <1>2 DEF InFlight
  <1> QED BY <1>1, <1>2

(* No reply was due: the head of any new queue is asked for.               *)
LEMMA FlightStarted ==
  ASSUME NEW q, NEW s, Answers(s) = {}
  PROVE  InFlight(q, IF q # <<>> THEN Append(<<>>, Head(q)) ELSE <<>>, <<>>, s)
  BY DEF InFlight

(* A reply is taken: it answers the head, and nothing else is in flight.   *)
LEMMA FlightAnswered ==
  ASSUME NEW q, NEW cs, NEW pty, NEW s \in Seq(Notification), s # <<>>,
         InFlight(q, cs, pty, s), IsReply(Head(s))
  PROVE  q # <<>> /\ cs = <<>> /\ pty = <<>> /\ Answers(Tail(s)) = {}
  <1>1. Answers(s) # {}
    BY FirstTaken
  <1>2. q # <<>> /\ cs = <<>> /\ pty = <<>> /\ OnlyAnswers(s, Head(q))
    BY <1>1 DEF InFlight
  <1> QED BY <1>2, FirstTaken

LEMMA FlightTaken ==
  ASSUME NEW q, NEW cs, NEW pty, NEW s \in Seq(Notification), s # <<>>,
         InFlight(q, cs, pty, s), ~IsReply(Head(s))
  PROVE  InFlight(q, cs, pty, Tail(s))
  BY FirstTaken DEF InFlight

(* A command is enqueued, and written if nothing is in flight.             *)
LEMMA FlightWritten ==
  ASSUME NEW q \in Seq(Command), NEW cs, NEW pty, NEW s, NEW c \in Command,
         InFlight(q, cs, pty, s)
  PROVE  InFlight(Append(q, c), cs, IF q = <<>> THEN Append(pty, c) ELSE pty, s)
  <1>1. Append(q, c) # <<>>
        /\ Head(Append(q, c)) = IF q = <<>> THEN c ELSE Head(q)
    BY QueueAppended
  <1>2. CASE q = <<>>
    <2>1. cs = <<>> /\ pty = <<>> /\ Append(pty, c) = <<c>> /\ Answers(s) = {}
      BY <1>2 DEF InFlight
    <2> QED BY <1>1, <1>2, <2>1 DEF InFlight
  <1>3. CASE q # <<>>
    BY <1>1, <1>3 DEF InFlight
  <1> QED BY <1>2, <1>3

(* The commands of a batch are written.                                    *)
LEMMA FlightFlushed ==
  ASSUME NEW q \in Seq(Command), NEW cs \in Seq(Command), NEW pty \in Seq(Command),
         NEW s, InFlight(q, cs, pty, s)
  PROVE  InFlight(q, <<>>, pty \o cs, s)
  <1>1. (cs = <<>> => pty \o cs = pty) /\ (pty = <<>> => pty \o cs = cs)
    OBVIOUS
  <1> QED BY <1>1 DEF InFlight

LEMMA FlightNotified ==
  ASSUME NEW q, NEW cs, NEW pty, NEW s \in Seq(Notification),
         NEW notes \in Seq(Event), InFlight(q, cs, pty, s)
  PROVE  InFlight(q, cs, pty, s \o notes)
  BY EventsAppended DEF InFlight

(* tmux executes the first command written and replies to it.              *)
LEMMA FlightExecuted ==
  ASSUME NEW q \in Seq(Command), NEW cs, NEW pty \in Seq(Command), pty # <<>>,
         NEW s \in Seq(Notification), NEW r \in Reply, InFlight(q, cs, pty, s)
  PROVE  InFlight(q, cs, Tail(pty), s \o <<Block(Head(pty), r)>>)
  <1>1. q # <<>> /\ cs = <<>> /\ pty = <<Head(q)>> /\ Answers(s) = {}
    BY DEF InFlight
  <1>2. Head(pty) = Head(q) /\ Head(pty) \in Command /\ Tail(pty) = <<>>
    BY <1>1
  <1>3. OnlyAnswers(s \o <<Block(Head(pty), r)>>, Head(q))
    BY <1>1, <1>2, ReplyAppended
  <1> QED BY <1>1, <1>2, <1>3 DEF InFlight

-----------------------------------------------------------------------------
(* Taking a notification.                                                  *)

LEMMA KindsTyped ==
  ASSUME NEW n \in Notification
  PROVE  /\ n.kind = "block" => n.reply \in Reply /\ (IsReply(n) \/ IsAttach(n))
         /\ n.kind # "block" => ~IsReply(n) /\ ~IsAttach(n)
         /\ n.kind = "session-changed" => n.arg \in Sessions
         /\ n.kind = "layout-change" => n.arg \in Windows /\ n.layout \in Layout
         /\ n.kind = "pane-changed" => n.arg \in Panes
         /\ n.kind = "output" => n.arg \in Panes /\ n.data \in Nat
  BY DEF Notification, Event, IsReply, IsAttach

(* What every notification taken keeps.                                    *)
LEMMA TakenKeeps ==
  ASSUME IInv, NEW kind, Taken(kind)
  PROVE  /\ fromTmux \in Seq(Notification) /\ fromTmux # <<>>
         /\ Head(fromTmux) \in Notification /\ Head(fromTmux).kind = kind
         /\ fromTmux' = Tail(fromTmux) /\ fromTmux' \in Seq(Notification)
         /\ state = "StartupBlock" <=> IsAttach(Head(fromTmux))
         /\ state' # "StartupBlock" => AttachInv'
         /\ state # "Defunct"
         /\ batch' /\ UNCHANGED <<nativeVars, tmux, toTmux, spent>>
  <1>1. /\ fromTmux \in Seq(Notification) /\ fromTmux # <<>>
        /\ fromTmux' = Tail(fromTmux) /\ Head(fromTmux).kind = kind
        /\ state # "Defunct"
        /\ batch' /\ UNCHANGED <<nativeVars, tmux, toTmux, spent>>
    BY DEF IInv, TypeOK, Taken
  <1>2. Head(fromTmux) = fromTmux[1] /\ 1 \in DOMAIN fromTmux
        /\ Head(fromTmux) \in Notification
    BY <1>1
  <1>3. state = "StartupBlock" <=> IsAttach(Head(fromTmux))
    BY <1>1, <1>2 DEF IInv, AttachInv
  <1>4. fromTmux' \in Seq(Notification)
        /\ \A i \in DOMAIN fromTmux' :
             fromTmux'[i] = fromTmux[i + 1] /\ i + 1 \in DOMAIN fromTmux
    BY <1>1, FirstTaken
  <1>5. \A i \in DOMAIN fromTmux' : i + 1 # 1
    BY <1>4
  <1>6. state' # "StartupBlock" => AttachInv'
    BY <1>4, <1>5 DEF IInv, AttachInv
  <1> QED BY <1>1, <1>2, <1>3, <1>4, <1>6

(* The types that a notification leaves to prove.                          *)
LEMMA TakenTypes ==
  ASSUME IInv, NEW kind, Taken(kind),
         state' \in {"StartupBlock", "StartupSession", "CommandQueue", "Defunct"},
         sessionId' \in Sessions \cup {None},
         queue' \in Seq(Command),
         windows' \in [Windows -> Layout], panes' = Leaves(windows'),
         fed' \in [Panes -> Seq(Nat)], \A p \in Panes \ panes' : fed'[p] = <<>>,
         active' \in Panes \cup {None},
         clientSize' \in Sizes \cup {None}, lastRefresh' \in Sizes \cup {None},
         commands' \in Seq(Command), changed' \in BOOLEAN, raced' \in BOOLEAN
  PROVE  TypeOK'
  <1>1. fromTmux' \in Seq(Notification) /\ batch'
        /\ UNCHANGED <<nativeVars, tmux, toTmux, spent>>
    BY TakenKeeps
  <1>2. batch' \in BOOLEAN
    BY DEF Taken
  <1> QED BY <1>1, <1>2 DEF IInv, TypeOK, nativeVars

LEMMA AdvanceTyped ==
  ASSUME TypeOK, NEW free, NEW q \in Seq(Command), Advance(free, q)
  PROVE  commands' \in Seq(Command)
  <1>1. q # <<>> => Head(q) \in Command
    OBVIOUS
  <1> QED BY <1>1 DEF TypeOK, Advance

(* Taking the reply to the head of the queue keeps the types.              *)
LEMMA Answered ==
  ASSUME TypeOK, NEW c \in Command, NEW reply \in Reply,
         NEW rest \in Seq(Command), Answer(c, reply, rest)
  PROVE  /\ queue' \in Seq(Command)
         /\ windows' \in [Windows -> Layout] /\ panes' = Leaves(windows')
         /\ fed' \in [Panes -> Seq(Nat)] /\ \A p \in Panes \ panes' : fed'[p] = <<>>
         /\ changed' \in BOOLEAN
  <1>1. CASE c = ListWindows /\ reply.type # "text"
    <2> DEFINE ws == IF reply.type = "windows" THEN reply.windows ELSE NoWindows
    <2>1. ws \in [Windows -> Layout]
      <3>1. reply.type = "windows" => reply.windows \in [Windows -> Layout]
        BY DEF Reply, Empty
      <3> QED BY <3>1, NoWindowsTyped
    <2>2. SyncLayouts(ws, rest)
      BY <1>1 DEF Answer
    <2> HIDE DEF ws
    <2> QED BY <2>1, <2>2, Synced
  <1>2. CASE ~(c = ListWindows /\ reply.type # "text")
    <2>1. UNCHANGED <<windows, panes, changed>>
      BY <1>2 DEF Answer
    <2>2. queue' \in Seq(Command)
      BY <1>2, CommandsTyped DEF Answer
    <2>3. fed' \in [Panes -> Seq(Nat)] /\ \A p \in Panes \ panes : fed'[p] = <<>>
      <3>1. CASE c.op \in {"capture-history", "capture-visible"}
        <4>1. FeedPane(c.arg, Shows(reply))
          BY <1>2, <3>1 DEF Answer
        <4>2. c.arg \in Panes
          BY <3>1, CommandCases DEF PlainOps
        <4>3. Shows(reply) \in Seq(Nat)
          BY DEF Shows, Reply, Empty
        <4> QED BY <4>1, <4>2, <4>3, Fed
      <3>2. CASE c.op \notin {"capture-history", "capture-visible"}
        BY <1>2, <3>2 DEF Answer, TypeOK
      <3> QED BY <3>1, <3>2
    <2> QED BY <2>1, <2>2, <2>3 DEF TypeOK
  <1> QED BY <1>1, <1>2

LEMMA BlockTaken ==
  ASSUME IInv, TakeBlock
  PROVE  IInv'
  <1> DEFINE n == Head(fromTmux)
  <1>1. Taken("block")
    BY DEF TakeBlock
  <1>2. /\ fromTmux \in Seq(Notification) /\ fromTmux # <<>>
        /\ n \in Notification /\ n.reply \in Reply
        /\ fromTmux' = Tail(fromTmux)
        /\ state = "StartupBlock" <=> IsAttach(n)
        /\ IsReply(n) \/ IsAttach(n)
        /\ state # "Defunct" /\ UNCHANGED <<nativeVars, tmux, toTmux, spent>>
    BY <1>1, TakenKeeps, KindsTyped
  <1>3. state' = (IF state = "StartupBlock" THEN "StartupSession" ELSE state)
        /\ UNCHANGED <<sessionId, active, clientSize, lastRefresh, raced>>
    BY DEF TakeBlock
  <1>4. state \in {"StartupBlock", "StartupSession", "CommandQueue"}
    BY <1>2 DEF IInv, TypeOK
  <1>5. AttachInv'
    <2>1. state' # "StartupBlock"
      BY <1>3
    <2> QED BY <1>1, <2>1, TakenKeeps
  <1> HIDE DEF n
  <1>6. CASE state = "CommandQueue" /\ queue # <<>>
    <2>1. queue \in Seq(Command) /\ Head(queue) \in Command
          /\ Tail(queue) \in Seq(Command) /\ TypeOK
      BY <1>6 DEF IInv, TypeOK
    <2>2. Answer(Head(queue), n.reply, Tail(queue)) /\ Advance(TRUE, queue')
      BY <1>6 DEF TakeBlock, n
    <2>3. /\ queue' \in Seq(Command)
          /\ windows' \in [Windows -> Layout] /\ panes' = Leaves(windows')
          /\ fed' \in [Panes -> Seq(Nat)]
          /\ \A p \in Panes \ panes' : fed'[p] = <<>>
          /\ changed' \in BOOLEAN
      BY <1>2, <2>1, <2>2, Answered
    <2>4. commands' \in Seq(Command)
      BY <2>1, <2>2, <2>3, AdvanceTyped
    <2>5. TypeOK'
      <3>1. /\ state' \in {"StartupBlock", "StartupSession", "CommandQueue", "Defunct"}
            /\ sessionId' \in Sessions \cup {None}
            /\ active' \in Panes \cup {None}
            /\ clientSize' \in Sizes \cup {None}
            /\ lastRefresh' \in Sizes \cup {None}
            /\ raced' \in BOOLEAN
        BY <1>3, <1>6, <2>1 DEF TypeOK
      <3> QED BY <1>1, <2>3, <2>4, <3>1, TakenTypes
    <2>6. StartupInv'
      BY <1>3, <1>6 DEF StartupInv
    <2>7. FlightInv'
      <3> SUFFICES ASSUME ~raced
                   PROVE  InFlight(queue', commands', toTmux', fromTmux')
        BY <1>3 DEF FlightInv
      <3>1. InFlight(queue, commands, toTmux, fromTmux) /\ IsReply(n)
        BY <1>2, <1>6 DEF IInv, FlightInv
      <3>2. commands = <<>> /\ toTmux = <<>> /\ Answers(fromTmux') = {}
        BY <1>2, <3>1, FlightAnswered DEF n
      <3>3. commands' = IF queue' # <<>> THEN Append(<<>>, Head(queue')) ELSE <<>>
        BY <2>2, <3>2 DEF Advance
      <3>4. toTmux' = <<>>
        BY <1>2, <3>2
      <3> QED BY <3>2, <3>3, <3>4, FlightStarted
    <2> QED BY <1>5, <2>5, <2>6, <2>7 DEF IInv
  <1>7. CASE ~(state = "CommandQueue" /\ queue # <<>>)
    <2>1. UNCHANGED <<queue, windows, panes, fed, commands, changed>>
      BY <1>7 DEF TakeBlock
    <2>2. TypeOK'
      <3>1. TypeOK /\ state' \in {"StartupBlock", "StartupSession", "CommandQueue", "Defunct"}
        BY <1>3, <1>4 DEF IInv
      <3> QED BY <1>1, <1>3, <2>1, <3>1, TakenTypes DEF TypeOK
    <2>3. StartupInv'
      <3>1. Answers(fromTmux) = {} => Answers(fromTmux') = {}
        BY <1>2, FirstTaken
      <3>2. state' \in {"StartupBlock", "StartupSession"} =>
              state \in {"StartupBlock", "StartupSession"}
        BY <1>3
      <3> QED BY <1>2, <1>3, <2>1, <3>1, <3>2 DEF IInv, StartupInv
    <2>4. FlightInv'
      <3> SUFFICES ASSUME state' = "CommandQueue", ~raced PROVE FALSE
        BY <1>3 DEF FlightInv
      <3>1. state = "CommandQueue" /\ IsReply(n)
        BY <1>2, <1>3
      <3>2. InFlight(queue, commands, toTmux, fromTmux)
        BY <3>1 DEF IInv, FlightInv
      <3>3. queue # <<>>
        BY <1>2, <3>1, <3>2, FlightAnswered DEF n
      <3> QED BY <1>7, <3>1, <3>3
    <2> QED BY <1>5, <2>2, <2>3, <2>4 DEF IInv
  <1> QED BY <1>6, <1>7

(* Other notifications answer nothing, and come after the attach.          *)
LEMMA EventTaken ==
  ASSUME IInv, NEW kind, Taken(kind), kind # "block"
  PROVE  /\ state \in {"StartupSession", "CommandQueue"}
         /\ ~IsReply(Head(fromTmux))
         /\ Answers(fromTmux) = {} => Answers(fromTmux') = {}
         /\ state' # "StartupBlock" => AttachInv'
         /\ FlightInv => (state = "CommandQueue" /\ ~raced =>
                            InFlight(queue, commands, toTmux, fromTmux'))
         /\ toTmux' = toTmux
  <1>1. ~IsReply(Head(fromTmux)) /\ ~IsAttach(Head(fromTmux))
    BY TakenKeeps, KindsTyped
  <1>2. state \in {"StartupSession", "CommandQueue"}
    BY <1>1, TakenKeeps DEF IInv, TypeOK
  <1>3. Answers(fromTmux) = {} => Answers(fromTmux') = {}
    BY TakenKeeps, FirstTaken
  <1>4. FlightInv => (state = "CommandQueue" /\ ~raced =>
                       InFlight(queue, commands, toTmux, fromTmux'))
    BY <1>1, TakenKeeps, FlightTaken DEF FlightInv
  <1> QED BY <1>1, <1>2, <1>3, <1>4, TakenKeeps

LEMMA SessionChangedTaken ==
  ASSUME IInv, TakeSessionChanged
  PROVE  IInv'
  <1>1. Taken("session-changed")
    BY DEF TakeSessionChanged
  <1>2. state \in {"StartupSession", "CommandQueue"} /\ ~IsReply(Head(fromTmux))
    BY <1>1, EventTaken
  <1>3. /\ sessionId' = Head(fromTmux).arg
        /\ state' = "CommandQueue"
        /\ Advance(TRUE, queue')
    BY <1>2 DEF TakeSessionChanged
  <1>4. sessionId' \in Sessions
    BY <1>1, <1>3, TakenKeeps, KindsTyped
  <1>5. AttachInv' /\ StartupInv'
    BY <1>1, <1>3, TakenKeeps DEF StartupInv
  <1>6. CASE state = "StartupSession"
    <2>1. /\ queue' = <<TmuxVersion, RefreshClient(clientSize), ListWindows>>
          /\ lastRefresh' = clientSize
          /\ UNCHANGED <<windows, panes, fed, active, clientSize, changed, raced>>
      BY <1>6 DEF TakeSessionChanged
    <2>2. /\ clientSize \in Sizes /\ commands = <<>> /\ toTmux = <<>>
          /\ Answers(fromTmux) = {}
      BY <1>6 DEF IInv, StartupInv
    <2>3. queue' \in Seq(Command)
      <3>1. RefreshClient(clientSize) \in Command
        BY <2>2, CommandsTyped
      <3> QED BY <2>1, <3>1, CommandsTyped
    <2>4. commands' \in Seq(Command)
      BY <1>3, <2>3, AdvanceTyped DEF IInv
    <2>5. TypeOK'
      BY <1>1, <1>3, <1>4, <2>1, <2>2, <2>3, <2>4, TakenTypes DEF IInv, TypeOK
    <2>6. Answers(fromTmux') = {} /\ toTmux' = <<>>
      BY <1>1, <2>2, EventTaken
    <2>7. commands' = IF queue' # <<>> THEN Append(<<>>, Head(queue')) ELSE <<>>
      BY <1>3, <2>2 DEF Advance
    <2>8. FlightInv'
      BY <2>6, <2>7, FlightStarted DEF FlightInv
    <2> QED BY <1>5, <2>5, <2>8 DEF IInv
  <1>7. CASE state = "CommandQueue"
    <2>1. /\ queue' = <<ListWindows>>
          /\ windows' = NoWindows
          /\ panes' = {}
          /\ fed' = [p \in Panes |-> <<>>]
          /\ active' = None /\ clientSize' = None /\ lastRefresh' = None
          /\ changed' = TRUE
          /\ raced' = (raced \/ queue # <<>>)
      BY <1>7 DEF TakeSessionChanged
    <2>2. queue' \in Seq(Command)
      BY <2>1, CommandsTyped
    <2>3. commands' \in Seq(Command)
      BY <1>3, <2>2, AdvanceTyped DEF IInv
    <2>4. TypeOK'
      <3>1. fed' \in [Panes -> Seq(Nat)] /\ \A p \in Panes \ panes' : fed'[p] = <<>>
        BY <2>1
      <3>2. windows' \in [Windows -> Layout] /\ panes' = Leaves(windows')
        BY <2>1, NoWindowsTyped
      <3>3. raced' \in BOOLEAN
        BY <2>1 DEF IInv, TypeOK
      <3> QED BY <1>1, <1>3, <1>4, <2>1, <2>2, <2>3, <3>1, <3>2, <3>3, TakenTypes
    <2>5. FlightInv'
      <3> SUFFICES ASSUME ~raced, queue = <<>>
                   PROVE  InFlight(queue', commands', toTmux', fromTmux')
        <4>1. raced \in BOOLEAN
          BY DEF IInv, TypeOK
        <4> QED BY <2>1, <4>1 DEF FlightInv
      <3>1. InFlight(queue, commands, toTmux, fromTmux')
        BY <1>1, <1>7, EventTaken DEF IInv
      <3>2. commands = <<>> /\ toTmux = <<>> /\ Answers(fromTmux') = {}
        BY <3>1 DEF InFlight
      <3>3. commands' = IF queue' # <<>> THEN Append(<<>>, Head(queue')) ELSE <<>>
        BY <1>3, <3>2 DEF Advance
      <3>4. toTmux' = <<>>
        BY <1>1, <3>2, EventTaken
      <3> QED BY <3>2, <3>3, <3>4, FlightStarted
    <2> QED BY <1>5, <2>4, <2>5 DEF IInv
  <1> QED BY <1>2, <1>6, <1>7

(* A queue that grows, the types of what changes with it being known.      *)
LEMMA GrowthTaken ==
  ASSUME IInv, NEW kind, Taken(kind), kind # "block", state = "CommandQueue",
         UNCHANGED <<state, sessionId, active, clientSize, lastRefresh, raced>>,
         queue' \in Seq(Command), queue # <<>> => queue' # <<>> /\ Head(queue') = Head(queue),
         Advance(queue = <<>>, queue'),
         windows' \in [Windows -> Layout], panes' = Leaves(windows'),
         fed' \in [Panes -> Seq(Nat)], \A p \in Panes \ panes' : fed'[p] = <<>>,
         changed' \in BOOLEAN
  PROVE  IInv'
  <1>1. commands' \in Seq(Command)
    BY AdvanceTyped DEF IInv
  <1>2. TypeOK'
    BY <1>1, TakenTypes DEF IInv, TypeOK
  <1>3. AttachInv' /\ StartupInv'
    BY TakenKeeps DEF StartupInv
  <1>4. FlightInv'
    <2> SUFFICES ASSUME ~raced
                 PROVE  InFlight(queue', commands', toTmux', fromTmux')
      BY DEF FlightInv
    <2>1. InFlight(queue, commands, toTmux, fromTmux') /\ toTmux' = toTmux
      BY EventTaken DEF IInv
    <2>2. commands' = IF queue = <<>> /\ queue' # <<>>
                        THEN Append(commands, Head(queue')) ELSE commands
      BY DEF Advance
    <2> QED BY <2>1, <2>2, FlightAsked
  <1> QED BY <1>2, <1>3, <1>4 DEF IInv

(* Nothing is asked for.                                                   *)
LEMMA OtherTaken ==
  ASSUME IInv, NEW kind, Taken(kind), kind # "block",
         state' \in {state, "Defunct"},
         UNCHANGED <<sessionId, queue, windows, panes, clientSize, lastRefresh,
                     commands, changed, raced>>,
         active' \in Panes \cup {None},
         fed' \in [Panes -> Seq(Nat)], \A p \in Panes \ panes' : fed'[p] = <<>>
  PROVE  IInv'
  <1>1. state \in {"StartupSession", "CommandQueue"}
    BY EventTaken
  <1>2. TypeOK'
    BY <1>1, TakenTypes DEF IInv, TypeOK
  <1>3. AttachInv'
    BY <1>1, TakenKeeps
  <1>4. StartupInv'
    BY <1>1, EventTaken DEF IInv, StartupInv
  <1>5. FlightInv'
    <2> SUFFICES ASSUME state' = "CommandQueue", ~raced
                 PROVE  InFlight(queue', commands', toTmux', fromTmux')
      BY DEF FlightInv
    <2> QED BY EventTaken DEF IInv
  <1> QED BY <1>2, <1>3, <1>4, <1>5 DEF IInv

LEMMA LayoutChangeTaken ==
  ASSUME IInv, TakeLayoutChange
  PROVE  IInv'
  <1> DEFINE n == Head(fromTmux)
             ws == [windows EXCEPT ![n.arg] = n.layout]
  <1>1. Taken("layout-change")
        /\ UNCHANGED <<state, sessionId, active, clientSize, lastRefresh, raced>>
    BY DEF TakeLayoutChange
  <1>2. n.arg \in Windows /\ n.layout \in Layout
    BY <1>1, TakenKeeps, KindsTyped
  <1>3. CASE state = "CommandQueue" /\ windows[n.arg] # NoLayout
    <2>1. SyncLayouts(ws, queue) /\ Advance(queue = <<>>, queue')
      BY <1>3 DEF TakeLayoutChange
    <2>2. ws \in [Windows -> Layout] /\ queue \in Seq(Command) /\ TypeOK
      BY <1>2 DEF IInv, TypeOK
    <2> HIDE DEF ws
    <2>3. /\ windows' = ws /\ panes' = Leaves(windows')
          /\ fed' \in [Panes -> Seq(Nat)]
          /\ \A p \in Panes \ panes' : fed'[p] = <<>>
          /\ changed' \in BOOLEAN
          /\ queue' \in Seq(Command)
          /\ queue # <<>> => queue' # <<>> /\ Head(queue') = Head(queue)
      <3>1. changed' = TRUE
        BY <2>1 DEF SyncLayouts
      <3> QED BY <2>1, <2>2, <3>1, Synced
    <2> QED BY <1>1, <1>3, <2>1, <2>2, <2>3, GrowthTaken
  <1>4. CASE ~(state = "CommandQueue" /\ windows[n.arg] # NoLayout)
    <2>1. UNCHANGED <<windows, panes, fed, queue, changed, commands>>
      BY <1>4 DEF TakeLayoutChange
    <2> QED BY <1>1, <2>1, OtherTaken DEF IInv, TypeOK
  <1> QED BY <1>3, <1>4

LEMMA WindowChangeTaken ==
  ASSUME IInv, TakeWindowChange
  PROVE  IInv'
  <1>1. PICK kind \in {"window-add", "window-close"} : Taken(kind)
    BY DEF TakeWindowChange
  <1>2. UNCHANGED <<state, sessionId, windows, panes, fed, active, clientSize,
                    lastRefresh, changed, raced>>
    BY DEF TakeWindowChange
  <1>3. CASE state = "CommandQueue"
    <2>1. queue' = Append(queue, ListWindows) /\ Advance(queue = <<>>, queue')
      BY <1>3 DEF TakeWindowChange
    <2>2. queue' \in Seq(Command)
          /\ (queue # <<>> => queue' # <<>> /\ Head(queue') = Head(queue))
      BY <2>1, CommandsTyped, QueueAppended DEF IInv, TypeOK
    <2> QED BY <1>1, <1>2, <1>3, <2>1, <2>2, GrowthTaken DEF IInv, TypeOK
  <1>4. CASE state # "CommandQueue"
    <2>1. UNCHANGED <<queue, commands>>
      BY <1>4 DEF TakeWindowChange
    <2> QED BY <1>1, <1>2, <2>1, OtherTaken DEF IInv, TypeOK
  <1> QED BY <1>3, <1>4

LEMMA PaneChangedTaken ==
  ASSUME IInv, TakePaneChanged
  PROVE  IInv'
  <1>1. Taken("pane-changed")
    BY DEF TakePaneChanged
  <1>2. Head(fromTmux).arg \in Panes
    BY <1>1, TakenKeeps, KindsTyped
  <1>3. active' \in Panes \cup {None}
    BY <1>2 DEF TakePaneChanged, IInv, TypeOK
  <1> QED BY <1>1, <1>3, OtherTaken DEF TakePaneChanged, IInv, TypeOK

LEMMA OutputTaken ==
  ASSUME IInv, TakeOutput
  PROVE  IInv'
  <1>1. Taken("output")
        /\ UNCHANGED <<state, sessionId, queue, windows, panes, active, clientSize,
                       lastRefresh, commands, changed, raced>>
    BY DEF TakeOutput
  <1>2. Head(fromTmux).arg \in Panes /\ Head(fromTmux).data \in Nat
    BY <1>1, TakenKeeps, KindsTyped
  <1>3. fed' \in [Panes -> Seq(Nat)] /\ \A p \in Panes \ panes : fed'[p] = <<>>
    <2>1. CASE state = "CommandQueue"
      <3>1. FeedPane(Head(fromTmux).arg, <<Head(fromTmux).data>>)
        BY <2>1 DEF TakeOutput
      <3>2. <<Head(fromTmux).data>> \in Seq(Nat)
        BY <1>2
      <3> QED BY <1>2, <3>1, <3>2, Fed DEF IInv
    <2>2. CASE state # "CommandQueue"
      BY <2>2 DEF TakeOutput, IInv, TypeOK
    <2> QED BY <2>1, <2>2
  <1> QED BY <1>1, <1>3, OtherTaken DEF IInv, TypeOK

LEMMA ExitTaken ==
  ASSUME IInv, TakeExit
  PROVE  IInv'
  BY OtherTaken DEF TakeExit, IInv, TypeOK

-----------------------------------------------------------------------------
(* The end of a batch, the user and tmux.                                  *)

LEMMA BatchEnded ==
  ASSUME IInv, EndBatch
  PROVE  IInv'
  <1>1. /\ batch' = FALSE /\ commands' = <<>> /\ changed' = FALSE
        /\ UNCHANGED <<state, sessionId, windows, panes, fed, active, clientSize,
                       lastRefresh, grid, tmux, fromTmux, raced, spent>>
    BY DEF EndBatch
  <1> DEFINE pty == toTmux \o commands
  <1>2. /\ queue \in Seq(Command) /\ commands \in Seq(Command)
        /\ toTmux \in Seq(Command) /\ pty \in Seq(Command)
        /\ tabs \subseteq Windows /\ mapped \in BOOLEAN
    BY DEF IInv, TypeOK
  <1>3. tabs' \subseteq Windows /\ mapped' \in BOOLEAN
    <2>1. Present(windows) \subseteq Windows
      BY DEF Present
    <2> QED BY <1>2, <2>1 DEF EndBatch
  <1>4. \/ state = "Defunct" /\ queue' = queue /\ toTmux' = toTmux
        \/ state # "Defunct" /\ queue' = queue /\ toTmux' = pty
        \/ /\ state # "Defunct" /\ changed
           /\ queue' = Append(queue, DetachClient)
           /\ toTmux' = IF queue = <<>> THEN Append(pty, DetachClient) ELSE pty
    BY DEF EndBatch, EnqueueWrite
  <1> HIDE DEF pty
  <1>5. queue' \in Seq(Command) /\ toTmux' \in Seq(Command)
    BY <1>2, <1>4, CommandsTyped, QueueAppended
  <1>6. TypeOK'
    <2>1. <<>> \in Seq(Command)
      OBVIOUS
    <2> QED BY <1>1, <1>3, <1>5, <2>1 DEF IInv, TypeOK
  <1>7. StartupInv'
    <2> SUFFICES ASSUME state \in {"StartupBlock", "StartupSession"}
                 PROVE  queue' = <<>> /\ toTmux' = <<>>
      BY <1>1 DEF IInv, StartupInv
    <2>1. queue = <<>> /\ commands = <<>> /\ toTmux = <<>> /\ ~changed
      BY DEF IInv, StartupInv
    <2>2. pty = <<>>
      BY <2>1 DEF pty
    <2> QED BY <1>4, <2>1, <2>2
  <1>8. AttachInv'
    BY <1>1 DEF IInv, AttachInv
  <1>9. FlightInv'
    <2> SUFFICES ASSUME state = "CommandQueue", ~raced
                 PROVE  InFlight(queue', <<>>, toTmux', fromTmux)
      BY <1>1 DEF FlightInv
    <2>1. InFlight(queue, <<>>, pty, fromTmux)
      BY <1>2, FlightFlushed DEF IInv, FlightInv, pty
    <2> QED BY <1>2, <1>4, <2>1, CommandsTyped, FlightWritten
  <1> QED BY <1>6, <1>7, <1>8, <1>9 DEF IInv

(* A command of the user is enqueued in steady state.                      *)
LEMMA UserWrote ==
  ASSUME IInv, Acts, grid' \in Sizes, active' \in Panes \cup {None},
         clientSize' \in Sizes \cup {None}, lastRefresh' \in Sizes \cup {None},
         UNCHANGED <<queue, toTmux>> \/ \E c \in Command : EnqueueWrite(c, toTmux)
  PROVE  IInv'
  <1>1. /\ state = "CommandQueue"
        /\ UNCHANGED <<state, sessionId, windows, panes, fed, driverVars, tabs,
                       mapped, tmux, fromTmux, raced>>
    BY DEF Acts
  <1>2. queue \in Seq(Command) /\ toTmux \in Seq(Command)
    BY DEF IInv, TypeOK
  <1>3. queue' \in Seq(Command) /\ toTmux' \in Seq(Command)
    BY <1>2, QueueAppended DEF EnqueueWrite
  <1>4. spent' \in [Actors -> Nat]
    BY DEF Acts, Spend, IInv, TypeOK, Actors
  <1>5. TypeOK'
    BY <1>1, <1>3, <1>4 DEF IInv, TypeOK, driverVars
  <1>6. StartupInv' /\ AttachInv'
    BY <1>1 DEF IInv, StartupInv, AttachInv
  <1>7. FlightInv'
    <2> SUFFICES ASSUME ~raced
                 PROVE  InFlight(queue', commands, toTmux', fromTmux)
      BY <1>1 DEF FlightInv, driverVars
    <2>1. InFlight(queue, commands, toTmux, fromTmux)
      BY <1>1 DEF IInv, FlightInv
    <2> QED BY <1>2, <2>1, FlightWritten DEF EnqueueWrite
  <1> QED BY <1>5, <1>6, <1>7 DEF IInv

LEMMA UserActed ==
  ASSUME IInv, User
  PROVE  IInv'
  <1>1. ASSUME NEW op \in PaneWrites, NEW p \in Panes, WriteToPane(op, p)
        PROVE  IInv'
    <2>1. Cmd(op, p) \in Command
      BY CommandsTyped DEF PaneOps
    <2> QED BY <1>1, <2>1, UserWrote DEF WriteToPane, IInv, TypeOK
  <1>2. CASE NewWindow
    BY <1>2, CommandsTyped, UserWrote DEF NewWindow, IInv, TypeOK
  <1>3. ASSUME NEW w \in Windows, KillWindow(w)
        PROVE  IInv'
    BY <1>3, CommandsTyped, UserWrote DEF KillWindow, IInv, TypeOK
  <1>4. ASSUME NEW p \in Panes, SelectPane(p)
        PROVE  IInv'
    <2>1. Cmd("select-pane", p) \in Command
      BY CommandsTyped DEF PaneOps
    <2> QED BY <1>4, <2>1, UserWrote DEF SelectPane, IInv, TypeOK
  <1>5. ASSUME NEW z \in Sizes, Resize(z)
        PROVE  IInv'
    BY <1>5, CommandsTyped, UserWrote DEF Resize, IInv, TypeOK
  <1> QED BY <1>1, <1>2, <1>3, <1>4, <1>5 DEF User

(* tmux says something that answers nothing.                               *)
LEMMA ServerNotified ==
  ASSUME IInv, Serves, tmux' \in Server, spent' \in [Actors -> Nat],
         UNCHANGED toTmux,
         NEW notes \in Seq(Event), fromTmux' = fromTmux \o notes
  PROVE  IInv'
  <1>1. UNCHANGED <<viewerVars, driverVars, nativeVars, raced>>
    BY DEF Serves
  <1>2. fromTmux \in Seq(Notification)
    BY DEF IInv, TypeOK
  <1>3. fromTmux' \in Seq(Notification) /\ Answers(fromTmux') = Answers(fromTmux)
    BY <1>2, EventsAppended
  <1>4. TypeOK'
    BY <1>1, <1>3 DEF IInv, TypeOK, viewerVars, driverVars, nativeVars
  <1>5. StartupInv'
    BY <1>1, <1>3 DEF IInv, StartupInv, viewerVars, driverVars
  <1>6. AttachInv'
    BY <1>1, <1>2, EventsAppended DEF IInv, AttachInv, viewerVars
  <1>7. FlightInv'
    BY <1>1, <1>2, FlightNotified DEF IInv, FlightInv, viewerVars, driverVars
  <1> QED BY <1>4, <1>5, <1>6, <1>7 DEF IInv

LEMMA CommandExecuted ==
  ASSUME IInv, Execute
  PROVE  IInv'
  <1>1. /\ toTmux # <<>> /\ toTmux' = Tail(toTmux)
        /\ UNCHANGED <<viewerVars, driverVars, nativeVars, raced, spent>>
    BY DEF Execute, Serves
  <1> DEFINE c == Head(toTmux)
  <1>2. PICK o \in Effects(tmux, c) :
          /\ tmux' = o.tmux
          /\ fromTmux' = fromTmux \o <<Block(c, o.reply)>> \o o.notes
    BY DEF Execute
  <1>3. /\ tmux \in Server /\ c \in Command /\ fromTmux \in Seq(Notification)
        /\ toTmux \in Seq(Command) /\ toTmux' \in Seq(Command)
        /\ queue \in Seq(Command)
    BY <1>1 DEF IInv, TypeOK
  <1>4. o.tmux \in Server /\ o.reply \in Reply /\ o.notes \in Seq(Event)
    BY <1>3, EffectsTyped DEF Outcomes
  <1> DEFINE t == fromTmux \o <<Block(c, o.reply)>>
  <1>5. /\ t \in Seq(Notification)
        /\ \A i \in DOMAIN t :
             IsAttach(t[i]) => i \in DOMAIN fromTmux /\ IsAttach(fromTmux[i])
        /\ fromTmux # <<>> => t # <<>> /\ Head(t) = Head(fromTmux)
    <2> HIDE DEF c
    <2> QED BY <1>3, <1>4, ReplyAppended
  <1>6. FlightInv => (state = "CommandQueue" /\ ~raced =>
                       InFlight(queue, commands, toTmux', t))
    BY <1>1, <1>3, <1>4, FlightExecuted DEF FlightInv
  <1> HIDE DEF c, t
  <1>7. fromTmux' = t \o o.notes
    BY <1>2 DEF t
  <1>8. /\ fromTmux' \in Seq(Notification)
        /\ \A i \in DOMAIN fromTmux' :
             IsAttach(fromTmux'[i]) => i \in DOMAIN t /\ IsAttach(t[i])
        /\ t # <<>> => fromTmux' # <<>> /\ Head(fromTmux') = Head(t)
    BY <1>4, <1>5, <1>7, EventsAppended
  <1>9. TypeOK'
    BY <1>1, <1>2, <1>3, <1>4, <1>8
       DEF IInv, TypeOK, viewerVars, driverVars, nativeVars
  <1>10. StartupInv'
    BY <1>1 DEF IInv, StartupInv, viewerVars
  <1>11. AttachInv'
    BY <1>1, <1>5, <1>8 DEF IInv, AttachInv, viewerVars
  <1>12. FlightInv'
    <2> SUFFICES ASSUME state = "CommandQueue", ~raced
                 PROVE  InFlight(queue, commands, toTmux', fromTmux')
      BY <1>1 DEF FlightInv, viewerVars, driverVars
    <2> QED BY <1>4, <1>5, <1>6, <1>7, FlightNotified DEF IInv
  <1> QED BY <1>9, <1>10, <1>11, <1>12 DEF IInv

LEMMA Spent ==
  ASSUME TypeOK, NEW a \in Actors, Spend(a)
  PROVE  spent' \in [Actors -> Nat]
  BY DEF TypeOK, Spend

LEMMA ServerActed ==
  ASSUME IInv,
         Remote \/ (\E p \in Panes : PrintOutput(p)) \/ (\E s \in Sessions : Switch(s))
  PROVE  IInv'
  <1>1. tmux \in Server /\ fromTmux \in Seq(Notification) /\ TypeOK
    BY DEF IInv, TypeOK
  <1>2. CASE Remote
    <2>1. PICK o \in RemoteEffects(tmux) :
            tmux' = o.tmux /\ fromTmux' = fromTmux \o o.notes
      BY <1>2 DEF Remote
    <2>2. o.tmux \in Server /\ o.notes \in Seq(Event)
      BY <1>1, RemoteTyped DEF Outcomes
    <2>3. Serves /\ UNCHANGED toTmux /\ spent' \in [Actors -> Nat]
      BY <1>1, <1>2, Spent DEF Remote, Actors
    <2> QED BY <2>1, <2>2, <2>3, ServerNotified
  <1>3. ASSUME NEW p \in Panes, PrintOutput(p)
        PROVE  IInv'
    <2> DEFINE notes == Tell(tmux, Place(tmux, p)[1],
                             <<Output(p, tmux.printed[p] + 1)>>)
    <2>1. /\ Serves /\ UNCHANGED toTmux /\ spent' \in [Actors -> Nat]
          /\ tmux' = [tmux EXCEPT !.printed[p] = @ + 1]
          /\ fromTmux' = fromTmux \o notes
      BY <1>1, <1>3, Spent DEF PrintOutput, Actors
    <2>2. tmux' \in Server
      <3>1. [tmux.printed EXCEPT ![p] = @ + 1] \in [Panes -> Nat]
        BY <1>1 DEF Server
      <3> QED BY <1>1, <2>1, <3>1 DEF Server
    <2>3. notes \in Seq(Event)
      <3>1. tmux.printed[p] + 1 \in Nat
        BY <1>1 DEF Server
      <3>2. <<Output(p, tmux.printed[p] + 1)>> \in Seq(Event)
        BY <3>1, EventsTyped
      <3> QED BY <3>2, TellTyped
    <2> HIDE DEF notes
    <2> QED BY <2>1, <2>2, <2>3, ServerNotified
  <1>4. ASSUME NEW s \in Sessions, Switch(s)
        PROVE  IInv'
    <2>1. /\ Serves /\ UNCHANGED toTmux /\ spent' \in [Actors -> Nat]
          /\ tmux' = [tmux EXCEPT !.session = s]
          /\ fromTmux' = Append(fromTmux, Notify("session-changed", s))
      BY <1>1, <1>4, Spent DEF Switch, Actors
    <2>2. tmux' \in Server
      BY <1>1, <2>1 DEF Server
    <2>3. <<Notify("session-changed", s)>> \in Seq(Event)
          /\ fromTmux' = fromTmux \o <<Notify("session-changed", s)>>
      BY <1>1, <2>1, EventsTyped
    <2> QED BY <2>1, <2>2, <2>3, ServerNotified
  <1> QED BY <1>2, <1>3, <1>4

-----------------------------------------------------------------------------
LEMMA Initially ==
  ASSUME Init
  PROVE  IInv
  <1> DEFINE attach == Block(Attach, Empty)
             started == Notify("session-changed", tmux.session)
  <1>1. tmux \in Server
    BY AttachedTyped DEF Init
  <1>2. attach \in Notification /\ IsAttach(attach) /\ ~IsReply(attach)
    BY RepliesTyped DEF Notification, Block, IsAttach, IsReply
  <1>3. started \in Event /\ ~IsAttach(started) /\ ~IsReply(started)
        /\ started \in Notification
    <2>1. started \in Event
      BY <1>1, EventsTyped DEF Server
    <2> QED BY <2>1, EventsAnswerNothing
  <1>4. fromTmux = <<attach, started>>
    BY DEF Init
  <1> HIDE DEF attach, started
  <1>5. /\ fromTmux \in Seq(Notification) /\ fromTmux # <<>>
        /\ Head(fromTmux) = attach /\ DOMAIN fromTmux = 1 .. 2
        /\ fromTmux[1] = attach /\ fromTmux[2] = started
    BY <1>2, <1>3, <1>4
  <1>6. Answers(fromTmux) = {}
    BY <1>2, <1>3, <1>5 DEF Answers
  <1>7. TypeOK
    <2>1. fed \in [Panes -> Seq(Nat)] /\ \A p \in Panes : fed[p] = <<>>
      BY DEF Init
    <2>2. windows \in [Windows -> Layout] /\ panes = Leaves(windows)
      BY NoWindowsTyped DEF Init
    <2>3. spent \in [Actors -> Nat]
      BY DEF Init
    <2>4. queue \in Seq(Command) /\ commands \in Seq(Command) /\ toTmux \in Seq(Command)
      BY DEF Init
    <2>5. /\ state = "StartupBlock" /\ sessionId = None /\ active = None
          /\ grid \in Sizes /\ clientSize = grid /\ lastRefresh = None
          /\ batch = FALSE /\ changed = FALSE /\ tabs = {} /\ mapped = FALSE
          /\ raced = FALSE /\ panes = {}
      BY DEF Init
    <2> QED BY <1>1, <1>5, <2>1, <2>2, <2>3, <2>4, <2>5 DEF TypeOK
  <1>8. StartupInv
    BY <1>6 DEF Init, StartupInv
  <1>9. AttachInv
    BY <1>2, <1>3, <1>5 DEF Init, AttachInv
  <1>10. FlightInv
    BY DEF Init, FlightInv
  <1> QED BY <1>7, <1>8, <1>9, <1>10 DEF IInv

(* Every step of the client, the user or tmux keeps the invariant.         *)
LEMMA Stepwise ==
  ASSUME IInv, [Next]_vars
  PROVE  IInv'
  <1>1. CASE TakeNotification
    BY <1>1, BlockTaken, SessionChangedTaken, LayoutChangeTaken, WindowChangeTaken,
       PaneChangedTaken, OutputTaken, ExitTaken DEF TakeNotification
  <1>2. CASE EndBatch
    BY <1>2, BatchEnded
  <1>3. CASE User
    BY <1>3, UserActed
  <1>4. CASE Execute
    BY <1>4, CommandExecuted
  <1>5. CASE Remote \/ (\E p \in Panes : PrintOutput(p))
             \/ (\E s \in Sessions : Switch(s))
    BY <1>5, ServerActed
  <1>6. CASE UNCHANGED vars
    BY <1>6 DEF IInv, TypeOK, StartupInv, AttachInv, FlightInv, vars, viewerVars,
               driverVars, nativeVars
  <1> QED BY <1>1, <1>2, <1>3, <1>4, <1>5, <1>6 DEF Next

THEOREM Invariance == Spec => []IInv
  <1>1. Init => IInv
    BY Initially
  <1>2. IInv /\ [Next]_vars => IInv'
    BY Stepwise
  <1> QED BY <1>1, <1>2, PTL DEF Spec

(* The variables keep their types, the panes stay the leaves of the        *)
(* layouts and no other pane has a terminal, whatever tmux says and        *)
(* however it is interleaved with the replies.                             *)
THEOREM TypeCorrect == Spec => []TypeOK
  <1>1. IInv => TypeOK
    BY DEF IInv
  <1> QED BY <1>1, Invariance, PTL

(* In steady state the only command in flight is the head of the queue,    *)
(* so the next reply answers it, for any number of panes, windows and      *)
(* sessions, unless a session change overtakes a reply.                    *)
THEOREM CommandInFlight == Spec => []OneInFlight
  <1>1. IInv => OneInFlight
    BY FlightIsOne DEF IInv
  <1> QED BY <1>1, Invariance, PTL

-----------------------------------------------------------------------------
(* The mirror.                                                             *)

(* What the Viewer will have heard: its session, windows, active pane and  *)
(* terminals once every notification on the pty has been taken, and the    *)
(* panes it begins to track on the way, which it will ask captures of.     *)
Views == [id : Sessions \cup {None}, windows : [Windows -> Layout],
          active : Panes \cup {None}, fed : [Panes -> Seq(Nat)], new : SUBSET Panes]
View == [id |-> sessionId, windows |-> windows, active |-> active, fed |-> fed,
         new |-> {}]

Relaid(v, ws) ==
    [v EXCEPT !.windows = ws,
              !.fed = [p \in Panes |-> IF p \in Leaves(ws) THEN v.fed[p] ELSE <<>>],
              !.new = v.new \cup (Leaves(ws) \ Leaves(v.windows))]

FedWith(v, p, s) ==
    IF p \in Leaves(v.windows) THEN [v EXCEPT !.fed = [v.fed EXCEPT ![p] = @ \o s]] ELSE v

HearReply(v, c, r) ==
    IF c = ListWindows /\ r.type # "text"
      THEN Relaid(v, IF r.type = "windows" THEN r.windows ELSE NoWindows)
    ELSE IF c.op \in {"capture-history", "capture-visible"}
      THEN FedWith(v, c.arg, Shows(r))
    ELSE v

Restarted(z) ==
    [id |-> z, windows |-> NoWindows, active |-> None,
     fed |-> [p \in Panes |-> <<>>], new |-> {}]

Hear(v, n) ==
    IF n.kind = "session-changed" THEN Restarted(n.arg)
    ELSE IF n.kind = "layout-change"
      THEN IF v.windows[n.arg] = NoLayout THEN v
           ELSE Relaid(v, [v.windows EXCEPT ![n.arg] = n.layout])
    ELSE IF n.kind = "pane-changed" THEN [v EXCEPT !.active = n.arg]
    ELSE IF n.kind = "output" THEN FedWith(v, n.arg, <<n.data>>)
    ELSE IF n.kind = "block" THEN HearReply(v, n.of, n.reply)
    ELSE v

Heard(v, s) == FoldLeft(Hear, v, s)
Final == Heard(View, fromTmux)

(* The commands of the queue that tmux has not executed.                   *)
Waiting(q, s) == IF Answers(s) = {} THEN q ELSE Tail(q)
Pend == Waiting(queue, fromTmux)
Has(q, c) == \E j \in DOMAIN q : q[j] = c

(* Notifications after which the list of windows is asked for again.       *)
CallKinds == {"session-changed", "window-add", "window-close"}
Calls(s) == \E i \in DOMAIN s : s[i].kind \in CallKinds
Restarts(s) == \E i \in DOMAIN s : s[i].kind = "session-changed"

(* The panes of tmux's session.                                            *)
Own(t) == UNION {t.tree[t.session][w] : w \in Windows}

(* A terminal that ends with the last of n outputs.                        *)
EndsWith(f, n) ==
    \A j \in 0 .. Rows - 1 : j < n => j < Len(f) /\ f[Len(f) - j] = n - j

(* A pane is in one window and a window in one session; what is there has  *)
(* been used, and only a pane that has been used has printed.              *)
Tree(t) ==
    /\ \A s, z \in Sessions, w, v \in Windows :
         t.tree[s][w] \cap t.tree[z][v] # {} => s = z /\ w = v
    /\ \A s, z \in Sessions, w \in Windows :
         t.tree[s][w] # {} /\ t.tree[z][w] # {} => s = z
    /\ \A s \in Sessions, w \in Windows :
         t.tree[s][w] # {} => w \in t.used /\ t.tree[s][w] \subseteq t.used
    /\ \A p \in Panes \ t.used : t.printed[p] = 0

(* The view v that results from the notifications s mirrors tmux, as far   *)
(* as the waiting commands q do not see to it.                             *)
ListOf(v, t, q, s) == Has(q, ListWindows) \/ Calls(s) \/ v.windows = Listing(t)
ActiveOf(v, t, q) ==
    v.active \in Own(t) =>
        \/ t.active[WindowOf(t, v.active)] = v.active
        \/ Has(q, Cmd("select-pane", v.active))
ScreensOf(v, t, q) ==
    \A p \in Leaves(v.windows) \cap Own(t) :
        \/ EndsWith(v.fed[p], t.printed[p])
        \/ p \in v.new
        \/ Has(q, Cmd("capture-visible", p))
Mirrors(v, t, q, s) ==
    v.id = t.session /\ ListOf(v, t, q, s) /\ ActiveOf(v, t, q) /\ ScreensOf(v, t, q)

(* The history of a pane is captured before what is visible.               *)
HistoryFirst(q) ==
    \A j \in DOMAIN q : q[j].op = "capture-history" =>
        \E i \in DOMAIN q : i > j /\ q[i] = Cmd("capture-visible", q[j].arg)

(* The last size waiting to be declared is g, or tmux's size is.           *)
Refreshes(q) == {j \in DOMAIN q : q[j].op = "refresh-client"}
Declared(q, size, g) ==
    \/ Refreshes(q) = {} /\ size = g
    \/ \E j \in Refreshes(q) : q[j] = RefreshClient(g) /\ \A i \in Refreshes(q) : i <= j

Starting == state \in {"StartupBlock", "StartupSession"}

(* The inductive invariant of the mirror.                                  *)
StartInv ==
    Starting => /\ windows = NoWindows /\ active = None /\ clientSize = grid
                /\ Restarts(fromTmux)
TabsInv ==
    /\ changed => batch
    /\ state # "Defunct" => changed \/ tabs = Present(windows)
ViewInv ==
    state # "Defunct" /\ ~raced =>
        Mirrors(Final, tmux, Pend, fromTmux) /\ HistoryFirst(Pend)
SizeInv ==
    state = "CommandQueue" /\ ~raced =>
        lastRefresh \in {None, grid} /\ Declared(Pend, tmux.size, grid)
MirrorInv == Tree(tmux) /\ StartInv /\ TabsInv /\ ViewInv /\ SizeInv

-----------------------------------------------------------------------------
(* Hearing.                                                                *)

HasHeard(c, v) ==
    /\ v \in Views /\ v.id = c.id /\ c.new \subseteq v.new
    /\ \A p \in Leaves(v.windows) :
         p \in v.new \/ (p \in Leaves(c.windows) /\ v.fed[p] = c.fed[p])
(* Two views that differ at most in that the panes c[1] are not new to the *)
(* second one and in that its active pane is of c[2].                      *)
Alike(c, uv) ==
    LET u == uv[1]
        v == uv[2]
    IN  /\ u \in Views /\ v \in Views
        /\ u.id = v.id /\ u.windows = v.windows /\ u.fed = v.fed
        /\ v.active = u.active \/ v.active \in c[2]
        /\ u.new \subseteq v.new \cup c[1]

Typed(c, v) == v \in Views

Hearing == INSTANCE FoldFacts WITH Step <- Hear, Inv <- Typed
Rehearing == INSTANCE FoldFacts WITH Step <- Hear, Inv <- HasHeard
Both == INSTANCE FoldFacts WITH Step <- Hear, Inv <- Alike

LEMMA HeardFolds == \A v, s : Heard(v, s) = Hearing!Fold(v, s)
  BY Zenon DEF Heard, FoldLeft, Hearing!FoldLeft, MapThenFoldSet, Hearing!MapThenFoldSet,
     Max, Hearing!Max, Hearing!Fold

LEMMA ReheardFolds == \A v, s : Heard(v, s) = Rehearing!Fold(v, s)
  BY Zenon DEF Heard, FoldLeft, Rehearing!FoldLeft, MapThenFoldSet, Rehearing!MapThenFoldSet,
     Max, Rehearing!Max, Rehearing!Fold

LEMMA BothFolds == \A v, s : Heard(v, s) = Both!Fold(v, s)
  BY Zenon DEF Heard, FoldLeft, Both!FoldLeft, MapThenFoldSet, Both!MapThenFoldSet,
     Max, Both!Max, Both!Fold

LEMMA HeardNone == \A v : Heard(v, <<>>) = v
  BY HeardFolds, Hearing!FoldEmpty

LEMMA HeardOne == \A v, n : Heard(v, <<n>>) = Hear(v, n)
  BY HeardFolds, Hearing!FoldOne

LEMMA HeardBoth ==
  ASSUME NEW v, NEW s \in Seq(Notification), NEW r \in Seq(Notification)
  PROVE  Heard(v, s \o r) = Heard(Heard(v, s), r)
  BY HeardFolds, Hearing!FoldConcat

LEMMA HeardFirst ==
  ASSUME NEW v, NEW s \in Seq(Notification), s # <<>>
  PROVE  Heard(v, s) = Heard(Hear(v, Head(s)), Tail(s))
  <1>1. s = <<Head(s)>> \o Tail(s)
    BY HeadTailProperties
  <1>2. <<Head(s)>> \in Seq(Notification) /\ Tail(s) \in Seq(Notification)
    OBVIOUS
  <1>3. Heard(v, <<Head(s)>> \o Tail(s)) = Heard(Heard(v, <<Head(s)>>), Tail(s))
    BY <1>2, HeardBoth
  <1> QED BY <1>1, <1>3, HeardOne

LEMMA RelaidIs ==
  ASSUME NEW v \in Views, NEW ws \in [Windows -> Layout]
  PROVE  /\ Relaid(v, ws) \in Views
         /\ Relaid(v, ws).id = v.id /\ Relaid(v, ws).active = v.active
         /\ Relaid(v, ws).windows = ws
         /\ Relaid(v, ws).new = v.new \cup (Leaves(ws) \ Leaves(v.windows))
         /\ Relaid(v, ws).fed = [p \in Panes |-> IF p \in Leaves(ws) THEN v.fed[p] ELSE <<>>]
  <1> DEFINE f == [p \in Panes |-> IF p \in Leaves(ws) THEN v.fed[p] ELSE <<>>]
             new == v.new \cup (Leaves(ws) \ Leaves(v.windows))
  <1>1. f \in [Panes -> Seq(Nat)]
    <2>1. v.fed \in [Panes -> Seq(Nat)] /\ <<>> \in Seq(Nat)
      BY DEF Views
    <2> QED BY <2>1
  <1>2. new \in SUBSET Panes
    BY LeavesTyped DEF Views
  <1>3. Relaid(v, ws) = [v EXCEPT !.windows = ws, !.fed = f, !.new = new]
    BY DEF Relaid
  <1> HIDE DEF f, new
  <1> QED BY <1>1, <1>2, <1>3 DEF Views, f, new

LEMMA FedWithIs ==
  ASSUME NEW v \in Views, NEW p \in Panes, NEW s \in Seq(Nat)
  PROVE  /\ FedWith(v, p, s) \in Views
         /\ FedWith(v, p, s).id = v.id /\ FedWith(v, p, s).active = v.active
         /\ FedWith(v, p, s).windows = v.windows /\ FedWith(v, p, s).new = v.new
         /\ FedWith(v, p, s).fed =
              IF p \in Leaves(v.windows) THEN [v.fed EXCEPT ![p] = @ \o s] ELSE v.fed
  <1> DEFINE f == [v.fed EXCEPT ![p] = @ \o s]
  <1>1. f \in [Panes -> Seq(Nat)]
    <2>1. v.fed[p] \in Seq(Nat) /\ v.fed \in [Panes -> Seq(Nat)]
      BY DEF Views
    <2>2. v.fed[p] \o s \in Seq(Nat)
      BY <2>1
    <2> QED BY <2>1, <2>2
  <1>2. FedWith(v, p, s) = IF p \in Leaves(v.windows) THEN [v EXCEPT !.fed = f] ELSE v
    BY DEF FedWith
  <1> HIDE DEF f
  <1> QED BY <1>1, <1>2 DEF Views, f

LEMMA ShowsTyped ==
  ASSUME NEW r \in Reply
  PROVE  Shows(r) \in Seq(Nat)
  BY DEF Shows, Reply, Empty

LEMMA ListTyped ==
  ASSUME NEW r \in Reply
  PROVE  (IF r.type = "windows" THEN r.windows ELSE NoWindows) \in [Windows -> Layout]
  <1>1. r.type = "windows" => r.windows \in [Windows -> Layout]
    BY DEF Reply, Empty
  <1> QED BY <1>1, NoWindowsTyped

(* What a notification comes to, by its kind.                              *)
LEMMA HearIs ==
  ASSUME NEW n \in Notification
  PROVE  \/ /\ n.kind = "session-changed" /\ n.arg \in Sessions
            /\ \A v : Hear(v, n) = Restarted(n.arg)
         \/ /\ n.kind = "layout-change" /\ n.arg \in Windows /\ n.layout \in Layout
            /\ \A v : Hear(v, n) = IF v.windows[n.arg] = NoLayout THEN v
                                   ELSE Relaid(v, [v.windows EXCEPT ![n.arg] = n.layout])
         \/ /\ n.kind = "pane-changed" /\ n.arg \in Panes
            /\ \A v : Hear(v, n) = [v EXCEPT !.active = n.arg]
         \/ /\ n.kind = "output" /\ n.arg \in Panes /\ <<n.data>> \in Seq(Nat)
            /\ \A v : Hear(v, n) = FedWith(v, n.arg, <<n.data>>)
         \/ /\ n.kind = "block" /\ n.of = ListWindows /\ n.reply.type # "text"
            /\ \E ws \in [Windows -> Layout] : \A v : Hear(v, n) = Relaid(v, ws)
         \/ /\ n.kind = "block" /\ n.of.op \in {"capture-history", "capture-visible"}
            /\ n.of.arg \in Panes /\ Shows(n.reply) \in Seq(Nat)
            /\ \A v : Hear(v, n) = FedWith(v, n.of.arg, Shows(n.reply))
         \/ /\ n.kind \in {"block", "window-add", "window-close", "exit"}
            /\ \A v : Hear(v, n) = v
  <1>1. CASE n.kind = "session-changed"
    BY <1>1, KindsTyped DEF Hear
  <1>2. CASE n.kind = "layout-change"
    BY <1>2, KindsTyped DEF Hear
  <1>3. CASE n.kind = "pane-changed"
    BY <1>3, KindsTyped DEF Hear
  <1>4. CASE n.kind = "output"
    <2>1. n.arg \in Panes /\ <<n.data>> \in Seq(Nat)
      BY <1>4, KindsTyped
    <2> QED BY <1>4, <2>1 DEF Hear
  <1>5. CASE n.kind = "block"
    <2>1. n.reply \in Reply /\ n.of \in Command \cup {Attach}
      BY <1>5 DEF Notification, Event
    <2>2. \A v : Hear(v, n) = HearReply(v, n.of, n.reply)
      BY <1>5 DEF Hear
    <2>3. CASE n.of = ListWindows /\ n.reply.type # "text"
      <3> DEFINE ws == IF n.reply.type = "windows" THEN n.reply.windows ELSE NoWindows
      <3>1. ws \in [Windows -> Layout]
        BY <2>1, ListTyped
      <3>2. \A v : Hear(v, n) = Relaid(v, ws)
        BY <2>2, <2>3 DEF HearReply
      <3> HIDE DEF ws
      <3> QED BY <1>5, <2>3, <3>1, <3>2
    <2>4. CASE /\ ~(n.of = ListWindows /\ n.reply.type # "text")
               /\ n.of.op \in {"capture-history", "capture-visible"}
      <3>1. n.of \in Command
        BY <2>1, <2>4 DEF Attach, Cmd
      <3>2. n.of.arg \in Panes
        BY <2>4, <3>1, CommandCases DEF PlainOps
      <3> QED BY <1>5, <2>1, <2>2, <2>4, <3>2, ShowsTyped DEF HearReply
    <2>5. CASE /\ ~(n.of = ListWindows /\ n.reply.type # "text")
               /\ n.of.op \notin {"capture-history", "capture-visible"}
      BY <1>5, <2>2, <2>5 DEF HearReply
    <2> QED BY <2>3, <2>4, <2>5
  <1>6. CASE n.kind \in {"window-add", "window-close", "exit"}
    BY <1>6 DEF Hear
  <1>7. n.kind \in {"session-changed", "layout-change", "pane-changed", "output", "block",
                    "window-add", "window-close", "exit"}
    BY DEF Notification, Event
  <1> QED BY <1>1, <1>2, <1>3, <1>4, <1>5, <1>6, <1>7

LEMMA RestartedTyped ==
  ASSUME NEW z \in Sessions
  PROVE  Restarted(z) \in Views
  BY NoWindowsTyped DEF Restarted, Views

LEMMA HearTyped ==
  ASSUME NEW v \in Views, NEW n \in Notification
  PROVE  Hear(v, n) \in Views
  <1>1. CASE n.kind = "layout-change"
    <2>1. n.arg \in Windows /\ n.layout \in Layout /\ v.windows \in [Windows -> Layout]
      BY <1>1, KindsTyped DEF Views
    <2>2. [v.windows EXCEPT ![n.arg] = n.layout] \in [Windows -> Layout]
      BY <2>1
    <2> QED BY <1>1, <2>2, RelaidIs DEF Hear
  <1>2. CASE n.kind = "pane-changed"
    BY <1>2, KindsTyped DEF Hear, Views
  <1>3. CASE n.kind \notin {"layout-change", "pane-changed"}
    <2>1. CASE n.kind = "session-changed"
      BY <2>1, HearIs, RestartedTyped
    <2>2. CASE \E p \in Panes, s \in Seq(Nat) : Hear(v, n) = FedWith(v, p, s)
      BY <2>2, FedWithIs
    <2>3. CASE \E ws \in [Windows -> Layout] : Hear(v, n) = Relaid(v, ws)
      <3>1. PICK ws \in [Windows -> Layout] : Hear(v, n) = Relaid(v, ws)
        BY <2>3
      <3>2. Relaid(v, ws) \in Views
        BY RelaidIs
      <3> QED BY <3>1, <3>2
    <2>4. CASE Hear(v, n) = v
      BY <2>4
    <2> QED BY <1>3, <2>1, <2>2, <2>3, <2>4, HearIs
  <1> QED BY <1>1, <1>2, <1>3

LEMMA HeardTyped ==
  ASSUME NEW v \in Views, NEW s \in Seq(Notification)
  PROVE  Heard(v, s) \in Views
  <1>1. Typed({}, v)
    BY DEF Typed
  <1>2. \A u : \A n \in Notification : Typed({}, u) => Typed({}, Hear(u, n))
    BY HearTyped DEF Typed
  <1>3. Typed({}, Hearing!Fold(v, s))
    BY <1>1, <1>2, Hearing!FoldKeeps
  <1> QED BY <1>3, HeardFolds DEF Typed

(* After a session change nothing that was heard before matters.           *)
LEMMA RestartHeard ==
  ASSUME NEW v, NEW u, NEW s \in Seq(Notification), Restarts(s)
  PROVE  Heard(v, s) = Heard(u, s)
  <1>1. PICK i \in DOMAIN s : s[i].kind = "session-changed"
    BY DEF Restarts
  <1> DEFINE before == SubSeq(s, 1, i - 1)
             after == SubSeq(s, i + 1, Len(s))
  <1>2. Len(s) \in Nat /\ i \in 1 .. Len(s) /\ s[i] \in Notification
    OBVIOUS
  <1>3. before \in Seq(Notification) /\ after \in Seq(Notification)
        /\ <<s[i]>> \in Seq(Notification)
    BY <1>2
  <1>4. s = before \o (<<s[i]>> \o after)
    <2>1. Len(before) = i - 1 /\ \A k \in 1 .. i - 1 : before[k] = s[k]
      BY <1>2
    <2>2. Len(after) = Len(s) - i /\ \A k \in 1 .. Len(s) - i : after[k] = s[k + i]
      BY <1>2
    <2> DEFINE rest == <<s[i]>> \o after
               whole == before \o rest
    <2>3. /\ rest \in Seq(Notification) /\ Len(rest) = Len(s) - i + 1
          /\ rest[1] = s[i] /\ \A k \in 2 .. Len(s) - i + 1 : rest[k] = after[k - 1]
      <3> HIDE DEF after
      <3> QED BY <1>2, <1>3, <2>2
    <2> HIDE DEF before, after, rest
    <2>4. /\ whole \in Seq(Notification) /\ Len(whole) = Len(s)
          /\ \A k \in 1 .. i - 1 : whole[k] = before[k]
          /\ \A k \in i .. Len(s) : whole[k] = rest[k - i + 1]
      BY <1>2, <1>3, <2>1, <2>3
    <2>5. \A k \in 1 .. Len(s) : whole[k] = s[k]
      <3> SUFFICES ASSUME NEW k \in 1 .. Len(s) PROVE whole[k] = s[k]
        OBVIOUS
      <3>1. CASE k < i
        BY <1>2, <2>1, <2>4, <3>1
      <3>2. CASE k = i
        BY <1>2, <2>3, <2>4, <3>2
      <3>3. CASE k > i
        <4>1. /\ k \in i .. Len(s) /\ k - i + 1 \in 2 .. Len(s) - i + 1
              /\ (k - i + 1) - 1 = k - i /\ k - i \in 1 .. Len(s) - i /\ (k - i) + i = k
          BY <1>2, <3>3
        <4>2. whole[k] = rest[k - i + 1] /\ rest[k - i + 1] = after[k - i]
          BY <2>3, <2>4, <4>1
        <4>3. after[k - i] = s[k]
          BY <2>2, <4>1
        <4> QED BY <4>2, <4>3
      <3>4. k < i \/ k = i \/ k > i
        BY <1>2
      <3> QED BY <3>1, <3>2, <3>3, <3>4
    <2> HIDE DEF whole
    <2>6. whole = s
      BY <2>4, <2>5, SeqEqual
    <2> QED BY <2>6 DEF whole, rest
  <1> HIDE DEF before, after
  <1>5. ASSUME NEW x
        PROVE  Heard(x, s) = Heard(Restarted(s[i].arg), after)
    <2>1. <<s[i]>> \o after \in Seq(Notification)
      BY <1>3
    <2>2. Heard(x, before \o (<<s[i]>> \o after)) = Heard(Heard(x, before), <<s[i]>> \o after)
      BY <1>3, <2>1, HeardBoth
    <2>3. Heard(Heard(x, before), <<s[i]>> \o after) =
            Heard(Heard(Heard(x, before), <<s[i]>>), after)
      BY <1>3, HeardBoth
    <2>4. Heard(Heard(x, before), <<s[i]>>) = Restarted(s[i].arg)
      BY <1>1, HeardOne DEF Hear
    <2> QED BY <1>4, <2>2, <2>3, <2>4
  <1> QED BY <1>5

-----------------------------------------------------------------------------
(* Views that differ so little stay so.                                    *)
LEMMA AlikeHears ==
  ASSUME NEW c, NEW u, NEW v, NEW n \in Notification, Alike(c, <<u, v>>)
  PROVE  Alike(c, <<Hear(u, n), Hear(v, n)>>)
  <1>1. /\ u \in Views /\ v \in Views
        /\ u.id = v.id /\ u.windows = v.windows /\ u.fed = v.fed
        /\ v.active = u.active \/ v.active \in c[2]
        /\ u.new \subseteq v.new \cup c[1]
    BY DEF Alike
  <1>2. Hear(u, n) \in Views /\ Hear(v, n) \in Views
    BY <1>1, HearTyped
  <1>3. SUFFICES LET a == Hear(u, n)
                     b == Hear(v, n)
                 IN  a.id = b.id /\ a.windows = b.windows /\ a.fed = b.fed
                     /\ (b.active = a.active \/ b.active \in c[2])
                     /\ a.new \subseteq b.new \cup c[1]
    BY <1>2 DEF Alike
  <1>4. CASE n.kind = "session-changed"
    BY <1>4 DEF Hear
  <1>5. CASE Hear(u, n) = u /\ Hear(v, n) = v
    BY <1>1, <1>5
  <1>6. CASE \E ws \in [Windows -> Layout] : Hear(u, n) = Relaid(u, ws) /\ Hear(v, n) = Relaid(v, ws)
    <2>1. PICK ws \in [Windows -> Layout] :
            Hear(u, n) = Relaid(u, ws) /\ Hear(v, n) = Relaid(v, ws)
      BY <1>6
    <2>2. /\ Relaid(u, ws).new = u.new \cup (Leaves(ws) \ Leaves(u.windows))
          /\ Relaid(v, ws).new = v.new \cup (Leaves(ws) \ Leaves(v.windows))
          /\ Relaid(u, ws).id = u.id /\ Relaid(v, ws).id = v.id
          /\ Relaid(u, ws).active = u.active /\ Relaid(v, ws).active = v.active
          /\ Relaid(u, ws).windows = ws /\ Relaid(v, ws).windows = ws
          /\ Relaid(u, ws).fed = [p \in Panes |-> IF p \in Leaves(ws) THEN u.fed[p] ELSE <<>>]
          /\ Relaid(v, ws).fed = [p \in Panes |-> IF p \in Leaves(ws) THEN v.fed[p] ELSE <<>>]
      BY <1>1, RelaidIs
    <2> QED BY <1>1, <2>1, <2>2
  <1>7. CASE \E p \in Panes, s \in Seq(Nat) :
               Hear(u, n) = FedWith(u, p, s) /\ Hear(v, n) = FedWith(v, p, s)
    <2>1. PICK p \in Panes, s \in Seq(Nat) :
            Hear(u, n) = FedWith(u, p, s) /\ Hear(v, n) = FedWith(v, p, s)
      BY <1>7
    <2>2. /\ FedWith(u, p, s).new = u.new /\ FedWith(v, p, s).new = v.new
          /\ FedWith(u, p, s).id = u.id /\ FedWith(v, p, s).id = v.id
          /\ FedWith(u, p, s).active = u.active /\ FedWith(v, p, s).active = v.active
          /\ FedWith(u, p, s).windows = u.windows /\ FedWith(v, p, s).windows = v.windows
          /\ FedWith(u, p, s).fed =
               IF p \in Leaves(u.windows) THEN [u.fed EXCEPT ![p] = @ \o s] ELSE u.fed
          /\ FedWith(v, p, s).fed =
               IF p \in Leaves(v.windows) THEN [v.fed EXCEPT ![p] = @ \o s] ELSE v.fed
      BY <1>1, FedWithIs
    <2> QED BY <1>1, <2>1, <2>2
  <1>8. CASE n.kind = "layout-change" /\ n.arg \in Windows /\ n.layout \in Layout
    <2> DEFINE ws == [v.windows EXCEPT ![n.arg] = n.layout]
    <2>1. ws \in [Windows -> Layout]
      BY <1>1, <1>8 DEF Views
    <2>2. /\ Hear(u, n) = IF v.windows[n.arg] = NoLayout THEN u ELSE Relaid(u, ws)
          /\ Hear(v, n) = IF v.windows[n.arg] = NoLayout THEN v ELSE Relaid(v, ws)
      BY <1>1, <1>8 DEF Hear
    <2> HIDE DEF ws
    <2> QED BY <1>5, <1>6, <2>1, <2>2
  <1>9. CASE n.kind = "pane-changed"
    <2>1. Hear(u, n) = [u EXCEPT !.active = n.arg] /\ Hear(v, n) = [v EXCEPT !.active = n.arg]
      BY <1>9 DEF Hear
    <2> QED BY <1>1, <2>1 DEF Views
  <1> QED BY <1>4, <1>5, <1>6, <1>7, <1>8, <1>9, HearIs

LEMMA AlikeHeard ==
  ASSUME NEW c, NEW u, NEW v, NEW s \in Seq(Notification), Alike(c, <<u, v>>)
  PROVE  Alike(c, <<Heard(u, s), Heard(v, s)>>)
  <1>1. \A a, b : \A n \in Notification :
          Alike(c, <<a, b>>) => Alike(c, <<Hear(a, n), Hear(b, n)>>)
    BY AlikeHears
  <1>2. Alike(c, <<Both!Fold(u, s), Both!Fold(v, s)>>)
    BY <1>1, Both!FoldRelates
  <1> QED BY <1>2, BothFolds

-----------------------------------------------------------------------------
(* Events that feed no pane and do not change the session.                 *)
QuietKinds == {"layout-change", "pane-changed", "window-add", "window-close", "exit"}
QuietEvents == {n \in Notification : n.kind \in QuietKinds}

LEMMA QuietHears ==
  ASSUME NEW c, NEW v, NEW n \in QuietEvents, HasHeard(c, v)
  PROVE  HasHeard(c, Hear(v, n))
  <1>1. n \in Notification /\ n.kind \in QuietKinds
    BY DEF QuietEvents
  <1>2. /\ v \in Views /\ v.id = c.id /\ c.new \subseteq v.new
        /\ \A p \in Leaves(v.windows) :
             p \in v.new \/ (p \in Leaves(c.windows) /\ v.fed[p] = c.fed[p])
    BY DEF HasHeard
  <1>3. CASE Hear(v, n) = v
    BY <1>3
  <1>4. CASE n.kind = "layout-change" /\ n.arg \in Windows /\ n.layout \in Layout
             /\ Hear(v, n) # v
    <2> DEFINE ws == [v.windows EXCEPT ![n.arg] = n.layout]
    <2>1. ws \in [Windows -> Layout] /\ Hear(v, n) = Relaid(v, ws)
      BY <1>2, <1>4 DEF Views, Hear
    <2> HIDE DEF ws
    <2> DEFINE u == Relaid(v, ws)
    <2>2. /\ u \in Views /\ u.id = v.id /\ u.windows = ws
          /\ u.new = v.new \cup (Leaves(ws) \ Leaves(v.windows))
          /\ u.fed = [p \in Panes |-> IF p \in Leaves(ws) THEN v.fed[p] ELSE <<>>]
      BY <1>2, <2>1, RelaidIs
    <2>3. Leaves(ws) \subseteq Panes
      BY <2>1, LeavesTyped
    <2> HIDE DEF u
    <2>4. HasHeard(c, u)
      BY <1>2, <2>2, <2>3 DEF HasHeard
    <2> QED BY <2>1, <2>4 DEF u
  <1>5. CASE n.kind = "pane-changed"
    <2>1. Hear(v, n) = [v EXCEPT !.active = n.arg] /\ Hear(v, n) \in Views
      BY <1>1, <1>2, <1>5, HearTyped DEF Hear
    <2>2. /\ Hear(v, n).id = v.id /\ Hear(v, n).windows = v.windows
          /\ Hear(v, n).fed = v.fed /\ Hear(v, n).new = v.new
      BY <1>2, <2>1 DEF Views
    <2> QED BY <1>2, <2>1, <2>2 DEF HasHeard
  <1>6. CASE n.kind \in {"window-add", "window-close", "exit"}
    BY <1>3, <1>6 DEF Hear
  <1>7. n.kind = "layout-change" => n.arg \in Windows /\ n.layout \in Layout
    BY <1>1, KindsTyped
  <1> QED BY <1>1, <1>3, <1>4, <1>5, <1>6, <1>7 DEF QuietKinds

LEMMA QuietHeard ==
  ASSUME NEW v \in Views, NEW s \in Seq(QuietEvents)
  PROVE  HasHeard(v, Heard(v, s))
  <1>1. HasHeard(v, v)
    BY DEF HasHeard
  <1>2. \A a : \A n \in QuietEvents : HasHeard(v, a) => HasHeard(v, Hear(a, n))
    BY QuietHears
  <1>3. HasHeard(v, Rehearing!Fold(v, s))
    BY <1>1, <1>2, Rehearing!FoldKeeps
  <1> QED BY <1>3, ReheardFolds

-----------------------------------------------------------------------------
(* Screens.                                                                *)
LEMMA ScreenIs ==
  ASSUME NEW t \in Server, NEW p \in Panes
  PROVE  LET n == t.printed[p]
             k == IF n > Rows THEN Rows ELSE n
         IN  /\ n \in Nat /\ k \in Nat /\ k <= n
             /\ OnScreen(t, p) \in Seq(Nat) /\ Len(OnScreen(t, p)) = k
             /\ \A j \in 1 .. k : OnScreen(t, p)[j] = n - k + j
  <1> DEFINE n == t.printed[p]
             k == IF n > Rows THEN Rows ELSE n
             first == IF n > Rows THEN n - Rows + 1 ELSE 1
  <1>1. n \in Nat /\ k \in Nat /\ k <= n /\ first = n - k + 1 /\ first \in Nat
    BY RowsAssumption DEF Server
  <1>2. OnScreen(t, p) = SubSeq(Printed(t, p), first, n)
    BY DEF OnScreen
  <1>3. DOMAIN Printed(t, p) = 1 .. n /\ \A i \in 1 .. n : Printed(t, p)[i] = i
    BY DEF Printed
  <1> HIDE DEF n, k, first
  <1>4. \A i \in first .. n : i \in 1 .. n /\ Printed(t, p)[i] \in Nat
    BY <1>1, <1>3
  <1> DEFINE o == SubSeq(Printed(t, p), first, n)
  <1>5. /\ o \in Seq(Nat) /\ Len(o) = IF first <= n THEN n - first + 1 ELSE 0
        /\ \A i \in 1 .. n - first + 1 : o[i] = Printed(t, p)[first + i - 1]
    <2>1. first \in Int /\ n \in Int
      BY <1>1
    <2> QED BY <1>4, <2>1, SubSeqProperties
  <1> HIDE DEF o
  <1>6. Len(o) = k
    BY <1>1, <1>5
  <1>7. ASSUME NEW j \in 1 .. k PROVE o[j] = n - k + j
    <2>1. j \in 1 .. n - first + 1 /\ first + j - 1 \in 1 .. n /\ first + j - 1 = n - k + j
      BY <1>1
    <2> QED BY <1>3, <1>5, <2>1
  <1> QED BY <1>1, <1>2, <1>5, <1>6, <1>7 DEF n, k, o

(* A terminal fed with the screen ends with it.                            *)
LEMMA EndsFed ==
  ASSUME NEW t \in Server, NEW p \in Panes, NEW f \in Seq(Nat)
  PROVE  EndsWith(f \o OnScreen(t, p), t.printed[p])
  <1> DEFINE n == t.printed[p]
             k == IF n > Rows THEN Rows ELSE n
             o == OnScreen(t, p)
             g == f \o o
  <1>1. n \in Nat /\ k \in Nat /\ k <= n /\ o \in Seq(Nat) /\ Len(o) = k
        /\ \A j \in 1 .. k : o[j] = n - k + j
    BY ScreenIs
  <1>2. \A j \in 0 .. Rows - 1 : j < n => j < k
    BY <1>1, RowsAssumption
  <1> HIDE DEF n, k, o
  <1>3. g \in Seq(Nat) /\ Len(g) = Len(f) + k /\ Len(f) \in Nat
        /\ \A i \in 1 .. k : g[Len(f) + i] = o[i]
    BY <1>1
  <1> HIDE DEF g
  <1>4. ASSUME NEW j \in 0 .. Rows - 1, j < n
        PROVE  j < Len(g) /\ g[Len(g) - j] = n - j
    <2>1. j \in Nat /\ j < k
      BY <1>2, <1>4, RowsAssumption
    <2>2. k - j \in 1 .. k /\ Len(g) - j = Len(f) + (k - j) /\ j < Len(g)
          /\ n - k + (k - j) = n - j
      BY <1>1, <1>3, <2>1
    <2>3. g[Len(f) + (k - j)] = o[k - j] /\ o[k - j] = n - k + (k - j)
      BY <1>1, <1>3, <2>2
    <2> QED BY <2>2, <2>3
  <1> QED BY <1>4 DEF EndsWith, g, o, n

(* The next output keeps that.                                             *)
LEMMA EndsNext ==
  ASSUME NEW f \in Seq(Nat), NEW n \in Nat, EndsWith(f, n)
  PROVE  EndsWith(f \o <<n + 1>>, n + 1)
  <1> DEFINE g == f \o <<n + 1>>
  <1>1. /\ g \in Seq(Nat) /\ Len(g) = Len(f) + 1 /\ Len(f) \in Nat /\ g[Len(f) + 1] = n + 1
        /\ \A i \in 1 .. Len(f) : g[i] = f[i]
    OBVIOUS
  <1> HIDE DEF g
  <1>2. ASSUME NEW j \in 0 .. Rows - 1, j < n + 1
        PROVE  j < Len(g) /\ g[Len(g) - j] = n + 1 - j
    <2>1. CASE j = 0
      BY <1>1, <2>1
    <2>2. CASE j # 0
      <3>1. j - 1 \in 0 .. Rows - 1 /\ j - 1 < n
        BY <1>2, <2>2, RowsAssumption
      <3>2. j - 1 < Len(f) /\ f[Len(f) - (j - 1)] = n - (j - 1)
        BY <3>1 DEF EndsWith
      <3>3. j \in Nat /\ Len(g) - j = Len(f) - (j - 1) /\ Len(g) - j \in 1 .. Len(f)
            /\ n - (j - 1) = n + 1 - j /\ j < Len(g)
        BY <1>1, <2>2, <3>1, <3>2, RowsAssumption
      <3>4. g[Len(g) - j] = f[Len(g) - j]
        BY <1>1, <3>3
      <3>5. f[Len(g) - j] = n + 1 - j
        BY <3>2, <3>3
      <3> QED BY <3>3, <3>4, <3>5
    <2> QED BY <2>1, <2>2
  <1> QED BY <1>2 DEF EndsWith, g

LEMMA EndsSuffix ==
  ASSUME NEW t \in Server, NEW p \in Panes, NEW f \in Seq(Nat), EndsWith(f, t.printed[p])
  PROVE  IsSuffix(OnScreen(t, p), f)
  <1> DEFINE n == t.printed[p]
             k == IF n > Rows THEN Rows ELSE n
             o == OnScreen(t, p)
             ro == Reverse(o)
             rf == Reverse(f)
  <1>1. n \in Nat /\ k \in Nat /\ k <= n /\ k <= Rows /\ o \in Seq(Nat) /\ Len(o) = k
        /\ \A j \in 1 .. k : o[j] = n - k + j
    BY ScreenIs, RowsAssumption
  <1> HIDE DEF n, k, o
  <1>2. \A j \in 0 .. k - 1 : j < Len(f) /\ f[Len(f) - j] = n - j
    <2>1. \A j \in 0 .. Rows - 1 : j < n => j < Len(f) /\ f[Len(f) - j] = n - j
      BY DEF EndsWith, n
    <2>2. \A j \in 0 .. k - 1 : j \in 0 .. Rows - 1 /\ j < n
      BY <1>1, RowsAssumption
    <2> QED BY <2>1, <2>2
  <1>3. k <= Len(f) /\ Len(f) \in Nat
    <2>1. CASE k = 0
      BY <2>1
    <2>2. CASE k # 0
      <3>1. k - 1 \in 0 .. k - 1
        BY <1>1, <2>2
      <3> QED BY <1>1, <1>2, <3>1
    <2> QED BY <2>1, <2>2
  <1>4. ro \in Seq(Nat) /\ Len(ro) = k /\ \A i \in 1 .. k : ro[i] = o[(k - i) + 1]
    <2>1. \A i \in 1 .. k : (k - i) + 1 \in 1 .. k /\ o[(k - i) + 1] \in Nat
      BY <1>1
    <2>2. ro = [i \in 1 .. k |-> o[(k - i) + 1]]
      BY <1>1 DEF Reverse
    <2> QED BY <1>1, <2>1, <2>2
  <1>5. rf \in Seq(Nat) /\ Len(rf) = Len(f) /\ \A i \in 1 .. Len(f) : rf[i] = f[(Len(f) - i) + 1]
    <2>1. \A i \in 1 .. Len(f) : (Len(f) - i) + 1 \in 1 .. Len(f) /\ f[(Len(f) - i) + 1] \in Nat
      BY <1>3
    <2>2. rf = [i \in 1 .. Len(f) |-> f[(Len(f) - i) + 1]]
      BY DEF Reverse
    <2> QED BY <1>3, <2>1, <2>2
  <1> HIDE DEF ro, rf
  <1>6. \A i \in 1 .. k : ro[i] = rf[i]
    <2> SUFFICES ASSUME NEW i \in 1 .. k PROVE ro[i] = rf[i]
      OBVIOUS
    <2>1. i - 1 \in 0 .. k - 1 /\ Len(f) - (i - 1) = (Len(f) - i) + 1 /\ i \in 1 .. Len(f)
          /\ (k - i) + 1 \in 1 .. k /\ n - k + ((k - i) + 1) = n - (i - 1)
      BY <1>1, <1>3
    <2> QED BY <1>1, <1>2, <1>4, <1>5, <2>1
  <1>7. SubSeq(ro, 1, k) = SubSeq(rf, 1, k)
    <2> DEFINE a == SubSeq(ro, 1, k)
               b == SubSeq(rf, 1, k)
    <2>1. 1 \in Int /\ k \in Int /\ \A i \in 1 .. k : ro[i] \in Nat /\ rf[i] \in Nat
      <3>1. \A i \in 1 .. k : i \in 1 .. Len(ro) /\ i \in 1 .. Len(rf)
        BY <1>1, <1>3, <1>4, <1>5
      <3>2. \A i \in 1 .. k : ro[i] \in Nat
        BY <1>4, <3>1, ElementOfSeq
      <3>3. \A i \in 1 .. k : rf[i] \in Nat
        BY <1>5, <3>1, ElementOfSeq
      <3> QED BY <1>1, <3>2, <3>3
    <2>2. /\ a \in Seq(Nat) /\ Len(a) = (IF 1 <= k THEN k - 1 + 1 ELSE 0)
          /\ \A i \in 1 .. k - 1 + 1 : a[i] = ro[1 + i - 1]
      BY <2>1, SubSeqProperties
    <2>3. /\ b \in Seq(Nat) /\ Len(b) = (IF 1 <= k THEN k - 1 + 1 ELSE 0)
          /\ \A i \in 1 .. k - 1 + 1 : b[i] = rf[1 + i - 1]
      BY <2>1, SubSeqProperties
    <2> HIDE DEF a, b
    <2>4. \A i \in 1 .. Len(a) : a[i] = b[i]
      <3> SUFFICES ASSUME NEW i \in 1 .. Len(a) PROVE a[i] = b[i]
        OBVIOUS
      <3>1. i \in 1 .. k /\ i \in 1 .. k - 1 + 1 /\ 1 + i - 1 = i
        BY <1>1, <2>2
      <3> QED BY <1>6, <2>2, <2>3, <3>1
    <2>5. a = b
      BY <2>2, <2>3, <2>4, SeqEqual
    <2> QED BY <2>5 DEF a, b
  <1>8. IsPrefix(ro, rf)
    BY <1>3, <1>4, <1>5, <1>7 DEF IsPrefix
  <1> QED BY <1>8 DEF IsSuffix, ro, rf, o

-----------------------------------------------------------------------------
(* Queues of commands.                                                     *)
LEMMA HasGrows ==
  ASSUME NEW q \in Seq(Command), NEW e \in Seq(Command), NEW c
  PROVE  Has(q \o e, c) <=> Has(q, c) \/ Has(e, c)
  <1> DEFINE b == q \o e
  <1>1. /\ b \in Seq(Command) /\ Len(b) = Len(q) + Len(e)
        /\ \A i \in 1 .. Len(q) : b[i] = q[i]
        /\ \A i \in 1 .. Len(e) : b[Len(q) + i] = e[i]
    OBVIOUS
  <1>2. /\ DOMAIN q = 1 .. Len(q) /\ DOMAIN e = 1 .. Len(e) /\ DOMAIN b = 1 .. Len(q) + Len(e)
        /\ Len(q) \in Nat /\ Len(e) \in Nat
    BY <1>1
  <1> HIDE DEF b
  <1>3. ASSUME Has(b, c) PROVE Has(q, c) \/ Has(e, c)
    <2>1. PICK j \in 1 .. Len(q) + Len(e) : b[j] = c
      BY <1>2, <1>3 DEF Has
    <2>2. CASE j <= Len(q)
      <3>1. j \in 1 .. Len(q)
        BY <1>2, <2>2
      <3> QED BY <1>1, <1>2, <2>1, <3>1 DEF Has
    <2>3. CASE ~(j <= Len(q))
      <3>1. j - Len(q) \in 1 .. Len(e) /\ Len(q) + (j - Len(q)) = j
        BY <1>2, <2>3
      <3> QED BY <1>1, <1>2, <2>1, <3>1 DEF Has
    <2> QED BY <2>2, <2>3
  <1>4. Has(q, c) => Has(b, c)
    BY <1>1, <1>2 DEF Has
  <1>5. Has(e, c) => Has(b, c)
    <2>1. \A i \in 1 .. Len(e) : Len(q) + i \in 1 .. Len(q) + Len(e)
      BY <1>2
    <2> QED BY <1>1, <1>2, <2>1 DEF Has
  <1> QED BY <1>3, <1>4, <1>5 DEF b

LEMMA TailIs ==
  ASSUME NEW q \in Seq(Command), q # <<>>
  PROVE  /\ Tail(q) \in Seq(Command) /\ Head(q) = q[1] /\ Head(q) \in Command
         /\ Len(q) \in Nat /\ Len(q) >= 1
         /\ DOMAIN q = 1 .. Len(q) /\ DOMAIN Tail(q) = 1 .. Len(q) - 1
         /\ \A i \in 1 .. Len(q) - 1 : Tail(q)[i] = q[i + 1]
  OBVIOUS

LEMMA HasTail ==
  ASSUME NEW q \in Seq(Command), q # <<>>, NEW c, Has(q, c), c # Head(q)
  PROVE  Has(Tail(q), c)
  <1>1. PICK j \in DOMAIN q : q[j] = c
    BY DEF Has
  <1>2. j # 1 /\ j \in 1 .. Len(q)
    BY <1>1, TailIs
  <1>3. j - 1 \in 1 .. Len(q) - 1 /\ (j - 1) + 1 = j
    BY <1>2, TailIs
  <1> QED BY <1>1, <1>3, TailIs DEF Has

LEMMA HistoryGrows ==
  ASSUME NEW q \in Seq(Command), NEW e \in Seq(Command), HistoryFirst(q), HistoryFirst(e)
  PROVE  HistoryFirst(q \o e)
  <1> DEFINE b == q \o e
  <1>1. /\ b \in Seq(Command) /\ Len(b) = Len(q) + Len(e)
        /\ \A i \in 1 .. Len(q) : b[i] = q[i]
        /\ \A i \in 1 .. Len(e) : b[Len(q) + i] = e[i]
    OBVIOUS
  <1>2. /\ DOMAIN q = 1 .. Len(q) /\ DOMAIN e = 1 .. Len(e) /\ DOMAIN b = 1 .. Len(q) + Len(e)
        /\ Len(q) \in Nat /\ Len(e) \in Nat
    BY <1>1
  <1> HIDE DEF b
  <1>3. ASSUME NEW j \in DOMAIN b, b[j].op = "capture-history"
        PROVE  \E i \in DOMAIN b : i > j /\ b[i] = Cmd("capture-visible", b[j].arg)
    <2>1. CASE j <= Len(q)
      <3>1. j \in DOMAIN q /\ b[j] = q[j]
        BY <1>1, <1>2, <2>1
      <3>2. PICK i \in DOMAIN q : i > j /\ q[i] = Cmd("capture-visible", q[j].arg)
        BY <1>3, <3>1 DEF HistoryFirst
      <3>3. i \in DOMAIN b /\ b[i] = q[i]
        BY <1>1, <1>2
      <3> QED BY <3>1, <3>2, <3>3
    <2>2. CASE ~(j <= Len(q))
      <3>1. j - Len(q) \in 1 .. Len(e) /\ Len(q) + (j - Len(q)) = j
        BY <1>2, <2>2
      <3>2. b[j] = e[j - Len(q)]
        BY <1>1, <3>1
      <3>3. PICK i \in DOMAIN e : i > j - Len(q)
                                 /\ e[i] = Cmd("capture-visible", e[j - Len(q)].arg)
        BY <1>2, <1>3, <3>1, <3>2 DEF HistoryFirst
      <3>4. Len(q) + i \in DOMAIN b /\ b[Len(q) + i] = e[i]
        BY <1>1, <1>2
      <3>5. Len(q) + i > j
        BY <1>2, <3>1, <3>3
      <3> QED BY <3>2, <3>3, <3>4, <3>5
    <2> QED BY <2>1, <2>2
  <1> QED BY <1>3 DEF HistoryFirst, b

LEMMA HistoryTail ==
  ASSUME NEW q \in Seq(Command), q # <<>>, HistoryFirst(q)
  PROVE  /\ HistoryFirst(Tail(q))
         /\ Head(q).op = "capture-history" =>
              Has(Tail(q), Cmd("capture-visible", Head(q).arg))
  <1> DEFINE r == Tail(q)
  <1>1. /\ Len(q) \in Nat /\ Len(q) >= 1 /\ Head(q) = q[1]
        /\ DOMAIN q = 1 .. Len(q) /\ DOMAIN r = 1 .. Len(q) - 1
        /\ \A i \in 1 .. Len(q) - 1 : r[i] = q[i + 1]
    BY TailIs
  <1> HIDE DEF r
  <1>2. ASSUME NEW j \in DOMAIN q, q[j].op = "capture-history"
        PROVE  \E i \in DOMAIN r : i + 1 > j /\ r[i] = Cmd("capture-visible", q[j].arg)
    <2>1. PICK i \in DOMAIN q : i > j /\ q[i] = Cmd("capture-visible", q[j].arg)
      BY <1>2 DEF HistoryFirst
    <2>2. i - 1 \in DOMAIN r /\ (i - 1) + 1 = i
      BY <1>1, <2>1
    <2>3. r[i - 1] = q[i]
      BY <1>1, <2>2
    <2> QED BY <2>1, <2>2, <2>3
  <1>3. ASSUME NEW j \in DOMAIN r, r[j].op = "capture-history"
        PROVE  \E i \in DOMAIN r : i > j /\ r[i] = Cmd("capture-visible", r[j].arg)
    <2>1. j + 1 \in DOMAIN q /\ r[j] = q[j + 1] /\ j \in Nat
      BY <1>1
    <2>2. PICK i \in DOMAIN r : i + 1 > j + 1 /\ r[i] = Cmd("capture-visible", q[j + 1].arg)
      BY <1>2, <1>3, <2>1
    <2>3. i > j
      BY <1>1, <2>1, <2>2
    <2> QED BY <2>1, <2>2, <2>3
  <1>4. 1 \in DOMAIN q
    BY <1>1
  <1> QED BY <1>1, <1>2, <1>3, <1>4 DEF HistoryFirst, Has, r

(* Sizes to declare.                                                       *)
LEMMA DeclaredGrows ==
  ASSUME NEW q \in Seq(Command), NEW e \in Seq(Command), NEW z, NEW g,
         Declared(q, z, g), Refreshes(e) = {}
  PROVE  Declared(q \o e, z, g)
  <1> DEFINE b == q \o e
  <1>1. /\ b \in Seq(Command) /\ Len(b) = Len(q) + Len(e)
        /\ \A i \in 1 .. Len(q) : b[i] = q[i]
        /\ \A i \in 1 .. Len(e) : b[Len(q) + i] = e[i]
    OBVIOUS
  <1>2. /\ DOMAIN q = 1 .. Len(q) /\ DOMAIN e = 1 .. Len(e) /\ DOMAIN b = 1 .. Len(q) + Len(e)
        /\ Len(q) \in Nat /\ Len(e) \in Nat
    BY <1>1
  <1> HIDE DEF b
  <1>3. ASSUME NEW j \in DOMAIN b, b[j].op = "refresh-client"
        PROVE  j \in DOMAIN q /\ b[j] = q[j]
    <2>1. CASE j <= Len(q)
      BY <1>1, <1>2, <2>1
    <2>2. CASE ~(j <= Len(q))
      <3>1. j - Len(q) \in 1 .. Len(e) /\ Len(q) + (j - Len(q)) = j
        BY <1>2, <2>2
      <3>2. b[j] = e[j - Len(q)]
        BY <1>1, <3>1
      <3> QED BY <1>2, <1>3, <3>1, <3>2 DEF Refreshes
    <2> QED BY <2>1, <2>2
  <1>4. \A j \in DOMAIN q : j \in DOMAIN b /\ b[j] = q[j]
    BY <1>1, <1>2
  <1>5. Refreshes(b) = Refreshes(q)
    BY <1>3, <1>4 DEF Refreshes
  <1>6. Refreshes(q) \subseteq DOMAIN q
    BY DEF Refreshes
  <1>7. Declared(b, z, g)
    BY <1>4, <1>5, <1>6 DEF Declared
  <1> QED BY <1>7 DEF b

LEMMA DeclaredAnew ==
  ASSUME NEW q \in Seq(Command), NEW z, NEW g \in Sizes
  PROVE  Declared(Append(q, RefreshClient(g)), z, g)
  <1> DEFINE b == Append(q, RefreshClient(g))
             j == Len(q) + 1
  <1>1. DOMAIN b = 1 .. j /\ b[j] = RefreshClient(g) /\ j \in Nat /\ j >= 1
    OBVIOUS
  <1> HIDE DEF b, j
  <1>2. j \in Refreshes(b) /\ \A i \in Refreshes(b) : i <= j
    BY <1>1 DEF Refreshes, RefreshClient, Cmd
  <1>3. Declared(b, z, g)
    BY <1>1, <1>2 DEF Declared
  <1> QED BY <1>3 DEF b

LEMMA DeclaredTail ==
  ASSUME NEW q \in Seq(Command), q # <<>>, NEW z, NEW g, Declared(q, z, g)
  PROVE  Declared(Tail(q), IF Head(q).op = "refresh-client" THEN Head(q).arg ELSE z, g)
  <1> DEFINE r == Tail(q)
             now == IF Head(q).op = "refresh-client" THEN Head(q).arg ELSE z
  <1>1. /\ Len(q) \in Nat /\ Len(q) >= 1 /\ Head(q) = q[1]
        /\ DOMAIN q = 1 .. Len(q) /\ DOMAIN r = 1 .. Len(q) - 1
        /\ \A i \in 1 .. Len(q) - 1 : r[i] = q[i + 1]
    BY TailIs
  <1> HIDE DEF r
  <1>2. \A i \in Refreshes(r) : i + 1 \in Refreshes(q) /\ i \in Nat
    BY <1>1 DEF Refreshes
  <1>3. \A i \in Refreshes(q) : i # 1 => i - 1 \in Refreshes(r) /\ r[i - 1] = q[i]
    <2> SUFFICES ASSUME NEW i \in Refreshes(q), i # 1
                 PROVE  i - 1 \in Refreshes(r) /\ r[i - 1] = q[i]
      OBVIOUS
    <2>1. i \in DOMAIN q /\ q[i].op = "refresh-client"
      BY DEF Refreshes
    <2>2. i - 1 \in 1 .. Len(q) - 1 /\ (i - 1) + 1 = i
      BY <1>1, <2>1
    <2>3. r[i - 1] = q[i]
      BY <1>1, <2>2
    <2> QED BY <1>1, <2>1, <2>2, <2>3 DEF Refreshes
  <1>4. CASE Refreshes(q) = {} /\ z = g
    <2>1. Refreshes(r) = {}
      BY <1>2, <1>4
    <2>2. now = g
      BY <1>1, <1>4 DEF Refreshes
    <2> QED BY <2>1, <2>2 DEF Declared, r
  <1>5. ASSUME NEW j \in Refreshes(q), q[j] = RefreshClient(g), \A i \in Refreshes(q) : i <= j
        PROVE  Declared(r, now, g)
    <2>1. CASE j = 1
      <3>1. Refreshes(r) = {}
        <4> SUFFICES ASSUME NEW i \in Refreshes(r) PROVE FALSE
          OBVIOUS
        <4>1. i + 1 <= 1 /\ i \in Nat
          BY <1>2, <1>5, <2>1
        <4>2. i \in DOMAIN r
          BY DEF Refreshes
        <4> QED BY <1>1, <4>1, <4>2
      <3>2. now = g
        BY <1>1, <1>5, <2>1 DEF RefreshClient, Cmd
      <3> HIDE DEF now
      <3> QED BY <3>1, <3>2 DEF Declared
    <2>2. CASE j # 1
      <3>1. j - 1 \in Refreshes(r) /\ r[j - 1] = RefreshClient(g)
        BY <1>3, <1>5, <2>2
      <3>2. j \in DOMAIN q
        BY DEF Refreshes
      <3>3. \A i \in Refreshes(r) : i <= j - 1
        BY <1>1, <1>2, <1>5, <3>2
      <3> HIDE DEF now
      <3> QED BY <3>1, <3>3 DEF Declared
    <2> QED BY <2>1, <2>2
  <1> HIDE DEF now
  <1>6. Declared(r, now, g)
    BY <1>4, <1>5 DEF Declared, r, now
  <1> QED BY <1>6 DEF r, now

(* What is captured of panes that are new.                                 *)
LEMMA CaptureAllIs ==
  ASSUME NEW new \in SUBSET Panes
  PROVE  /\ \A p \in new : Has(CaptureAll(new), Cmd("capture-visible", p))
         /\ HistoryFirst(CaptureAll(new))
         /\ Refreshes(CaptureAll(new)) = {}
  <1> DEFINE some == SetToSeq(new)
             n == Cardinality(new)
             captures == [i \in 1 .. 4 * n |-> Captures(some[(i + 3) \div 4])[((i + 3) % 4) + 1]]
             all == Append(captures, PaneState)
  <1>1. /\ n \in Nat /\ some \in [1 .. n -> new]
        /\ \A p \in new : \E k \in 1 .. n : some[k] = p
    BY FiniteAssumption, FS_Subset, Enumeration
  <1>2. CASE new = {}
    <2>1. CaptureAll(new) = <<>>
      BY <1>2 DEF CaptureAll
    <2> QED BY <1>2, <2>1 DEF Has, HistoryFirst, Refreshes
  <1>3. CASE new # {}
    <2>1. CaptureAll(new) = all
      BY <1>3 DEF CaptureAll
    <2>2. all \in Seq(Command)
      BY <2>1, CapturesTyped
    <2> HIDE DEF some, n
    <2>3. Len(captures) = 4 * n /\ DOMAIN captures = 1 .. 4 * n
          /\ \A i \in 1 .. 4 * n : captures[i] = Captures(some[(i + 3) \div 4])[((i + 3) % 4) + 1]
      <3>1. 4 * n \in Nat
        BY <1>1
      <3> QED BY <3>1
    <2> HIDE DEF captures
    <2>4. captures \in Seq(Command)
      <3>1. DOMAIN captures = 1 .. Len(captures) /\ Len(captures) \in Nat
        BY <1>1, <2>3
      <3>2. \A i \in 1 .. 4 * n : captures[i] \in Command
        <4> SUFFICES ASSUME NEW i \in 1 .. 4 * n PROVE captures[i] \in Command
          OBVIOUS
        <4>1. (i + 3) \div 4 \in 1 .. n /\ ((i + 3) % 4) + 1 \in 1 .. 4
          BY <1>1
        <4>2. some[(i + 3) \div 4] \in Panes
          BY <1>1, <4>1
        <4>3. \A p \in Panes : \A k \in 1 .. 4 : Captures(p)[k] \in Command
          <5> SUFFICES ASSUME NEW p \in Panes
                       PROVE  \A k \in 1 .. 4 : Captures(p)[k] \in Command
            OBVIOUS
          <5>1. /\ Cmd("capture-history", p) \in Command
                /\ Cmd("capture-visible", p) \in Command
                /\ Cmd("capture-history-alternate", p) \in Command
                /\ Cmd("capture-visible-alternate", p) \in Command
            BY CommandsTyped DEF PaneOps
          <5> QED BY <5>1 DEF Captures
        <4> QED BY <2>3, <4>1, <4>2, <4>3
      <3> DEFINE m == 4 * n
      <3>3. captures \in [1 .. m -> Command] /\ m \in Nat
        <4>1. captures = [i \in 1 .. 4 * n |-> captures[i]]
          BY DEF captures
        <4> QED BY <1>1, <3>2, <4>1
      <3> HIDE DEF m
      <3> QED BY <3>3
    <2>5. /\ DOMAIN all = 1 .. 4 * n + 1
          /\ \A i \in 1 .. 4 * n : all[i] = captures[i]
          /\ all[4 * n + 1] = PaneState
      <3> DEFINE m == 4 * n
      <3>1. m \in Nat /\ Len(captures) = m
        BY <1>1, <2>3
      <3> HIDE DEF m
      <3>2. /\ DOMAIN all = 1 .. m + 1 /\ all[m + 1] = PaneState
            /\ \A i \in 1 .. m : all[i] = captures[i]
        BY <2>4, <3>1
      <3> QED BY <3>2 DEF m
    <2> HIDE DEF all
    <2>6. ASSUME NEW k \in 1 .. n
          PROVE  /\ 4 * k - 3 \in 1 .. 4 * n /\ 4 * k - 2 \in 1 .. 4 * n
                 /\ 4 * k - 1 \in 1 .. 4 * n /\ 4 * k \in 1 .. 4 * n
                 /\ all[4 * k - 3] = Cmd("capture-history", some[k])
                 /\ all[4 * k - 2] = Cmd("capture-visible", some[k])
                 /\ all[4 * k - 1] = Cmd("capture-history-alternate", some[k])
                 /\ all[4 * k] = Cmd("capture-visible-alternate", some[k])
      <3>1. /\ 4 * k - 3 \in 1 .. 4 * n /\ 4 * k - 2 \in 1 .. 4 * n
            /\ 4 * k - 1 \in 1 .. 4 * n /\ 4 * k \in 1 .. 4 * n
        BY <1>1
      <3>2. /\ ((4 * k - 3) + 3) \div 4 = k /\ (((4 * k - 3) + 3) % 4) + 1 = 1
            /\ ((4 * k - 2) + 3) \div 4 = k /\ (((4 * k - 2) + 3) % 4) + 1 = 2
            /\ ((4 * k - 1) + 3) \div 4 = k /\ (((4 * k - 1) + 3) % 4) + 1 = 3
            /\ ((4 * k) + 3) \div 4 = k /\ (((4 * k) + 3) % 4) + 1 = 4
        BY <1>1
      <3>3. \A p : /\ Captures(p)[1] = Cmd("capture-history", p)
                   /\ Captures(p)[2] = Cmd("capture-visible", p)
                   /\ Captures(p)[3] = Cmd("capture-history-alternate", p)
                   /\ Captures(p)[4] = Cmd("capture-visible-alternate", p)
        BY DEF Captures
      <3>4. /\ captures[4 * k - 3] = Captures(some[k])[1]
            /\ captures[4 * k - 2] = Captures(some[k])[2]
            /\ captures[4 * k - 1] = Captures(some[k])[3]
            /\ captures[4 * k] = Captures(some[k])[4]
        BY <2>3, <3>1, <3>2
      <3> QED BY <2>5, <3>1, <3>3, <3>4
    <2>7. \A i \in 1 .. 4 * n : \E k \in 1 .. n :
            i = 4 * k - 3 \/ i = 4 * k - 2 \/ i = 4 * k - 1 \/ i = 4 * k
      <3> SUFFICES ASSUME NEW i \in 1 .. 4 * n
                   PROVE  \E k \in 1 .. n :
                            i = 4 * k - 3 \/ i = 4 * k - 2 \/ i = 4 * k - 1 \/ i = 4 * k
        OBVIOUS
      <3>1. (i + 3) \div 4 \in 1 .. n
        BY <1>1
      <3>2. LET k == (i + 3) \div 4
            IN  i = 4 * k - 3 \/ i = 4 * k - 2 \/ i = 4 * k - 1 \/ i = 4 * k
        BY <1>1
      <3> QED BY <3>1, <3>2
    <2>8. ASSUME NEW p \in new PROVE Has(all, Cmd("capture-visible", p))
      <3>1. PICK k \in 1 .. n : some[k] = p
        BY <1>1
      <3>2. 4 * k - 2 \in DOMAIN all /\ all[4 * k - 2] = Cmd("capture-visible", p)
        BY <1>1, <2>5, <2>6, <3>1
      <3> QED BY <3>2 DEF Has
    <2>9. ASSUME NEW j \in DOMAIN all
          PROVE  /\ all[j].op # "refresh-client"
                 /\ all[j].op = "capture-history" =>
                      \E i \in DOMAIN all : i > j /\ all[i] = Cmd("capture-visible", all[j].arg)
      <3>1. CASE j = 4 * n + 1
        BY <2>5, <3>1 DEF PaneState, Cmd
      <3>2. CASE j # 4 * n + 1
        <4>1. j \in 1 .. 4 * n
          BY <1>1, <2>5, <3>2
        <4>2. PICK k \in 1 .. n : j = 4 * k - 3 \/ j = 4 * k - 2 \/ j = 4 * k - 1 \/ j = 4 * k
          BY <2>7, <4>1
        <4>3. CASE j = 4 * k - 3
          <5>1. all[j] = Cmd("capture-history", some[k])
                /\ all[4 * k - 2] = Cmd("capture-visible", some[k])
            BY <2>6, <4>3
          <5>2. 4 * k - 2 \in DOMAIN all /\ 4 * k - 2 > j
            BY <1>1, <2>5, <2>6, <4>3
          <5> QED BY <5>1, <5>2 DEF Cmd
        <4>4. CASE j # 4 * k - 3
          <5>1. \/ all[j] = Cmd("capture-visible", some[k])
                \/ all[j] = Cmd("capture-history-alternate", some[k])
                \/ all[j] = Cmd("capture-visible-alternate", some[k])
            BY <2>6, <4>2, <4>4
          <5> QED BY <5>1 DEF Cmd
        <4> QED BY <4>3, <4>4
      <3> QED BY <3>1, <3>2
    <2>10. HistoryFirst(all)
      BY <2>9 DEF HistoryFirst
    <2>11. Refreshes(all) = {}
      BY <2>9 DEF Refreshes
    <2> QED BY <2>1, <2>8, <2>10, <2>11
  <1> QED BY <1>2, <1>3

-----------------------------------------------------------------------------
(* The commands that tmux has not executed, by what happens.               *)
LEMMA TailGrows ==
  ASSUME NEW q \in Seq(Command), NEW e \in Seq(Command), q # <<>>
  PROVE  Tail(q \o e) = Tail(q) \o e
  <1> DEFINE a == Tail(q \o e)
             b == Tail(q) \o e
  <1>1. /\ Tail(q) \in Seq(Command) /\ Len(Tail(q)) = Len(q) - 1 /\ Len(q) \in Nat /\ Len(q) >= 1
        /\ \A i \in 1 .. Len(q) - 1 : Tail(q)[i] = q[i + 1]
    OBVIOUS
  <1>2. /\ b \in Seq(Command) /\ Len(b) = Len(q) - 1 + Len(e)
        /\ \A i \in 1 .. Len(q) - 1 : b[i] = q[i + 1]
        /\ \A i \in 1 .. Len(e) : b[Len(q) - 1 + i] = e[i]
    BY <1>1
  <1>3. /\ a \in Seq(Command) /\ Len(a) = Len(q) - 1 + Len(e)
        /\ \A i \in 1 .. Len(q) - 1 + Len(e) : a[i] = (q \o e)[i + 1]
    BY <1>1
  <1>4. /\ \A i \in 1 .. Len(q) - 1 : (q \o e)[i + 1] = q[i + 1]
        /\ \A i \in 1 .. Len(e) : (q \o e)[(Len(q) - 1 + i) + 1] = e[i]
    BY <1>1
  <1> HIDE DEF a, b
  <1>5. \A i \in 1 .. Len(a) : a[i] = b[i]
    <2> SUFFICES ASSUME NEW i \in 1 .. Len(a) PROVE a[i] = b[i]
      OBVIOUS
    <2>1. CASE i \in 1 .. Len(q) - 1
      BY <1>2, <1>3, <1>4, <2>1
    <2>2. CASE i \notin 1 .. Len(q) - 1
      <3>1. i - (Len(q) - 1) \in 1 .. Len(e) /\ Len(q) - 1 + (i - (Len(q) - 1)) = i
        BY <1>1, <1>3, <2>2
      <3>2. b[i] = e[i - (Len(q) - 1)]
        BY <1>2, <3>1
      <3>3. (q \o e)[i + 1] = e[i - (Len(q) - 1)]
        BY <1>4, <3>1
      <3> QED BY <1>3, <3>2, <3>3
    <2> QED BY <2>1, <2>2
  <1>6. a = b
    BY <1>2, <1>3, <1>5, SeqEqual
  <1> QED BY <1>6 DEF a, b

LEMMA WaitingTyped ==
  ASSUME NEW q \in Seq(Command), NEW cs, NEW pty, NEW s, InFlight(q, cs, pty, s)
  PROVE  /\ Waiting(q, s) \in Seq(Command)
         /\ q = <<>> => Waiting(q, s) = <<>>
  <1>1. Answers(s) # {} => q # <<>>
    BY DEF InFlight
  <1> QED BY <1>1, TailIs DEF Waiting

(* The queue grows while a notification that is no reply is taken.         *)
LEMMA WaitingTold ==
  ASSUME NEW q \in Seq(Command), NEW e \in Seq(Command), NEW cs, NEW pty,
         NEW s \in Seq(Notification), s # <<>>, ~IsReply(Head(s)), InFlight(q, cs, pty, s)
  PROVE  Waiting(q \o e, Tail(s)) = Waiting(q, s) \o e
  <1>1. CASE Answers(s) = {}
    BY <1>1, FirstTaken DEF Waiting
  <1>2. CASE Answers(s) # {}
    <2>1. q # <<>> /\ OnlyAnswers(s, Head(q))
      BY <1>2 DEF InFlight
    <2>2. OnlyAnswers(Tail(s), Head(q))
      BY <2>1, FirstTaken
    <2>3. Answers(Tail(s)) # {}
      BY <2>2 DEF OnlyAnswers
    <2> QED BY <1>2, <2>1, <2>3, TailGrows DEF Waiting
  <1> QED BY <1>1, <1>2

(* A reply is taken.                                                       *)
LEMMA WaitingAnswered ==
  ASSUME NEW q, NEW cs, NEW pty, NEW s \in Seq(Notification), s # <<>>,
         IsReply(Head(s)), InFlight(q, cs, pty, s)
  PROVE  Waiting(q, s) = Tail(q) /\ \A x : Waiting(x, Tail(s)) = x
  <1>1. Answers(s) # {} /\ Answers(Tail(s)) = {}
    BY FirstTaken, FlightAnswered
  <1> QED BY <1>1 DEF Waiting

LEMMA WaitingNotified ==
  ASSUME NEW q, NEW s \in Seq(Notification), NEW notes \in Seq(Event)
  PROVE  Waiting(q, s \o notes) = Waiting(q, s)
  BY EventsAppended DEF Waiting

(* Notifications after which windows are asked for, or all starts again.   *)
LEMMA CallsTail ==
  ASSUME NEW s \in Seq(Notification), s # <<>>
  PROVE  /\ Calls(s) => Head(s).kind \in CallKinds \/ Calls(Tail(s))
         /\ Restarts(s) => Head(s).kind = "session-changed" \/ Restarts(Tail(s))
         /\ Restarts(s) => Calls(s)
  <1> DEFINE r == Tail(s)
  <1>1. /\ Len(s) \in Nat /\ Len(s) >= 1 /\ Head(s) = s[1]
        /\ DOMAIN s = 1 .. Len(s) /\ DOMAIN r = 1 .. Len(s) - 1
        /\ \A i \in 1 .. Len(s) - 1 : r[i] = s[i + 1]
    OBVIOUS
  <1> HIDE DEF r
  <1>2. \A i \in DOMAIN s : i = 1 \/ (i - 1 \in DOMAIN r /\ r[i - 1] = s[i])
    <2> SUFFICES ASSUME NEW i \in DOMAIN s, i # 1 PROVE i - 1 \in DOMAIN r /\ r[i - 1] = s[i]
      OBVIOUS
    <2>1. i - 1 \in 1 .. Len(s) - 1 /\ (i - 1) + 1 = i
      BY <1>1
    <2> QED BY <1>1, <2>1
  <1> QED BY <1>1, <1>2 DEF Calls, Restarts, CallKinds, r

LEMMA CallsBoth ==
  ASSUME NEW s \in Seq(Notification), NEW r \in Seq(Notification)
  PROVE  /\ Calls(s) => Calls(s \o r)
         /\ Calls(r) => Calls(s \o r)
         /\ Restarts(s) => Restarts(s \o r)
  <1> DEFINE b == s \o r
  <1>1. /\ b \in Seq(Notification) /\ Len(b) = Len(s) + Len(r)
        /\ \A i \in 1 .. Len(s) : b[i] = s[i]
        /\ \A i \in 1 .. Len(r) : b[Len(s) + i] = r[i]
    OBVIOUS
  <1>2. /\ DOMAIN s = 1 .. Len(s) /\ DOMAIN r = 1 .. Len(r) /\ DOMAIN b = 1 .. Len(s) + Len(r)
        /\ Len(s) \in Nat /\ Len(r) \in Nat
    BY <1>1
  <1> HIDE DEF b
  <1>3. (\A i \in DOMAIN s : i \in DOMAIN b) /\ (\A i \in DOMAIN r : Len(s) + i \in DOMAIN b)
    BY <1>2
  <1> QED BY <1>1, <1>2, <1>3 DEF Calls, Restarts, b

-----------------------------------------------------------------------------
(* The mirror stays when the queue grows by e, if e asks for what is now   *)
(* seen otherwise.                                                         *)
LEMMA MirrorsAlike ==
  ASSUME NEW c, NEW u, NEW v, Alike(c, <<u, v>>),
         NEW t, NEW q \in Seq(Command), NEW e \in Seq(Command), NEW s, NEW r,
         Mirrors(u, t, q, s),
         Calls(s) => Calls(r) \/ Has(e, ListWindows),
         \A p \in c[1] : Has(e, Cmd("capture-visible", p)),
         \A p \in c[2] : Has(e, Cmd("select-pane", p))
  PROVE  Mirrors(v, t, q \o e, r)
  <1>1. /\ u.id = v.id /\ u.windows = v.windows /\ u.fed = v.fed
        /\ v.active = u.active \/ v.active \in c[2]
        /\ u.new \subseteq v.new \cup c[1]
    BY DEF Alike
  <1>2. \A x : Has(q \o e, x) <=> Has(q, x) \/ Has(e, x)
    BY HasGrows
  <1>3. v.id = t.session
    BY <1>1 DEF Mirrors
  <1>4. ListOf(v, t, q \o e, r)
    BY <1>1, <1>2 DEF Mirrors, ListOf
  <1>5. ActiveOf(v, t, q \o e)
    BY <1>1, <1>2 DEF Mirrors, ActiveOf
  <1>6. ScreensOf(v, t, q \o e)
    BY <1>1, <1>2 DEF Mirrors, ScreensOf
  <1> QED BY <1>3, <1>4, <1>5, <1>6 DEF Mirrors

LEMMA MirrorsTold ==
  ASSUME NEW N, NEW v, NEW u, NEW t, NEW q \in Seq(Command), NEW e \in Seq(Command),
         NEW s \in Seq(Notification), s # <<>>,
         Alike(<<N, {}>>, <<Hear(v, Head(s)), u>>),
         Mirrors(Heard(v, s), t, q, s),
         Head(s).kind \in CallKinds => Has(e, ListWindows),
         \A p \in N : Has(e, Cmd("capture-visible", p))
  PROVE  Mirrors(Heard(u, Tail(s)), t, q \o e, Tail(s))
  <1>1. Tail(s) \in Seq(Notification)
    OBVIOUS
  <1>2. Heard(v, s) = Heard(Hear(v, Head(s)), Tail(s))
    BY HeardFirst
  <1>3. Alike(<<N, {}>>, <<Heard(v, s), Heard(u, Tail(s))>>)
    BY <1>1, <1>2, AlikeHeard
  <1>4. Calls(s) => Calls(Tail(s)) \/ Has(e, ListWindows)
    BY CallsTail
  <1>5. <<N, {}>>[1] = N /\ <<N, {}>>[2] = {}
    OBVIOUS
  <1> DEFINE c == <<N, {}>>
  <1>6. (\A p \in c[1] : Has(e, Cmd("capture-visible", p)))
        /\ (\A p \in c[2] : Has(e, Cmd("select-pane", p))) /\ Alike(c, <<Heard(v, s), Heard(u, Tail(s))>>)
    BY <1>3, <1>5
  <1> HIDE DEF c
  <1> QED BY <1>4, <1>6, MirrorsAlike

-----------------------------------------------------------------------------
(* Taking a notification.                                                  *)
LEMMA ViewTyped == TypeOK => View \in Views
  BY DEF TypeOK, View, Views

LEMMA FinalTyped == TypeOK => Final \in Views
  BY ViewTyped, HeardTyped DEF TypeOK, Final

(* Only the tabs lag behind the windows, within a batch.                   *)
LEMMA TabsTaken ==
  ASSUME IInv, NEW kind, Taken(kind), TabsInv, changed' \/ UNCHANGED <<windows, changed>>
  PROVE  TabsInv'
  <1>1. batch' /\ tabs' = tabs /\ state # "Defunct"
    BY TakenKeeps DEF nativeVars
  <1> QED BY <1>1 DEF TabsInv

(* Before the steady state what is taken is not heard.                     *)
LEMMA IgnoredMirrored ==
  ASSUME IInv, MirrorInv, NEW kind, Taken(kind), Starting, kind # "session-changed",
         state' \in {"StartupSession", "Defunct"},
         UNCHANGED <<sessionId, queue, windows, active, fed, clientSize, changed, raced>>
  PROVE  MirrorInv'
  <1>1. /\ fromTmux \in Seq(Notification) /\ fromTmux # <<>>
        /\ Head(fromTmux).kind # "session-changed"
        /\ fromTmux' = Tail(fromTmux) /\ fromTmux' \in Seq(Notification)
        /\ UNCHANGED <<nativeVars, tmux>> /\ state # "Defunct"
    BY TakenKeeps
  <1>2. Tree(tmux)' /\ TabsInv'
    BY <1>1, TabsTaken DEF MirrorInv
  <1>3. windows = NoWindows /\ active = None /\ clientSize = grid /\ Restarts(fromTmux)
    BY DEF MirrorInv, StartInv
  <1>4. Restarts(fromTmux') /\ Calls(fromTmux')
    <2>1. Restarts(fromTmux')
      BY <1>1, <1>3, CallsTail
    <2> QED BY <2>1 DEF Restarts, Calls, CallKinds
  <1>5. StartInv'
    BY <1>1, <1>3, <1>4 DEF StartInv, nativeVars
  <1>6. SizeInv'
    BY DEF SizeInv
  <1>7. ASSUME ~raced, state' = "StartupSession"
        PROVE  Mirrors(Final', tmux', Pend', fromTmux') /\ HistoryFirst(Pend')
    <2>1. Mirrors(Final, tmux, Pend, fromTmux)
      BY <1>1, <1>7 DEF MirrorInv, ViewInv
    <2>2. View' = View
      BY DEF View
    <2>3. Final' = Final
      <3>1. Final = Heard(Hear(View, Head(fromTmux)), Tail(fromTmux))
        BY <1>1, HeardFirst DEF Final
      <3>2. Heard(Hear(View, Head(fromTmux)), fromTmux') = Heard(View, fromTmux')
        BY <1>1, <1>4, RestartHeard
      <3> QED BY <1>1, <2>2, <3>1, <3>2 DEF Final
    <2>4. Pend = <<>> /\ Pend' = <<>>
      <3>1. queue = <<>> /\ Answers(fromTmux) = {}
        BY DEF IInv, StartupInv, Starting
      <3>2. Answers(fromTmux') = {}
        BY <1>1, <3>1, FirstTaken
      <3> QED BY <3>1, <3>2 DEF Pend, Waiting
    <2>5. Mirrors(Final, tmux, <<>>, fromTmux')
      BY <1>4, <2>1, <2>4 DEF Mirrors, ListOf
    <2>6. HistoryFirst(<<>>)
      BY DEF HistoryFirst
    <2> QED BY <1>1, <2>3, <2>4, <2>5, <2>6
  <1>8. ViewInv'
    BY <1>7 DEF ViewInv
  <1> QED BY <1>2, <1>5, <1>6, <1>8 DEF MirrorInv

(* In steady state it is, and the queue grows by what it calls for.        *)
LEMMA HeardMirrored ==
  ASSUME IInv, MirrorInv, NEW kind, Taken(kind), state = "CommandQueue",
         state' = "CommandQueue", UNCHANGED <<lastRefresh, raced>>,
         changed' \/ UNCHANGED <<windows, changed>>,
         NEW N, NEW e \in Seq(Command),
         ~raced => /\ Pend \in Seq(Command) /\ Pend' = Pend \o e
                   /\ Alike(<<N, {}>>, <<Hear(View, Head(fromTmux)), View'>>),
         kind \in CallKinds => Has(e, ListWindows),
         \A p \in N : Has(e, Cmd("capture-visible", p)),
         HistoryFirst(e), Refreshes(e) = {}
  PROVE  MirrorInv'
  <1>1. /\ fromTmux \in Seq(Notification) /\ fromTmux # <<>>
        /\ Head(fromTmux).kind = kind /\ fromTmux' = Tail(fromTmux)
        /\ UNCHANGED <<nativeVars, tmux>>
    BY TakenKeeps
  <1>2. Tree(tmux)' /\ TabsInv' /\ StartInv'
    BY <1>1, TabsTaken DEF MirrorInv, StartInv, Starting
  <1>3. ASSUME ~raced
        PROVE  /\ Mirrors(Final', tmux', Pend', fromTmux') /\ HistoryFirst(Pend')
               /\ lastRefresh' \in {None, grid'} /\ Declared(Pend', tmux'.size, grid')
    <2>1. /\ Mirrors(Heard(View, fromTmux), tmux, Pend, fromTmux) /\ HistoryFirst(Pend)
          /\ lastRefresh \in {None, grid} /\ Declared(Pend, tmux.size, grid)
      BY <1>3 DEF MirrorInv, ViewInv, SizeInv, Final
    <2>2. Pend \in Seq(Command) /\ Pend' = Pend \o e
          /\ Alike(<<N, {}>>, <<Hear(View, Head(fromTmux)), View'>>)
      BY <1>3
    <2>3. Mirrors(Heard(View', Tail(fromTmux)), tmux, Pend \o e, Tail(fromTmux))
      BY <1>1, <2>1, <2>2, MirrorsTold
    <2>4. HistoryFirst(Pend \o e) /\ Declared(Pend \o e, tmux.size, grid)
      BY <2>1, <2>2, HistoryGrows, DeclaredGrows
    <2>5. grid' = grid /\ tmux' = tmux
      BY <1>1 DEF nativeVars
    <2>6. Final' = Heard(View', Tail(fromTmux))
      BY <1>1 DEF Final
    <2> QED BY <1>1, <2>1, <2>2, <2>3, <2>4, <2>5, <2>6
  <1>4. ViewInv' /\ SizeInv'
    BY <1>3 DEF ViewInv, SizeInv
  <1> QED BY <1>2, <1>4 DEF MirrorInv

LEMMA AlikeSelf ==
  ASSUME NEW c, NEW u \in Views, NEW v \in Views, u.id = v.id, u.windows = v.windows,
         u.fed = v.fed, u.active = v.active, u.new \subseteq v.new \cup c[1]
  PROVE  Alike(c, <<u, v>>)
  BY DEF Alike

LEMMA SyncMirrored ==
  ASSUME TypeOK, NEW ws \in [Windows -> Layout], NEW q \in Seq(Command), SyncLayouts(ws, q),
         UNCHANGED <<sessionId, active>>
  PROVE  LET N == Leaves(ws) \ panes
         IN  /\ Alike(<<N, {}>>, <<Relaid(View, ws), View'>>)
             /\ queue' = q \o CaptureAll(N) /\ CaptureAll(N) \in Seq(Command)
             /\ \A p \in N : Has(CaptureAll(N), Cmd("capture-visible", p))
             /\ HistoryFirst(CaptureAll(N)) /\ Refreshes(CaptureAll(N)) = {}
             /\ changed' = TRUE
  <1> DEFINE N == Leaves(ws) \ panes
             u == Relaid(View, ws)
             v == View'
  <1>1. N \in SUBSET Panes
    BY LeavesTyped
  <1>2. View \in Views /\ View.id = sessionId /\ View.windows = windows
        /\ View.active = active /\ View.fed = fed /\ View.new = {}
    BY ViewTyped DEF View
  <1>3. v.id = sessionId /\ v.windows = ws /\ v.active = active /\ v.new = {}
        /\ v.fed = [p \in Panes |-> IF p \in Leaves(ws) THEN fed[p] ELSE <<>>]
    BY DEF View, SyncLayouts
  <1>4. /\ u \in Views /\ u.id = sessionId /\ u.active = active /\ u.windows = ws
        /\ u.new = N
        /\ u.fed = [p \in Panes |-> IF p \in Leaves(ws) THEN fed[p] ELSE <<>>]
    <2>1. /\ u \in Views /\ u.id = View.id /\ u.active = View.active
          /\ u.windows = ws
          /\ u.new = View.new \cup (Leaves(ws) \ Leaves(View.windows))
          /\ u.fed = [p \in Panes |-> IF p \in Leaves(ws) THEN View.fed[p] ELSE <<>>]
      BY <1>2, RelaidIs
    <2>2. panes = Leaves(windows)
      BY DEF TypeOK
    <2> HIDE DEF u
    <2> QED BY <1>2, <2>1, <2>2
  <1>5. v = [id |-> u.id, windows |-> u.windows, active |-> u.active, fed |-> u.fed, new |-> {}]
    <2>1. v = [id |-> sessionId', windows |-> windows', active |-> active', fed |-> fed', new |-> {}]
      BY DEF View
    <2>2. sessionId' = u.id /\ windows' = u.windows /\ active' = u.active /\ fed' = u.fed
      BY <1>4 DEF SyncLayouts
    <2> HIDE DEF u, v
    <2> QED BY <2>1, <2>2
  <1>6. v \in Views
    <2> HIDE DEF u, v
    <2> QED BY <1>4, <1>5 DEF Views
  <1> HIDE DEF u, v
  <1>7. Alike(<<N, {}>>, <<u, v>>)
    <2>1. <<N, {}>>[1] = N
      OBVIOUS
    <2> QED BY <1>3, <1>4, <1>6, <2>1 DEF Alike
  <1>8. CaptureAll(N) \in Seq(Command)
    BY <1>1, CapturesTyped
  <1> HIDE DEF N
  <1>9. queue' = q \o CaptureAll(N) /\ changed' = TRUE
    BY DEF SyncLayouts, N
  <1> QED BY <1>1, <1>7, <1>8, <1>9, CaptureAllIs DEF N, u, v

LEMMA FeedMirrored ==
  ASSUME TypeOK, NEW p \in Panes, NEW s \in Seq(Nat), FeedPane(p, s),
         UNCHANGED <<sessionId, windows, active>>
  PROVE  Alike(<<{}, {}>>, <<FedWith(View, p, s), View'>>)
  <1> DEFINE u == FedWith(View, p, s)
             v == View'
  <1>1. View \in Views /\ View.id = sessionId /\ View.windows = windows
        /\ View.active = active /\ View.fed = fed /\ View.new = {}
    BY ViewTyped DEF View
  <1>2. /\ u \in Views /\ u.id = View.id /\ u.active = View.active
        /\ u.windows = View.windows /\ u.new = View.new
        /\ u.fed = IF p \in Leaves(View.windows) THEN [View.fed EXCEPT ![p] = @ \o s]
                                                 ELSE View.fed
    BY <1>1, FedWithIs
  <1>3. v.id = sessionId /\ v.windows = windows /\ v.active = active /\ v.new = {}
        /\ v.fed = IF p \in panes THEN [fed EXCEPT ![p] = @ \o s] ELSE fed
    BY DEF View, FeedPane
  <1>4. panes = Leaves(windows)
    BY DEF TypeOK
  <1>5. v = [id |-> u.id, windows |-> u.windows, active |-> u.active, fed |-> u.fed, new |-> {}]
    <2>1. v = [id |-> v.id, windows |-> v.windows, active |-> v.active, fed |-> v.fed, new |-> v.new]
      BY DEF View
    <2> HIDE DEF u, v
    <2> QED BY <1>1, <1>2, <1>3, <1>4, <2>1
  <1> HIDE DEF u, v
  <1>6. v \in Views
    BY <1>2, <1>5 DEF Views
  <1>7. Alike(<<{}, {}>>, <<u, v>>)
    BY <1>1, <1>2, <1>3, <1>4, <1>6, AlikeSelf
  <1> QED BY <1>7 DEF u, v

LEMMA NothingAsked ==
  /\ <<>> \in Seq(Command) /\ HistoryFirst(<<>>) /\ Refreshes(<<>>) = {}
  /\ <<ListWindows>> \in Seq(Command) /\ HistoryFirst(<<ListWindows>>)
  /\ Refreshes(<<ListWindows>>) = {} /\ Has(<<ListWindows>>, ListWindows)
  <1>1. <<ListWindows>> \in Seq(Command) /\ <<>> \in Seq(Command)
    BY CommandsTyped
  <1>2. DOMAIN <<ListWindows>> = {1} /\ <<ListWindows>>[1] = ListWindows
        /\ ListWindows.op = "list-windows" /\ DOMAIN <<>> = {}
    BY DEF ListWindows, Cmd
  <1> QED BY <1>1, <1>2 DEF HistoryFirst, Refreshes, Has

(* The reply that is taken answers the head of the queue.                  *)
LEMMA ReplyOfHead ==
  ASSUME NEW q, NEW cs, NEW pty, NEW s \in Seq(Notification), s # <<>>,
         InFlight(q, cs, pty, s), IsReply(Head(s))
  PROVE  Head(s).of = Head(q)
  <1>1. 1 \in Answers(s) /\ Head(s) = s[1]
    BY DEF Answers
  <1>2. OnlyAnswers(s, Head(q))
    BY <1>1 DEF InFlight
  <1> QED BY <1>1, <1>2 DEF OnlyAnswers

LEMMA BlockMirrored ==
  ASSUME IInv, MirrorInv, TakeBlock
  PROVE  MirrorInv'
  <1> DEFINE n == Head(fromTmux)
             c == Head(queue)
  <1>1. Taken("block")
    BY DEF TakeBlock
  <1>2. /\ fromTmux \in Seq(Notification) /\ fromTmux # <<>>
        /\ n \in Notification /\ n.kind = "block" /\ n.reply \in Reply
        /\ fromTmux' = Tail(fromTmux)
        /\ state = "StartupBlock" <=> IsAttach(n)
        /\ IsReply(n) \/ IsAttach(n)
        /\ state # "Defunct"
    BY <1>1, TakenKeeps, KindsTyped
  <1>3. /\ state' = (IF state = "StartupBlock" THEN "StartupSession" ELSE state)
        /\ UNCHANGED <<sessionId, active, clientSize, lastRefresh, raced>>
    BY DEF TakeBlock
  <1>4. TypeOK /\ state \in {"StartupBlock", "StartupSession", "CommandQueue"}
    BY <1>2 DEF IInv, TypeOK
  <1>5. "block" \notin CallKinds
    BY DEF CallKinds
  <1>6. CASE state # "CommandQueue"
    <2>1. IsAttach(n)
      <3>1. Answers(fromTmux) = {}
        BY <1>4, <1>6 DEF IInv, StartupInv
      <3>2. ~IsReply(n)
        BY <1>2, <3>1, FirstTaken
      <3> QED BY <1>2, <3>2
    <2>2. state = "StartupBlock" /\ state' = "StartupSession" /\ Starting
      BY <1>2, <1>3, <2>1 DEF Starting
    <2>3. UNCHANGED <<queue, windows, panes, fed, commands, changed>>
      BY <1>6 DEF TakeBlock
    <2> QED BY <1>1, <1>3, <2>2, <2>3, IgnoredMirrored
  <1>7. CASE state = "CommandQueue" /\ queue = <<>>
    <2>1. UNCHANGED <<queue, windows, panes, fed, commands, changed>>
      BY <1>7 DEF TakeBlock
    <2>2. raced
      <3> SUFFICES ASSUME ~raced PROVE FALSE
        OBVIOUS
      <3>1. InFlight(queue, commands, toTmux, fromTmux) /\ IsReply(n)
        BY <1>2, <1>7 DEF IInv, FlightInv
      <3> QED BY <1>2, <1>7, <3>1, FlightAnswered
    <2>3. state' = "CommandQueue"
      BY <1>3, <1>7
    <2> DEFINE N == {}
    <2>4. \A p \in N : Has(<<>>, Cmd("capture-visible", p))
      OBVIOUS
    <2> HIDE DEF N
    <2> QED BY <1>1, <1>3, <1>5, <1>7, <2>1, <2>2, <2>3, <2>4, NothingAsked, HeardMirrored
  <1>8. CASE state = "CommandQueue" /\ queue # <<>>
    <2>1. queue \in Seq(Command) /\ c \in Command /\ Tail(queue) \in Seq(Command)
          /\ state' = "CommandQueue"
      BY <1>3, <1>4, <1>8, TailIs DEF TypeOK
    <2>2. Answer(c, n.reply, Tail(queue))
      BY <1>8 DEF TakeBlock
    <2>3. ASSUME ~raced
          PROVE  /\ Pend = Tail(queue) /\ Pend' = queue'
                 /\ Hear(View, n) = HearReply(View, c, n.reply)
      <3>1. InFlight(queue, commands, toTmux, fromTmux) /\ IsReply(n)
        BY <1>2, <1>8, <2>3 DEF IInv, FlightInv
      <3>2. Pend = Tail(queue) /\ \A x : Waiting(x, Tail(fromTmux)) = x
        BY <1>2, <3>1, WaitingAnswered DEF Pend
      <3>3. n.of = c
        BY <1>2, <3>1, ReplyOfHead
      <3> QED BY <1>2, <3>2, <3>3 DEF Pend, Hear
    <2>4. CASE c = ListWindows /\ n.reply.type # "text"
      <3> DEFINE ws == IF n.reply.type = "windows" THEN n.reply.windows ELSE NoWindows
                 N == Leaves(ws) \ panes
      <3>1. ws \in [Windows -> Layout]
        BY <1>2, ListTyped
      <3>2. SyncLayouts(ws, Tail(queue))
        BY <2>2, <2>4 DEF Answer
      <3>3. Hear(View, n) = Relaid(View, ws) \/ raced
        BY <2>3, <2>4 DEF HearReply, IInv, TypeOK
      <3> HIDE DEF ws
      <3>4. /\ Alike(<<N, {}>>, <<Relaid(View, ws), View'>>)
            /\ queue' = Tail(queue) \o CaptureAll(N) /\ CaptureAll(N) \in Seq(Command)
            /\ \A p \in N : Has(CaptureAll(N), Cmd("capture-visible", p))
            /\ HistoryFirst(CaptureAll(N)) /\ Refreshes(CaptureAll(N)) = {}
            /\ changed' = TRUE
        BY <1>3, <1>4, <2>1, <3>1, <3>2, SyncMirrored
      <3> HIDE DEF N, n
      <3>5. ~raced => /\ Pend \in Seq(Command) /\ Pend' = Pend \o CaptureAll(N)
                      /\ Alike(<<N, {}>>, <<Hear(View, Head(fromTmux)), View'>>)
        BY <2>1, <2>3, <3>3, <3>4 DEF n
      <3> QED BY <1>1, <1>3, <1>5, <1>8, <2>1, <3>4, <3>5, HeardMirrored
    <2>5. CASE ~(c = ListWindows /\ n.reply.type # "text")
      <3> DEFINE e == IF c.op \in {"kill-pane", "kill-window"} THEN <<ListWindows>> ELSE <<>>
                 N == {}
      <3>1. UNCHANGED <<windows, panes, changed>>
        BY <2>2, <2>5 DEF Answer
      <3>2. queue' = Tail(queue) \o e
        <4>1. queue' = IF c.op \in {"kill-pane", "kill-window"}
                         THEN Append(Tail(queue), ListWindows) ELSE Tail(queue)
          BY <2>2, <2>5 DEF Answer
        <4>2. Append(Tail(queue), ListWindows) = Tail(queue) \o <<ListWindows>>
              /\ Tail(queue) \o <<>> = Tail(queue)
          BY <2>1, CommandsTyped
        <4> QED BY <4>1, <4>2
      <3>3. e \in Seq(Command) /\ HistoryFirst(e) /\ Refreshes(e) = {}
        BY NothingAsked
      <3>4. ASSUME ~raced
            PROVE  Alike(<<N, {}>>, <<Hear(View, n), View'>>)
        <4>1. CASE c.op \in {"capture-history", "capture-visible"}
          <5>1. FeedPane(c.arg, Shows(n.reply))
            BY <2>2, <2>5, <4>1 DEF Answer
          <5>2. c.arg \in Panes /\ Shows(n.reply) \in Seq(Nat)
            BY <1>2, <2>1, <4>1, CommandCases, ShowsTyped DEF PlainOps
          <5>3. Hear(View, n) = FedWith(View, c.arg, Shows(n.reply))
            BY <2>3, <2>5, <3>4, <4>1 DEF HearReply
          <5>4. Alike(<<{}, {}>>, <<FedWith(View, c.arg, Shows(n.reply)), View'>>)
            BY <1>3, <1>4, <3>1, <5>1, <5>2, FeedMirrored
          <5> QED BY <5>3, <5>4
        <4>2. CASE c.op \notin {"capture-history", "capture-visible"}
          <5>1. fed' = fed
            BY <2>2, <2>5, <4>2 DEF Answer
          <5>2. View' = View
            BY <1>3, <3>1, <5>1 DEF View
          <5>3. Hear(View, n) = View
            BY <2>3, <2>5, <3>4, <4>2 DEF HearReply
          <5>4. Alike(<<N, {}>>, <<View, View>>)
            BY <1>4, ViewTyped DEF Alike
          <5> QED BY <5>2, <5>3, <5>4
        <4> QED BY <4>1, <4>2
      <3>5. ~raced => /\ Pend \in Seq(Command) /\ Pend' = Pend \o e
                      /\ Alike(<<N, {}>>, <<Hear(View, Head(fromTmux)), View'>>)
        <4> HIDE DEF e, N
        <4> QED BY <2>1, <2>3, <3>2, <3>4
      <3>6. \A p \in N : Has(e, Cmd("capture-visible", p))
        OBVIOUS
      <3> HIDE DEF e, N, n, c
      <3> QED BY <1>1, <1>3, <1>5, <1>8, <2>1, <3>1, <3>3, <3>5, <3>6, HeardMirrored
    <2> QED BY <2>4, <2>5
  <1> QED BY <1>6, <1>7, <1>8

LEMMA RestartMirrored ==
  ASSUME IInv, MirrorInv, TakeSessionChanged
  PROVE  MirrorInv'
  <1> DEFINE n == Head(fromTmux)
  <1>1. Taken("session-changed")
    BY DEF TakeSessionChanged
  <1>2. /\ fromTmux \in Seq(Notification) /\ fromTmux # <<>>
        /\ n \in Notification /\ n.kind = "session-changed" /\ n.arg \in Sessions
        /\ fromTmux' = Tail(fromTmux) /\ UNCHANGED <<nativeVars, tmux, toTmux>>
    BY <1>1, TakenKeeps, KindsTyped
  <1>3. state \in {"StartupSession", "CommandQueue"}
        /\ (Answers(fromTmux) = {} => Answers(fromTmux') = {})
    BY <1>1, EventTaken
  <1>4. sessionId' = n.arg /\ state' = "CommandQueue"
    BY <1>3 DEF TakeSessionChanged
  <1>5. Hear(View, n) = Restarted(n.arg) /\ Restarted(n.arg) \in Views
    BY <1>2, RestartedTyped DEF Hear
  <1>6. Tree(tmux)' /\ StartInv'
    BY <1>2, <1>4 DEF MirrorInv, StartInv, Starting
  (* What both cases come to.                                              *)
  <1>7. ASSUME ~raced, View' = Restarted(n.arg), queue = <<>>, Answers(fromTmux) = {},
               queue' \in Seq(Command), Has(queue', ListWindows), HistoryFirst(queue')
        PROVE  Pend' = queue' /\ Mirrors(Final', tmux', Pend', fromTmux') /\ HistoryFirst(Pend')
    <2>1. Pend' = queue' /\ Pend = <<>>
      BY <1>3, <1>7 DEF Pend, Waiting
    <2>2. Mirrors(Heard(View, fromTmux), tmux, <<>>, fromTmux)
      BY <1>3, <1>7, <2>1 DEF MirrorInv, ViewInv, Final
    <2> DEFINE N == {}
               q == <<>>
    <2>3. Alike(<<N, {}>>, <<Hear(View, n), View'>>)
      BY <1>5, <1>7 DEF Alike
    <2>4. q \in Seq(Command) /\ \A p \in N : Has(queue', Cmd("capture-visible", p))
      OBVIOUS
    <2> HIDE DEF N
    <2>5. Mirrors(Heard(View', Tail(fromTmux)), tmux, q \o queue', Tail(fromTmux))
      <3> HIDE DEF q
      <3>1. Mirrors(Heard(View, fromTmux), tmux, q, fromTmux)
        BY <2>2 DEF q
      <3> QED BY <1>2, <1>7, <2>3, <2>4, <3>1, MirrorsTold
    <2>6. q \o queue' = queue'
      BY <1>7
    <2>7. Final' = Heard(View', Tail(fromTmux))
      BY <1>2 DEF Final
    <2> HIDE DEF q
    <2> QED BY <1>2, <1>7, <2>1, <2>5, <2>6, <2>7
  <1>8. CASE state = "StartupSession"
    <2>1. /\ queue' = <<TmuxVersion, RefreshClient(clientSize), ListWindows>>
          /\ lastRefresh' = clientSize
          /\ UNCHANGED <<windows, panes, fed, active, clientSize, changed, raced>>
      BY <1>8 DEF TakeSessionChanged
    <2>2. windows = NoWindows /\ active = None /\ clientSize = grid
      BY <1>8 DEF MirrorInv, StartInv, Starting
    <2>3. queue = <<>> /\ Answers(fromTmux) = {} /\ clientSize \in Sizes
      BY <1>8 DEF IInv, StartupInv
    <2>4. View' = Restarted(n.arg)
      <3>1. panes = {} /\ fed \in [Panes -> Seq(Nat)] /\ \A p \in Panes \ panes : fed[p] = <<>>
        BY <2>2, NoWindowsTyped DEF IInv, TypeOK
      <3>2. fed = [p \in Panes |-> <<>>]
        BY <3>1
      <3> QED BY <1>4, <2>1, <2>2, <3>2 DEF View, Restarted
    <2> DEFINE q == <<TmuxVersion, RefreshClient(clientSize), ListWindows>>
    <2>5. q \in Seq(Command) /\ DOMAIN q = 1 .. 3 /\ q[1] = TmuxVersion
          /\ q[2] = RefreshClient(clientSize) /\ q[3] = ListWindows
      <3>1. RefreshClient(clientSize) \in Command /\ TmuxVersion \in Command
            /\ ListWindows \in Command
        BY <2>3, CommandsTyped
      <3> QED BY <3>1
    <2> HIDE DEF q
    <2>6. /\ \A i \in 1 .. 3 : q[i].op # "capture-history"
          /\ q[1].op # "refresh-client" /\ q[3].op # "refresh-client"
          /\ q[2].op = "refresh-client"
      BY <2>5 DEF TmuxVersion, RefreshClient, ListWindows, Cmd
    <2>7. Has(q, ListWindows) /\ HistoryFirst(q) /\ Refreshes(q) = {2}
      BY <2>5, <2>6 DEF Has, HistoryFirst, Refreshes
    <2>8. Declared(q, tmux.size, grid)
      BY <2>2, <2>5, <2>7 DEF Declared
    <2>9. queue' = q
      BY <2>1 DEF q
    <2>10. ~raced => Pend' = queue' /\ Mirrors(Final', tmux', Pend', fromTmux') /\ HistoryFirst(Pend')
      BY <1>7, <2>3, <2>4, <2>5, <2>7, <2>9
    <2>11. ViewInv'
      BY <2>1, <2>10 DEF ViewInv
    <2>12. SizeInv'
      BY <1>2, <2>1, <2>2, <2>8, <2>9, <2>10 DEF SizeInv, nativeVars
    <2>13. TabsInv'
      BY <1>1, <2>1, TabsTaken DEF MirrorInv
    <2> QED BY <1>6, <2>11, <2>12, <2>13 DEF MirrorInv
  <1>9. CASE state = "CommandQueue"
    <2>1. /\ queue' = <<ListWindows>>
          /\ windows' = NoWindows
          /\ fed' = [p \in Panes |-> <<>>]
          /\ active' = None /\ lastRefresh' = None
          /\ changed' = TRUE
          /\ raced' = (raced \/ queue # <<>>)
      BY <1>9 DEF TakeSessionChanged
    <2>2. View' = Restarted(n.arg)
      BY <1>4, <2>1 DEF View, Restarted
    <2>3. raced \in BOOLEAN
      BY DEF IInv, TypeOK
    <2>4. ASSUME ~raced'
          PROVE  /\ Pend' = queue' /\ Mirrors(Final', tmux', Pend', fromTmux') /\ HistoryFirst(Pend')
                 /\ Declared(Pend', tmux.size, grid)
      <3>1. ~raced /\ queue = <<>>
        BY <2>1, <2>3, <2>4
      <3>2. Answers(fromTmux) = {}
        BY <1>9, <3>1 DEF IInv, FlightInv, InFlight
      <3>3. Pend' = queue' /\ Mirrors(Final', tmux', Pend', fromTmux') /\ HistoryFirst(Pend')
        BY <1>7, <2>1, <2>2, <3>1, <3>2, NothingAsked
      <3>4. Pend = <<>>
        BY <3>1, <3>2 DEF Pend, Waiting
      <3>5. Declared(<<>>, tmux.size, grid)
        BY <1>9, <3>1, <3>4 DEF MirrorInv, SizeInv
      <3>6. tmux.size = grid
        <4>1. Refreshes(<<>>) = {}
          BY NothingAsked
        <4> QED BY <3>5, <4>1 DEF Declared
      <3> QED BY <2>1, <3>3, <3>6, NothingAsked DEF Declared
    <2>5. ViewInv'
      BY <2>4 DEF ViewInv
    <2>6. SizeInv'
      BY <1>2, <2>1, <2>4 DEF SizeInv, nativeVars
    <2>7. TabsInv'
      BY <1>1, <2>1, TabsTaken DEF MirrorInv
    <2> QED BY <1>6, <2>5, <2>6, <2>7 DEF MirrorInv
  <1> QED BY <1>3, <1>8, <1>9

(* A notification of which nothing is asked but what e says.               *)
LEMMA PlainMirrored ==
  ASSUME IInv, MirrorInv, NEW kind, Taken(kind), kind # "block", state = "CommandQueue",
         state' = "CommandQueue", UNCHANGED <<lastRefresh, raced>>,
         changed' \/ UNCHANGED <<windows, changed>>,
         NEW N, NEW e \in Seq(Command), queue' = queue \o e,
         Alike(<<N, {}>>, <<Hear(View, Head(fromTmux)), View'>>),
         kind \in CallKinds => Has(e, ListWindows),
         \A p \in N : Has(e, Cmd("capture-visible", p)),
         HistoryFirst(e), Refreshes(e) = {}
  PROVE  MirrorInv'
  <1>1. /\ fromTmux \in Seq(Notification) /\ fromTmux # <<>> /\ fromTmux' = Tail(fromTmux)
        /\ ~IsReply(Head(fromTmux)) /\ queue \in Seq(Command)
    BY TakenKeeps, EventTaken DEF IInv, TypeOK
  <1>2. ASSUME ~raced PROVE Pend \in Seq(Command) /\ Pend' = Pend \o e
    <2>1. InFlight(queue, commands, toTmux, fromTmux)
      BY <1>2 DEF IInv, FlightInv
    <2> QED BY <1>1, <2>1, WaitingTyped, WaitingTold DEF Pend
  <1> QED BY <1>2, HeardMirrored

LEMMA LayoutMirrored ==
  ASSUME IInv, MirrorInv, TakeLayoutChange
  PROVE  MirrorInv'
  <1> DEFINE n == Head(fromTmux)
             ws == [windows EXCEPT ![n.arg] = n.layout]
  <1>1. Taken("layout-change")
        /\ UNCHANGED <<state, sessionId, active, clientSize, lastRefresh, raced>>
    BY DEF TakeLayoutChange
  <1>2. n.arg \in Windows /\ n.layout \in Layout /\ n.kind = "layout-change"
    BY <1>1, TakenKeeps, KindsTyped
  <1>3. state \in {"StartupSession", "CommandQueue"} /\ TypeOK /\ queue \in Seq(Command)
    BY <1>1, EventTaken DEF IInv, TypeOK
  <1>4. "layout-change" \notin CallKinds
    BY DEF CallKinds
  <1>5. CASE state = "CommandQueue" /\ windows[n.arg] # NoLayout
    <2>1. SyncLayouts(ws, queue)
      BY <1>5 DEF TakeLayoutChange
    <2>2. ws \in [Windows -> Layout]
      BY <1>2, <1>3 DEF TypeOK
    <2>3. Hear(View, n) = Relaid(View, ws)
      BY <1>2, <1>5 DEF Hear, View
    <2> HIDE DEF ws
    <2> DEFINE N == Leaves(ws) \ panes
    <2>4. /\ Alike(<<N, {}>>, <<Relaid(View, ws), View'>>)
          /\ queue' = queue \o CaptureAll(N) /\ CaptureAll(N) \in Seq(Command)
          /\ \A p \in N : Has(CaptureAll(N), Cmd("capture-visible", p))
          /\ HistoryFirst(CaptureAll(N)) /\ Refreshes(CaptureAll(N)) = {}
          /\ changed' = TRUE
      BY <1>1, <1>3, <2>1, <2>2, SyncMirrored
    <2> HIDE DEF N
    <2> QED BY <1>1, <1>4, <1>5, <2>3, <2>4, PlainMirrored
  <1>6. CASE ~(state = "CommandQueue" /\ windows[n.arg] # NoLayout)
    <2>1. UNCHANGED <<windows, panes, fed, queue, changed, commands>>
      BY <1>6 DEF TakeLayoutChange
    <2>2. CASE state = "StartupSession"
      BY <1>1, <2>1, <2>2, IgnoredMirrored DEF Starting
    <2>3. CASE state = "CommandQueue"
      <3>1. View' = View /\ View \in Views
        BY <1>1, <1>3, <2>1, ViewTyped DEF View
      <3>2. Hear(View, n) = View
        BY <1>2, <1>6, <2>3 DEF Hear, View
      <3>3. Alike(<<{}, {}>>, <<Hear(View, n), View'>>)
        BY <3>1, <3>2 DEF Alike
      <3>4. queue' = queue \o <<>>
        BY <1>3, <2>1
      <3> QED BY <1>1, <1>4, <2>1, <2>3, <3>3, <3>4, NothingAsked, PlainMirrored
    <2> QED BY <1>3, <2>2, <2>3
  <1> QED BY <1>5, <1>6

LEMMA WindowMirrored ==
  ASSUME IInv, MirrorInv, TakeWindowChange
  PROVE  MirrorInv'
  <1> DEFINE n == Head(fromTmux)
  <1>1. PICK kind \in {"window-add", "window-close"} : Taken(kind)
    BY DEF TakeWindowChange
  <1>2. UNCHANGED <<state, sessionId, windows, panes, fed, active, clientSize,
                    lastRefresh, changed, raced>>
    BY DEF TakeWindowChange
  <1>3. state \in {"StartupSession", "CommandQueue"} /\ TypeOK /\ queue \in Seq(Command)
        /\ n.kind = kind
    BY <1>1, EventTaken, TakenKeeps DEF IInv, TypeOK
  <1>4. CASE state = "StartupSession"
    <2>1. queue' = queue
      BY <1>4 DEF TakeWindowChange
    <2> QED BY <1>1, <1>2, <1>4, <2>1, IgnoredMirrored DEF Starting
  <1>5. CASE state = "CommandQueue"
    <2>1. queue' = queue \o <<ListWindows>>
      <3>1. queue' = Append(queue, ListWindows)
        BY <1>5 DEF TakeWindowChange
      <3> QED BY <1>3, <3>1, CommandsTyped
    <2>2. View' = View /\ View \in Views
      BY <1>2, <1>3, ViewTyped DEF View
    <2>3. Hear(View, n) = View
      BY <1>1, <1>3 DEF Hear
    <2>4. Alike(<<{}, {}>>, <<Hear(View, n), View'>>)
      BY <2>2, <2>3 DEF Alike
    <2> QED BY <1>1, <1>2, <1>5, <2>1, <2>4, NothingAsked, PlainMirrored
  <1> QED BY <1>3, <1>4, <1>5

LEMMA PaneMirrored ==
  ASSUME IInv, MirrorInv, TakePaneChanged
  PROVE  MirrorInv'
  <1> DEFINE n == Head(fromTmux)
  <1>1. Taken("pane-changed")
        /\ UNCHANGED <<state, sessionId, queue, windows, panes, fed, clientSize,
                       lastRefresh, commands, changed, raced>>
    BY DEF TakePaneChanged
  <1>2. n.arg \in Panes /\ n.kind = "pane-changed" /\ n \in Notification
    BY <1>1, TakenKeeps, KindsTyped
  <1>3. state \in {"StartupSession", "CommandQueue"} /\ TypeOK /\ queue \in Seq(Command)
    BY <1>1, EventTaken DEF IInv, TypeOK
  <1>4. CASE state = "StartupSession"
    <2>1. active' = active
      BY <1>4 DEF TakePaneChanged
    <2> QED BY <1>1, <1>4, <2>1, IgnoredMirrored DEF Starting
  <1>5. CASE state = "CommandQueue"
    <2>1. active' = n.arg
      BY <1>5 DEF TakePaneChanged
    <2>2. View \in Views /\ Hear(View, n) = [View EXCEPT !.active = n.arg] /\ Hear(View, n) \in Views
      BY <1>2, <1>3, ViewTyped, HearTyped DEF Hear
    <2>3. View' = [View EXCEPT !.active = n.arg]
      BY <1>1, <2>1 DEF View
    <2>4. Alike(<<{}, {}>>, <<Hear(View, n), View'>>)
      BY <2>2, <2>3 DEF Alike
    <2>5. queue' = queue \o <<>> /\ "pane-changed" \notin CallKinds
      BY <1>1, <1>3 DEF CallKinds
    <2> QED BY <1>1, <1>5, <2>4, <2>5, NothingAsked, PlainMirrored
  <1> QED BY <1>3, <1>4, <1>5

LEMMA OutputMirrored ==
  ASSUME IInv, MirrorInv, TakeOutput
  PROVE  MirrorInv'
  <1> DEFINE n == Head(fromTmux)
  <1>1. Taken("output")
        /\ UNCHANGED <<state, sessionId, queue, windows, panes, active, clientSize,
                       lastRefresh, commands, changed, raced>>
    BY DEF TakeOutput
  <1>2. n.arg \in Panes /\ n.kind = "output" /\ n.data \in Nat
    BY <1>1, TakenKeeps, KindsTyped
  <1>3. state \in {"StartupSession", "CommandQueue"} /\ TypeOK /\ queue \in Seq(Command)
    BY <1>1, EventTaken DEF IInv, TypeOK
  <1>4. CASE state = "StartupSession"
    <2>1. fed' = fed
      BY <1>4 DEF TakeOutput
    <2> QED BY <1>1, <1>4, <2>1, IgnoredMirrored DEF Starting
  <1>5. CASE state = "CommandQueue"
    <2>1. FeedPane(n.arg, <<n.data>>)
      BY <1>5 DEF TakeOutput
    <2>2. <<n.data>> \in Seq(Nat)
      BY <1>2
    <2>3. Hear(View, n) = FedWith(View, n.arg, <<n.data>>)
      BY <1>2 DEF Hear
    <2>4. Alike(<<{}, {}>>, <<Hear(View, n), View'>>)
      BY <1>1, <1>2, <1>3, <2>1, <2>2, <2>3, FeedMirrored
    <2>5. queue' = queue \o <<>> /\ "output" \notin CallKinds
      BY <1>1, <1>3 DEF CallKinds
    <2> QED BY <1>1, <1>5, <2>4, <2>5, NothingAsked, PlainMirrored
  <1> QED BY <1>3, <1>4, <1>5

LEMMA ExitMirrored ==
  ASSUME IInv, MirrorInv, TakeExit
  PROVE  MirrorInv'
  <1>1. Taken("exit") /\ state' = "Defunct"
        /\ UNCHANGED <<sessionId, queue, windows, panes, fed, active, clientSize,
                       lastRefresh, commands, changed, raced>>
    BY DEF TakeExit
  <1>2. tmux' = tmux
    BY <1>1, TakenKeeps
  <1>3. TabsInv'
    BY <1>1, TabsTaken DEF MirrorInv
  <1> QED BY <1>1, <1>2, <1>3 DEF MirrorInv, StartInv, Starting, ViewInv, SizeInv

-----------------------------------------------------------------------------
(* The end of a batch and the user.                                        *)

(* The queue grows by c while tmux does nothing.                           *)
LEMMA AskedMirrored ==
  ASSUME IInv, MirrorInv, state = "CommandQueue", ~raced,
         UNCHANGED <<tmux, fromTmux>>,
         NEW e \in Seq(Command), queue' = queue \o e,
         NEW A, Alike(<<{}, A>>, <<View, View'>>), \A p \in A : Has(e, Cmd("select-pane", p)),
         HistoryFirst(e)
  PROVE  /\ Pend \in Seq(Command) /\ Pend' = Pend \o e
         /\ Mirrors(Final', tmux', Pend', fromTmux') /\ HistoryFirst(Pend')
  <1>1. InFlight(queue, commands, toTmux, fromTmux)
    BY DEF IInv, FlightInv
  <1>2. queue \in Seq(Command) /\ fromTmux \in Seq(Notification)
    BY DEF IInv, TypeOK
  <1>3. Pend \in Seq(Command) /\ Pend' = Pend \o e
    <2>1. Pend \in Seq(Command)
      BY <1>1, <1>2, WaitingTyped DEF Pend
    <2>2. Waiting(queue \o e, fromTmux) = Waiting(queue, fromTmux) \o e
      <3>1. Answers(fromTmux) # {} => queue # <<>>
        BY <1>1 DEF InFlight
      <3> QED BY <1>2, <3>1, TailGrows DEF Waiting
    <2> QED BY <2>1, <2>2 DEF Pend
  <1>4. Mirrors(Final, tmux, Pend, fromTmux) /\ HistoryFirst(Pend)
    BY DEF MirrorInv, ViewInv
  <1> DEFINE c == <<{}, A>>
  <1>5. Alike(c, <<Final, Final'>>)
    <2>1. Alike(c, <<Heard(View, fromTmux), Heard(View', fromTmux)>>)
      BY <1>2, AlikeHeard
    <2> QED BY <2>1 DEF Final
  <1>6. (\A p \in c[1] : Has(e, Cmd("capture-visible", p)))
        /\ (\A p \in c[2] : Has(e, Cmd("select-pane", p)))
    OBVIOUS
  <1> HIDE DEF c
  <1>7. Mirrors(Final', tmux, Pend \o e, fromTmux)
    BY <1>3, <1>4, <1>5, <1>6, MirrorsAlike
  <1> QED BY <1>3, <1>4, <1>7, HistoryGrows

LEMMA AppendIs ==
  ASSUME NEW q \in Seq(Command), NEW c \in Command
  PROVE  Append(q, c) = q \o <<c>> /\ <<c>> \in Seq(Command) /\ q \o <<>> = q
  OBVIOUS

LEMMA OneAsked ==
  ASSUME NEW c
  PROVE  /\ c.op # "capture-history" => HistoryFirst(<<c>>)
         /\ c.op # "refresh-client" => Refreshes(<<c>>) = {}
         /\ Has(<<c>>, c)
  <1>1. DOMAIN <<c>> = {1} /\ <<c>>[1] = c
    OBVIOUS
  <1> QED BY <1>1 DEF HistoryFirst, Refreshes, Has

LEMMA BatchMirrored ==
  ASSUME IInv, MirrorInv, EndBatch
  PROVE  MirrorInv'
  <1>1. /\ batch' = FALSE /\ changed' = FALSE /\ TypeOK
        /\ UNCHANGED <<state, sessionId, windows, panes, fed, active, clientSize,
                       lastRefresh, grid, tmux, fromTmux, raced, spent>>
    BY DEF EndBatch, IInv
  <1>2. queue \in Seq(Command) /\ DetachClient \in Command
    BY <1>1, CommandsTyped DEF TypeOK
  <1>3. PICK e \in {<<>>, <<DetachClient>>} : queue' = queue \o e
    <2>1. queue' = queue \/ queue' = Append(queue, DetachClient)
      BY DEF EndBatch, EnqueueWrite
    <2> QED BY <1>2, <2>1, AppendIs
  <1>4. e \in Seq(Command) /\ HistoryFirst(e) /\ Refreshes(e) = {}
    <2>1. DetachClient.op # "capture-history" /\ DetachClient.op # "refresh-client"
      BY DEF DetachClient, Cmd
    <2> QED BY <1>2, <2>1, NothingAsked, OneAsked, AppendIs
  <1>5. View' = View /\ View \in Views
    BY <1>1, ViewTyped DEF View
  <1>6. state # "CommandQueue" => queue' = queue \/ state = "Defunct"
    <2>1. state \in {"StartupBlock", "StartupSession"} => ~changed
      BY DEF IInv, StartupInv
    <2>2. state # "Defunct" /\ ~changed => queue' = queue
      BY DEF EndBatch
    <2> QED BY <1>1, <2>1, <2>2 DEF TypeOK
  <1>7. Tree(tmux)'
    BY <1>1 DEF MirrorInv
  <1>8. StartInv'
    BY <1>1 DEF MirrorInv, StartInv, Starting
  <1>9. TabsInv'
    BY <1>1 DEF EndBatch, MirrorInv, TabsInv
  <1>10. ASSUME state = "CommandQueue", ~raced
         PROVE  /\ Pend \in Seq(Command) /\ Pend' = Pend \o e
                /\ Mirrors(Final', tmux', Pend', fromTmux') /\ HistoryFirst(Pend')
    <2> DEFINE A == {}
    <2>1. Alike(<<{}, A>>, <<View, View'>>) /\ \A p \in A : Has(e, Cmd("select-pane", p))
      BY <1>5 DEF Alike
    <2> HIDE DEF A
    <2> QED BY <1>1, <1>3, <1>4, <1>10, <2>1, AskedMirrored
  <1>11. ViewInv'
    <2> SUFFICES ASSUME state # "Defunct", ~raced
                 PROVE  Mirrors(Final', tmux', Pend', fromTmux') /\ HistoryFirst(Pend')
      BY <1>1 DEF ViewInv
    <2>1. CASE state # "CommandQueue"
      <3>1. Final' = Final /\ Pend' = Pend
        BY <1>1, <1>5, <1>6, <2>1 DEF Final, Pend
      <3> QED BY <1>1, <3>1 DEF MirrorInv, ViewInv
    <2> QED BY <1>10, <2>1
  <1>12. SizeInv'
    <2> SUFFICES ASSUME state = "CommandQueue", ~raced
                 PROVE  lastRefresh \in {None, grid} /\ Declared(Pend', tmux.size, grid)
      BY <1>1 DEF SizeInv
    <2>1. lastRefresh \in {None, grid} /\ Declared(Pend, tmux.size, grid)
      BY DEF MirrorInv, SizeInv
    <2> QED BY <1>4, <1>10, <2>1, DeclaredGrows
  <1> QED BY <1>7, <1>8, <1>9, <1>11, <1>12 DEF MirrorInv

(* A command c of the user, which selects a pane when active changes.      *)
LEMMA WriteMirrored ==
  ASSUME IInv, MirrorInv, Acts, NEW c \in Command, EnqueueWrite(c, toTmux),
         c.op # "capture-history",
         active' = active \/ (active' \in Panes /\ c = Cmd("select-pane", active')),
         \/ c.op # "refresh-client" /\ UNCHANGED <<lastRefresh, grid>>
         \/ c = RefreshClient(grid') /\ lastRefresh' = grid' /\ grid' \in Sizes
  PROVE  MirrorInv'
  <1>1. /\ state = "CommandQueue" /\ ~batch /\ TypeOK
        /\ UNCHANGED <<state, sessionId, windows, panes, fed, driverVars, tabs,
                       mapped, tmux, fromTmux, raced>>
    BY DEF Acts, IInv
  <1>2. queue \in Seq(Command) /\ queue' = queue \o <<c>> /\ <<c>> \in Seq(Command)
        /\ HistoryFirst(<<c>>)
    BY <1>1, AppendIs, OneAsked DEF TypeOK, EnqueueWrite
  <1>3. Tree(tmux)' /\ StartInv' /\ TabsInv'
    BY <1>1 DEF MirrorInv, StartInv, Starting, TabsInv, driverVars
  <1>4. ASSUME ~raced
        PROVE  /\ Pend \in Seq(Command) /\ Pend' = Pend \o <<c>>
               /\ Mirrors(Final', tmux', Pend', fromTmux') /\ HistoryFirst(Pend')
    <2> DEFINE A == IF active' = active THEN {} ELSE {active'}
    <2>1. \A p \in A : Has(<<c>>, Cmd("select-pane", p))
      BY OneAsked
    <2>2. View \in Views /\ View' \in Views
      <3>1. View \in Views
        BY <1>1, ViewTyped
      <3>2. View' = [View EXCEPT !.active = active']
        BY <1>1 DEF View
      <3> QED BY <1>1, <3>1, <3>2 DEF Views, TypeOK
    <2>3. Alike(<<{}, A>>, <<View, View'>>)
      <3>1. /\ View.id = View'.id /\ View.windows = View'.windows /\ View.fed = View'.fed
            /\ View.new = {} /\ View.active = active /\ View'.active = active'
        BY <1>1 DEF View
      <3>2. <<{}, A>>[2] = A
        OBVIOUS
      <3>3. active' = active \/ active' \in A
        OBVIOUS
      <3> HIDE DEF A
      <3> QED BY <2>2, <3>1, <3>2, <3>3 DEF Alike
    <2> HIDE DEF A
    <2> QED BY <1>1, <1>2, <1>4, <2>1, <2>3, AskedMirrored
  <1>5. ViewInv'
    BY <1>1, <1>4 DEF ViewInv
  <1>6. SizeInv'
    <2> SUFFICES ASSUME ~raced
                 PROVE  lastRefresh' \in {None, grid'} /\ Declared(Pend', tmux.size, grid')
      BY <1>1 DEF SizeInv
    <2>1. CASE c.op # "refresh-client" /\ UNCHANGED <<lastRefresh, grid>>
      <3>1. lastRefresh \in {None, grid} /\ Declared(Pend, tmux.size, grid)
        BY <1>1 DEF MirrorInv, SizeInv
      <3> QED BY <1>2, <1>4, <2>1, <3>1, DeclaredGrows, OneAsked
    <2>2. CASE c = RefreshClient(grid') /\ lastRefresh' = grid' /\ grid' \in Sizes
      <3>1. Pend' = Append(Pend, RefreshClient(grid'))
        BY <1>4, <2>2, AppendIs
      <3>2. Declared(Append(Pend, RefreshClient(grid')), tmux.size, grid')
        BY <1>4, <2>2, DeclaredAnew
      <3> QED BY <2>2, <3>1, <3>2
    <2> QED BY <2>1, <2>2
  <1> QED BY <1>3, <1>5, <1>6 DEF MirrorInv

LEMMA UserMirrored ==
  ASSUME IInv, MirrorInv, User
  PROVE  MirrorInv'
  <1>1. ASSUME NEW op \in PaneWrites, NEW p \in Panes, WriteToPane(op, p)
        PROVE  MirrorInv'
    <2>1. Cmd(op, p) \in Command
      BY CommandsTyped DEF PaneOps
    <2>2. Cmd(op, p).op # "capture-history" /\ Cmd(op, p).op # "refresh-client"
      BY DEF Cmd, PaneWrites
    <2> QED BY <1>1, <2>1, <2>2, WriteMirrored DEF WriteToPane
  <1>2. CASE NewWindow
    <2>1. Cmd("new-window", None).op # "capture-history"
          /\ Cmd("new-window", None).op # "refresh-client"
      BY DEF Cmd
    <2> QED BY <1>2, <2>1, CommandsTyped, WriteMirrored DEF NewWindow
  <1>3. ASSUME NEW w \in Windows, KillWindow(w)
        PROVE  MirrorInv'
    <2>1. Cmd("kill-window", w).op # "capture-history"
          /\ Cmd("kill-window", w).op # "refresh-client"
      BY DEF Cmd
    <2> QED BY <1>3, <2>1, CommandsTyped, WriteMirrored DEF KillWindow
  <1>4. ASSUME NEW p \in Panes, SelectPane(p)
        PROVE  MirrorInv'
    <2>1. Cmd("select-pane", p) \in Command
      BY CommandsTyped DEF PaneOps
    <2>2. Cmd("select-pane", p).op # "capture-history"
          /\ Cmd("select-pane", p).op # "refresh-client"
      BY DEF Cmd
    <2> QED BY <1>4, <2>1, <2>2, WriteMirrored DEF SelectPane
  <1>5. ASSUME NEW z \in Sizes, Resize(z)
        PROVE  MirrorInv'
    <2>1. Acts /\ grid' = z /\ active' = active
      BY <1>5 DEF Resize
    <2>2. CASE lastRefresh # z
      <3>1. EnqueueWrite(RefreshClient(z), toTmux) /\ lastRefresh' = z
        BY <1>5, <2>2 DEF Resize
      <3>2. RefreshClient(z).op # "capture-history" /\ RefreshClient(z) \in Command
        BY CommandsTyped DEF RefreshClient, Cmd
      <3> QED BY <2>1, <3>1, <3>2, WriteMirrored
    <2>3. CASE lastRefresh = z
      <3>1. UNCHANGED <<queue, toTmux, lastRefresh>>
        BY <1>5, <2>3 DEF Resize
      <3>2. /\ state = "CommandQueue"
            /\ UNCHANGED <<state, sessionId, windows, panes, fed, driverVars, tabs,
                           mapped, tmux, fromTmux, raced>>
        BY <2>1 DEF Acts
      <3>3. Tree(tmux)' /\ StartInv' /\ TabsInv'
        BY <3>2 DEF MirrorInv, StartInv, Starting, TabsInv, driverVars
      <3>4. Final' = Final /\ Pend' = Pend
        BY <2>1, <3>1, <3>2 DEF Final, Pend, View
      <3>5. ViewInv'
        BY <3>2, <3>4 DEF MirrorInv, ViewInv
      <3>6. z # None
        BY NoneAssumption
      <3>7. SizeInv'
        BY <2>1, <2>3, <3>1, <3>2, <3>4, <3>6 DEF MirrorInv, SizeInv
      <3> QED BY <3>3, <3>5, <3>7 DEF MirrorInv
    <2> QED BY <2>2, <2>3
  <1> QED BY <1>1, <1>2, <1>3, <1>4, <1>5 DEF User

-----------------------------------------------------------------------------
(* tmux.                                                                   *)

(* That the view u follows tmux's step from t to z as v did t, notes being *)
(* what it said of the step, but for what waiting commands make up for.    *)
Followed(v, t, u, z, notes) ==
    /\ u.id = z.session
    /\ Calls(notes) \/ u.windows = Listing(z) \/ v.windows # Listing(t)
    /\ u.active \in Own(z) =>
         \/ z.active[WindowOf(z, u.active)] = u.active
         \/ /\ u.active = v.active /\ v.active \in Own(t)
            /\ t.active[WindowOf(t, v.active)] # v.active
    /\ \A p \in Leaves(u.windows) \cap Own(z) :
         \/ p \in u.new \/ EndsWith(u.fed[p], z.printed[p])
         \/ /\ p \in Leaves(v.windows) \cap Own(t) /\ p \notin v.new
            /\ ~EndsWith(v.fed[p], t.printed[p])

(* What a command of the queue may still see to.                           *)
MirrorOps == {"list-windows", "select-pane", "capture-visible"}

LEMMA MirrorsFollowed ==
  ASSUME NEW v, NEW t, NEW u, NEW z, NEW notes, NEW q, NEW e, NEW s, NEW r,
         Mirrors(v, t, q, s), Followed(v, t, u, z, notes),
         Calls(s) \/ Calls(notes) => Calls(r),
         \A x : x.op \in MirrorOps /\ Has(q, x) => Has(e, x)
  PROVE  Mirrors(u, z, e, r)
  <1>1. /\ Has(q, ListWindows) => Has(e, ListWindows)
        /\ \A p : Has(q, Cmd("select-pane", p)) => Has(e, Cmd("select-pane", p))
        /\ \A p : Has(q, Cmd("capture-visible", p)) => Has(e, Cmd("capture-visible", p))
    <2>1. /\ ListWindows.op \in MirrorOps
          /\ \A p : Cmd("select-pane", p).op \in MirrorOps
          /\ \A p : Cmd("capture-visible", p).op \in MirrorOps
      BY DEF ListWindows, Cmd, MirrorOps
    <2> QED BY <2>1
  <1>2. ListOf(u, z, e, r)
    BY <1>1 DEF Mirrors, Followed, ListOf
  <1>3. ActiveOf(u, z, e)
    BY <1>1 DEF Mirrors, Followed, ActiveOf
  <1>4. ScreensOf(u, z, e)
    BY <1>1 DEF Mirrors, Followed, ScreensOf
  <1> QED BY <1>2, <1>3, <1>4 DEF Mirrors, Followed

(* Where a pane is.                                                        *)
LEMMA PlaceIs ==
  ASSUME NEW t \in Server, Tree(t), NEW s \in Sessions, NEW w \in Windows,
         NEW p \in t.tree[s][w]
  PROVE  Alive(t, p) /\ Place(t, p)[1] = s /\ Place(t, p)[2] = w /\ WindowOf(t, p) = w
         /\ p \in Panes
  <1>1. Alive(t, p) /\ p \in Panes
    BY DEF Alive, Server
  <1>2. /\ Place(t, p)[1] \in Sessions /\ Place(t, p)[2] \in Windows
        /\ p \in t.tree[Place(t, p)[1]][Place(t, p)[2]]
    BY <1>1, PlaceTyped
  <1>3. Place(t, p)[1] = s /\ Place(t, p)[2] = w
    BY <1>2 DEF Tree
  <1> QED BY <1>1, <1>3 DEF WindowOf

LEMMA OwnIs ==
  ASSUME NEW t \in Server, Tree(t), NEW p \in Own(t)
  PROVE  /\ p \in Panes /\ Alive(t, p) /\ p \in t.used /\ WindowOf(t, p) \in Windows
         /\ p \in t.tree[t.session][WindowOf(t, p)] /\ Place(t, p)[1] = t.session
  <1>1. PICK w \in Windows : p \in t.tree[t.session][w]
    BY DEF Own
  <1>2. t.session \in Sessions
    BY DEF Server
  <1> QED BY <1>1, <1>2, PlaceIs DEF Tree

LEMMA ListingIs ==
  ASSUME NEW t \in Server
  PROVE  /\ Listing(t) \in [Windows -> Layout]
         /\ \A w \in Windows : Listing(t)[w] = IF t.tree[t.session][w] = {} THEN NoLayout
                                               ELSE LayoutOf(t, w)
         /\ Leaves(Listing(t)) = Own(t)
         /\ \A w \in Windows : (t.tree[t.session][w] # {}) <=> (Listing(t)[w] # NoLayout)
  <1>1. \A w \in Windows : Listing(t)[w] = IF t.tree[t.session][w] = {} THEN NoLayout
                                           ELSE LayoutOf(t, w)
    BY DEF Listing
  <1>2. ASSUME NEW w \in Windows
        PROVE  Listing(t)[w].panes = t.tree[t.session][w]
    <2>1. LayoutOf(t, w).panes = t.tree[t.session][w] /\ NoLayout.panes = {}
      BY DEF LayoutOf, NoLayout
    <2> QED BY <1>1, <2>1
  <1>3. Leaves(Listing(t)) = Own(t)
    BY <1>2 DEF Leaves, Own
  <1>4. ASSUME NEW w \in Windows
        PROVE  (t.tree[t.session][w] # {}) <=> (Listing(t)[w] # NoLayout)
    <2>1. NoLayout.panes = {}
      BY DEF NoLayout
    <2> QED BY <1>1, <1>2, <2>1
  <1> QED BY <1>1, <1>3, <1>4, ListingTyped

(* The screens follow when nothing was printed, and panes are told of only *)
(* by layouts.                                                             *)
LEMMA ScreensFollow ==
  ASSUME NEW v \in Views, NEW u, HasHeard(v, u), NEW t \in Server, Tree(t), NEW z \in Server,
         z.printed = t.printed, Own(z) \subseteq Own(t) \cup (Panes \ t.used),
         NEW p \in Leaves(u.windows) \cap Own(z)
  PROVE  \/ p \in u.new \/ EndsWith(u.fed[p], z.printed[p])
         \/ /\ p \in Leaves(v.windows) \cap Own(t) /\ p \notin v.new
            /\ ~EndsWith(v.fed[p], t.printed[p])
  <1>1. CASE p \in u.new
    BY <1>1
  <1>2. CASE p \in Leaves(v.windows) /\ u.fed[p] = v.fed[p] /\ p \in Own(t) /\ p \notin u.new
    BY <1>2 DEF HasHeard
  <1>3. CASE p \in Panes \ t.used
    <2>1. z.printed[p] = 0
      BY <1>3 DEF Tree
    <2>2. EndsWith(u.fed[p], 0)
      BY RowsAssumption DEF EndsWith
    <2> QED BY <2>1, <2>2
  <1>4. p \in u.new \/ (p \in Leaves(v.windows) /\ u.fed[p] = v.fed[p])
    BY DEF HasHeard
  <1> QED BY <1>1, <1>2, <1>3, <1>4

(* All starts again.                                                       *)
LEMMA RestartFollowed ==
  ASSUME NEW v, NEW t, NEW z \in Server, NEW notes, Calls(notes)
  PROVE  Followed(v, t, Restarted(z.session), z, notes)
  <1>1. Leaves(NoWindows) = {}
    BY NoWindowsTyped
  <1>2. None \notin Own(z)
    BY NoneAssumption DEF Own, Server
  <1> QED BY <1>1, <1>2 DEF Followed, Restarted

(* Nothing that is mirrored changes.                                       *)
LEMMA SameFollowed ==
  ASSUME NEW v \in Views, NEW t \in Server, Tree(t), NEW z \in Server,
         z.session = t.session, z.tree = t.tree, z.size = t.size, z.active = t.active,
         z.printed = t.printed, z.used = t.used, v.id = t.session, NEW notes
  PROVE  Tree(z) /\ Followed(v, t, v, z, notes)
  <1>1. Listing(z) = Listing(t) /\ Own(z) = Own(t)
    BY DEF Listing, LayoutOf, Own
  <1>2. WindowOf(z, v.active) = WindowOf(t, v.active)
    BY DEF WindowOf, Place
  <1>3. Tree(z)
    BY DEF Tree
  <1>4. \A p \in Leaves(v.windows) \cap Own(z) :
          \/ p \in v.new \/ EndsWith(v.fed[p], z.printed[p])
          \/ /\ p \in Leaves(v.windows) \cap Own(t) /\ p \notin v.new
             /\ ~EndsWith(v.fed[p], t.printed[p])
    BY <1>1
  <1> QED BY <1>1, <1>2, <1>3, <1>4 DEF Followed

(* One window w of the session s is edited.                                *)
Edited(t, z, s, w) ==
    /\ z.session = t.session /\ z.size = t.size /\ z.printed = t.printed
    /\ t.used \subseteq z.used
    /\ \A a \in Sessions, b \in Windows : a # s \/ b # w => z.tree[a][b] = t.tree[a][b]
    /\ \A b \in Windows : b # w => z.active[b] = t.active[b]
    /\ z.tree[s][w] \subseteq t.tree[s][w] \cup (Panes \ t.used)
    /\ z.tree[s][w] \subseteq z.used
    /\ z.tree[s][w] # {} => w \in z.used
    /\ t.tree[s][w] # {} \/ w \notin t.used

LEMMA EditedTree ==
  ASSUME NEW t \in Server, Tree(t), NEW z \in Server, NEW s \in Sessions, NEW w \in Windows,
         Edited(t, z, s, w)
  PROVE  Tree(z)
  <1>1. ASSUME NEW a \in Sessions, NEW b \in Windows, NEW d \in Sessions, NEW f \in Windows,
               NEW p \in z.tree[a][b], p \in z.tree[d][f]
        PROVE  a = d /\ b = f
    <2>1. p \in t.tree[a][b] \/ (a = s /\ b = w /\ p \notin t.used)
      BY <1>1 DEF Edited
    <2>2. p \in t.tree[d][f] \/ (d = s /\ f = w /\ p \notin t.used)
      BY <1>1 DEF Edited
    <2>3. (p \in t.tree[a][b] => p \in t.used) /\ (p \in t.tree[d][f] => p \in t.used)
      BY DEF Tree
    <2>4. p \in t.tree[a][b] /\ p \in t.tree[d][f] => a = d /\ b = f
      BY DEF Tree
    <2> QED BY <2>1, <2>2, <2>3, <2>4
  <1>2. ASSUME NEW a \in Sessions, NEW d \in Sessions, NEW b \in Windows,
               z.tree[a][b] # {}, z.tree[d][b] # {}
        PROVE  a = d
    <2>1. CASE b # w \/ (a # s /\ d # s)
      BY <1>2, <2>1 DEF Edited, Tree
    <2>2. CASE b = w /\ a = s /\ d # s
      <3>1. t.tree[d][w] # {}
        BY <1>2, <2>2 DEF Edited
      <3>2. w \in t.used
        BY <3>1 DEF Tree
      <3>3. t.tree[s][w] # {}
        BY <3>2 DEF Edited
      <3> QED BY <2>2, <3>1, <3>3 DEF Tree
    <2>3. CASE b = w /\ d = s /\ a # s
      <3>1. t.tree[a][w] # {}
        BY <1>2, <2>3 DEF Edited
      <3>2. w \in t.used
        BY <3>1 DEF Tree
      <3>3. t.tree[s][w] # {}
        BY <3>2 DEF Edited
      <3> QED BY <2>3, <3>1, <3>3 DEF Tree
    <2> QED BY <2>1, <2>2, <2>3
  <1>3. ASSUME NEW a \in Sessions, NEW b \in Windows, z.tree[a][b] # {}
        PROVE  b \in z.used /\ z.tree[a][b] \subseteq z.used
    <2>1. CASE a = s /\ b = w
      BY <1>3, <2>1 DEF Edited
    <2>2. CASE a # s \/ b # w
      <3>1. z.tree[a][b] = t.tree[a][b] /\ t.used \subseteq z.used
        BY <2>2 DEF Edited
      <3> QED BY <1>3, <3>1 DEF Tree
    <2> QED BY <2>1, <2>2
  <1>4. \A p \in Panes \ z.used : z.printed[p] = 0
    BY DEF Edited, Tree
  <1>5. \A a, d \in Sessions, b, f \in Windows :
          z.tree[a][b] \cap z.tree[d][f] # {} => a = d /\ b = f
    BY <1>1
  <1> QED BY <1>2, <1>3, <1>4, <1>5 DEF Tree

LEMMA EditedOwn ==
  ASSUME NEW t \in Server, NEW z \in Server, NEW s \in Sessions, NEW w \in Windows,
         Edited(t, z, s, w)
  PROVE  Own(z) \subseteq Own(t) \cup (Panes \ t.used)
  <1> SUFFICES ASSUME NEW p \in Own(z) PROVE p \in Own(t) \/ p \in Panes \ t.used
    OBVIOUS
  <1>1. PICK b \in Windows : p \in z.tree[z.session][b]
    BY DEF Own
  <1>2. z.session = t.session /\ t.session \in Sessions
    BY DEF Edited, Server
  <1>3. p \in t.tree[t.session][b] \/ p \in Panes \ t.used
    BY <1>1, <1>2 DEF Edited
  <1> QED BY <1>3 DEF Own

LEMMA EditedFollowed ==
  ASSUME NEW t \in Server, Tree(t), NEW z \in Server, NEW s \in Sessions, NEW w \in Windows,
         Edited(t, z, s, w), NEW v \in Views, NEW u, HasHeard(v, u), v.id = t.session,
         NEW notes, Calls(notes) \/ u.windows = Listing(z) \/ v.windows # Listing(t),
         u.active = v.active \/ (s = t.session /\ u.active \in z.tree[s][w]),
         s = t.session /\ u.active \in z.tree[s][w] =>
           \/ z.active[w] = u.active
           \/ u.active = v.active /\ z.active[w] = t.active[w] /\ v.active \in t.tree[s][w]
  PROVE  Tree(z) /\ Followed(v, t, u, z, notes)
  <1>1. Tree(z)
    BY EditedTree
  <1>2. z.session = t.session /\ t.session \in Sessions /\ z.printed = t.printed
        /\ u.id = v.id
    BY DEF Edited, Server, HasHeard
  <1>3. \A p \in Leaves(u.windows) \cap Own(z) :
          \/ p \in u.new \/ EndsWith(u.fed[p], z.printed[p])
          \/ /\ p \in Leaves(v.windows) \cap Own(t) /\ p \notin v.new
             /\ ~EndsWith(v.fed[p], t.printed[p])
    BY <1>2, EditedOwn, ScreensFollow
  <1>4. ASSUME u.active \in Own(z)
        PROVE  \/ z.active[WindowOf(z, u.active)] = u.active
               \/ /\ u.active = v.active /\ v.active \in Own(t)
                  /\ t.active[WindowOf(t, v.active)] # v.active
    <2>1. PICK b \in Windows : u.active \in z.tree[t.session][b]
      BY <1>2, <1>4 DEF Own
    <2>2. WindowOf(z, u.active) = b
      BY <1>1, <1>2, <2>1, PlaceIs
    <2>3. CASE s = t.session /\ b = w
      <3>1. CASE z.active[w] = u.active
        BY <2>2, <2>3, <3>1
      <3>2. CASE u.active = v.active /\ z.active[w] = t.active[w] /\ v.active \in t.tree[s][w]
        <4>1. WindowOf(t, v.active) = w /\ v.active \in Own(t)
          BY <2>3, <3>2, PlaceIs DEF Own
        <4> QED BY <2>2, <2>3, <3>2, <4>1
      <3> QED BY <2>1, <2>3, <3>1, <3>2
    <2>4. CASE s # t.session \/ b # w
      <3>1. z.tree[t.session][b] = t.tree[t.session][b]
        BY <1>2, <2>4 DEF Edited
      <3>2. u.active = v.active
        <4> SUFFICES ASSUME s = t.session, u.active \in z.tree[s][w] PROVE FALSE
          OBVIOUS
        <4>1. z.tree[s][w] \cap z.tree[t.session][b] # {}
          BY <2>1
        <4>2. b = w
          BY <1>1, <1>2, <4>1 DEF Tree
        <4> QED BY <2>4, <4>2
      <3>3. v.active \in t.tree[t.session][b]
        BY <2>1, <3>1, <3>2
      <3>4. WindowOf(t, v.active) = b /\ v.active \in Own(t)
        BY <1>2, <3>3, PlaceIs DEF Own
      <3>5. b # w
        <4> SUFFICES ASSUME b = w, s # t.session PROVE FALSE
          BY <2>4
        <4>1. t.tree[t.session][w] # {} /\ w \in t.used
          BY <1>2, <3>3 DEF Tree
        <4>2. t.tree[s][w] # {}
          BY <4>1 DEF Edited
        <4> QED BY <1>2, <4>1, <4>2 DEF Tree
      <3>6. z.active[b] = t.active[b]
        BY <3>5 DEF Edited
      <3> QED BY <2>2, <3>2, <3>4, <3>6
    <2> QED BY <2>3, <2>4
  <1> QED BY <1>1, <1>2, <1>3, <1>4 DEF Followed

(* z is t but for the panes ps and the active pane q of the window w of    *)
(* the session s, and for us, which have been used.                        *)
Updated(t, z, s, w, ps, q, us) ==
    /\ z \in Server
    /\ z.session = t.session /\ z.size = t.size /\ z.printed = t.printed
    /\ z.tree[s][w] = ps /\ z.active[w] = q /\ z.used = us
    /\ \A a \in Sessions, b \in Windows : a # s \/ b # w => z.tree[a][b] = t.tree[a][b]
    /\ \A b \in Windows : b # w => z.active[b] = t.active[b]

LEMMA UpdatedTo ==
  ASSUME NEW t \in Server, NEW s \in Sessions, NEW w \in Windows,
         NEW ps \in SUBSET Panes, NEW q \in Panes, NEW us \in SUBSET (Windows \cup Panes)
  PROVE  /\ Updated(t, [t EXCEPT !.tree[s][w] = ps, !.active[w] = q, !.used = us],
                    s, w, ps, q, us)
         /\ Updated(t, [t EXCEPT !.tree[s][w] = ps], s, w, ps, t.active[w], t.used)
         /\ Updated(t, [t EXCEPT !.active[w] = q], s, w, t.tree[s][w], q, t.used)
  <1> DEFINE tree == [t.tree EXCEPT ![s][w] = ps]
             act == [t.active EXCEPT ![w] = q]
             a == [t EXCEPT !.tree = tree, !.active = act, !.used = us]
             b == [t EXCEPT !.tree = tree]
             c == [t EXCEPT !.active = act]
  <1>1. /\ tree \in [Sessions -> [Windows -> SUBSET Panes]] /\ tree[s][w] = ps
        /\ \A d \in Sessions, e \in Windows : d # s \/ e # w => tree[d][e] = t.tree[d][e]
    BY DEF Server
  <1>2. /\ act \in [Windows -> Panes \cup {None}] /\ act[w] = q
        /\ \A e \in Windows : e # w => act[e] = t.active[e]
    BY DEF Server
  <1>3. /\ [t EXCEPT !.tree[s][w] = ps, !.active[w] = q, !.used = us] = a
        /\ [t EXCEPT !.tree[s][w] = ps] = b /\ [t EXCEPT !.active[w] = q] = c
    OBVIOUS
  <1> HIDE DEF tree, act
  <1>4. /\ a \in Server /\ a.session = t.session /\ a.size = t.size /\ a.printed = t.printed
        /\ a.tree = tree /\ a.active = act /\ a.used = us
    BY <1>1, <1>2 DEF Server
  <1>5. /\ b \in Server /\ b.session = t.session /\ b.size = t.size /\ b.printed = t.printed
        /\ b.tree = tree /\ b.active = t.active /\ b.used = t.used
    BY <1>1, <1>2 DEF Server
  <1>6. /\ c \in Server /\ c.session = t.session /\ c.size = t.size /\ c.printed = t.printed
        /\ c.tree = t.tree /\ c.active = act /\ c.used = t.used
    BY <1>1, <1>2 DEF Server
  <1> HIDE DEF a, b, c
  <1>7. Updated(t, a, s, w, ps, q, us)
    BY <1>1, <1>2, <1>4 DEF Updated
  <1>8. Updated(t, b, s, w, ps, t.active[w], t.used)
    BY <1>1, <1>5 DEF Updated
  <1>9. Updated(t, c, s, w, t.tree[s][w], q, t.used)
    BY <1>2, <1>6 DEF Updated
  <1> QED BY <1>3, <1>7, <1>8, <1>9

LEMMA UpdatedEdits ==
  ASSUME NEW t \in Server, NEW s \in Sessions, NEW w \in Windows, NEW z, NEW ps, NEW q, NEW us,
         Updated(t, z, s, w, ps, q, us),
         ps \subseteq t.tree[s][w] \cup (Panes \ t.used), t.used \subseteq us,
         ps \subseteq us, w \in us, t.tree[s][w] # {} \/ w \notin t.used
  PROVE  Edited(t, z, s, w)
  BY DEF Updated, Edited

(* The window w of the client's session is laid out anew.                  *)
LEMMA LaidOut ==
  ASSUME NEW t \in Server, NEW z \in Server, NEW w \in Windows,
         Edited(t, z, t.session, w), t.tree[t.session][w] # {}, z.tree[t.session][w] # {},
         NEW v \in Views
  PROVE  LET u == Hear(v, LayoutChange(w, LayoutOf(z, w)))
         IN  u.active = v.active /\ (v.windows = Listing(t) => u.windows = Listing(z))
  <1> DEFINE l == LayoutOf(z, w)
             n == LayoutChange(w, l)
             ws == [v.windows EXCEPT ![w] = l]
  <1>1. l \in Layout /\ n.kind = "layout-change" /\ n.arg = w /\ n.layout = l
    BY LayoutsTyped DEF LayoutChange
  <1> HIDE DEF l, n
  <1>2. v.windows \in [Windows -> Layout] /\ ws \in [Windows -> Layout]
    BY <1>1 DEF Views
  <1>3. Hear(v, n) = IF v.windows[w] = NoLayout THEN v ELSE Relaid(v, ws)
    BY <1>1 DEF Hear
  <1>4. Relaid(v, ws).active = v.active /\ Relaid(v, ws).windows = ws
    <2> HIDE DEF ws
    <2> QED BY <1>2, RelaidIs
  <1>5. ASSUME v.windows = Listing(t)
        PROVE  v.windows[w] # NoLayout /\ ws = Listing(z)
    <2>1. v.windows[w] # NoLayout
      BY <1>5, ListingIs
    <2>2. Listing(z)[w] = l /\ Listing(z) \in [Windows -> Layout] /\ z.session = t.session
          /\ z.size = t.size
      BY ListingIs DEF l, Edited
    <2>3. t.session \in Sessions
      BY DEF Server
    <2>4. ASSUME NEW b \in Windows, b # w
          PROVE  Listing(z)[b] = Listing(t)[b]
      <3>1. z.tree[z.session][b] = t.tree[t.session][b]
        BY <2>2, <2>3, <2>4 DEF Edited
      <3> QED BY <2>2, <3>1 DEF Listing, LayoutOf
    <2>5. \A b \in Windows : ws[b] = Listing(z)[b]
      BY <1>2, <1>5, <2>2, <2>4
    <2> HIDE DEF ws
    <2> QED BY <1>2, <2>1, <2>2, <2>5
  <1> HIDE DEF ws
  <1> QED BY <1>3, <1>4, <1>5 DEF n, l

(* The outcome o of a step of tmux can be followed.                        *)
Follows(t, o) ==
    /\ Tree(o.tmux) /\ o.tmux.size = t.size
    /\ \A v \in Views : v.id = t.session =>
         Followed(v, t, Heard(v, o.notes), o.tmux, o.notes)

LEMMA QuietTyped ==
  /\ <<>> \in Seq(QuietEvents)
  /\ \A w \in Windows : Notify("window-add", w) \in QuietEvents
                        /\ Notify("window-close", w) \in QuietEvents
  /\ \A p \in Panes : Notify("pane-changed", p) \in QuietEvents
  /\ Notify("exit", None) \in QuietEvents
  /\ \A w \in Windows, l \in Layout : LayoutChange(w, l) \in QuietEvents
  <1>1. \A n \in Event : n.kind \in QuietKinds => n \in QuietEvents
    BY EventsAnswerNothing DEF QuietEvents
  <1> QED BY <1>1, EventsTyped DEF QuietKinds, Notify, LayoutChange

LEMMA HeardTwo ==
  ASSUME NEW v, NEW a \in Notification, NEW b \in Notification
  PROVE  Heard(v, <<a, b>>) = Hear(Hear(v, a), b)
  <1> DEFINE s == <<a, b>>
  <1>1. s \in Seq(Notification) /\ s # <<>> /\ Head(s) = a /\ Len(s) = 2 /\ s[2] = b
    OBVIOUS
  <1>2. Tail(s) = <<b>>
    OBVIOUS
  <1> HIDE DEF s
  <1>3. Heard(v, s) = Heard(Hear(v, a), <<b>>)
    BY <1>1, <1>2, HeardFirst
  <1> QED BY <1>3, HeardOne DEF s

LEMMA QuietIs == QuietEvents \subseteq Notification
  BY DEF QuietEvents

(* Nothing is said of another session than the client's.                   *)
LEMMA ElsewhereFollows ==
  ASSUME NEW t \in Server, Tree(t), NEW z \in Server, NEW s \in Sessions, NEW w \in Windows,
         Edited(t, z, s, w), s # t.session, NEW r
  PROVE  Follows(t, Outcome(z, r, <<>>))
  <1> DEFINE o == Outcome(z, r, <<>>)
  <1>1. o.tmux = z /\ o.notes = <<>>
    BY DEF Outcome
  <1> HIDE DEF o
  <1>2. Tree(z) /\ z.size = t.size
    BY EditedTree DEF Edited
  <1>3. Listing(z) = Listing(t)
    <2>1. z.session = t.session /\ z.size = t.size /\ t.session \in Sessions
          /\ \A b \in Windows : z.tree[t.session][b] = t.tree[t.session][b]
      BY DEF Edited, Server
    <2> QED BY <2>1 DEF Listing, LayoutOf
  <1>4. ASSUME NEW v \in Views, v.id = t.session
        PROVE  Followed(v, t, Heard(v, <<>>), z, <<>>)
    <2>1. Heard(v, <<>>) = v /\ HasHeard(v, v)
      BY HeardNone DEF HasHeard
    <2>2. Calls(<<>>) \/ v.windows = Listing(z) \/ v.windows # Listing(t)
      BY <1>3
    <2> QED BY <1>4, <2>1, <2>2, EditedFollowed
  <1>5. Follows(t, o)
    BY <1>1, <1>2, <1>4 DEF Follows
  <1> QED BY <1>5 DEF o

(* What is told of the client's session is a new layout and perhaps a new  *)
(* active pane.                                                            *)
LEMMA LaidFollows ==
  ASSUME NEW t \in Server, Tree(t), NEW z \in Server, NEW w \in Windows,
         Edited(t, z, t.session, w), t.tree[t.session][w] # {}, z.tree[t.session][w] # {},
         NEW r, NEW l, l = LayoutChange(w, LayoutOf(z, w))
  PROVE  /\ \A q \in z.tree[t.session][w] : z.active[w] = q =>
              Follows(t, Outcome(z, r, <<l, Notify("pane-changed", q)>>))
         /\ z.active[w] = t.active[w] /\ z.tree[t.session][w] \subseteq t.tree[t.session][w] =>
              Follows(t, Outcome(z, r, <<l>>))
  <1>0. t.session \in Sessions
    BY DEF Server
  <1>1. l \in QuietEvents /\ l \in Notification
    BY LayoutsTyped, QuietTyped, QuietIs
  <1>2. Tree(z) /\ z.size = t.size
    BY <1>0, EditedTree DEF Edited
  <1>3. ASSUME NEW v \in Views, v.id = t.session
        PROVE  /\ Hear(v, l) \in Views /\ Hear(v, l).active = v.active
               /\ v.windows = Listing(t) => Hear(v, l).windows = Listing(z)
    BY <1>1, HearTyped, LaidOut
  <1>4. ASSUME NEW q \in z.tree[t.session][w], z.active[w] = q
        PROVE  Follows(t, Outcome(z, r, <<l, Notify("pane-changed", q)>>))
    <2>0. q \in Panes
      BY <1>0 DEF Server
    <2> DEFINE n == Notify("pane-changed", q)
               notes == <<l, n>>
               o == Outcome(z, r, notes)
    <2>1. n \in QuietEvents /\ n \in Notification /\ n.kind = "pane-changed" /\ n.arg = q
      BY <2>0, QuietTyped, QuietIs DEF Notify
    <2> HIDE DEF n
    <2>2. ASSUME NEW v \in Views, v.id = t.session
          PROVE  Followed(v, t, Heard(v, notes), z, notes)
      <3> DEFINE u == Heard(v, notes)
                 m == Hear(v, l)
      <3>1. HasHeard(v, u)
        <4>1. notes \in Seq(QuietEvents)
          BY <1>1, <2>1
        <4> HIDE DEF notes
        <4> QED BY <4>1, QuietHeard
      <3>2. u = Hear(m, n)
        BY <1>1, <2>1, HeardTwo
      <3>3. u = [m EXCEPT !.active = q]
        BY <2>1, <3>2 DEF Hear
      <3>4. m \in Views /\ (v.windows = Listing(t) => m.windows = Listing(z))
        BY <1>3, <2>2
      <3> HIDE DEF u, m
      <3>5. u.active = q /\ u.windows = m.windows
        BY <3>3, <3>4 DEF Views
      <3>6. Followed(v, t, u, z, notes)
        <4> HIDE DEF notes
        <4>1. Calls(notes) \/ u.windows = Listing(z) \/ v.windows # Listing(t)
          BY <3>4, <3>5
        <4> QED BY <1>0, <1>4, <2>2, <3>1, <3>5, <4>1, EditedFollowed
      <3> QED BY <3>6 DEF u
    <2>3. o.tmux = z /\ o.notes = notes
      BY DEF Outcome
    <2> HIDE DEF o, notes
    <2>4. Follows(t, o)
      BY <1>2, <2>2, <2>3 DEF Follows
    <2> QED BY <2>4 DEF o, notes, n
  <1>5. ASSUME z.active[w] = t.active[w], z.tree[t.session][w] \subseteq t.tree[t.session][w]
        PROVE  Follows(t, Outcome(z, r, <<l>>))
    <2> DEFINE notes == <<l>>
               o == Outcome(z, r, notes)
    <2>2. ASSUME NEW v \in Views, v.id = t.session
          PROVE  Followed(v, t, Heard(v, notes), z, notes)
      <3> DEFINE u == Heard(v, notes)
      <3>1. HasHeard(v, u)
        <4>1. notes \in Seq(QuietEvents)
          BY <1>1
        <4> HIDE DEF notes
        <4> QED BY <4>1, QuietHeard
      <3>2. u = Hear(v, l)
        BY HeardOne
      <3>3. u.active = v.active /\ (v.windows = Listing(t) => u.windows = Listing(z))
        BY <1>3, <2>2, <3>2
      <3> HIDE DEF u, notes
      <3>4. Calls(notes) \/ u.windows = Listing(z) \/ v.windows # Listing(t)
        BY <3>3
      <3>5. Followed(v, t, u, z, notes)
        BY <1>0, <1>5, <2>2, <3>1, <3>3, <3>4, EditedFollowed
      <3> QED BY <3>5 DEF u
    <2>3. o.tmux = z /\ o.notes = notes
      BY DEF Outcome
    <2> HIDE DEF o, notes
    <2>4. Follows(t, o)
      BY <1>2, <2>2, <2>3 DEF Follows
    <2> QED BY <2>4 DEF o, notes
  <1> QED BY <1>4, <1>5

(* One window of the session s is edited, and told of.                     *)
LEMMA ToldFollows ==
  ASSUME NEW t \in Server, Tree(t), NEW z \in Server, NEW s \in Sessions, NEW w \in Windows,
         Edited(t, z, s, w), t.tree[s][w] # {}, z.tree[s][w] # {},
         NEW r, NEW l, l = LayoutChange(w, LayoutOf(z, w))
  PROVE  /\ \A q \in z.tree[s][w] : z.active[w] = q =>
              Follows(t, Outcome(z, r, Tell(t, s, <<l, Notify("pane-changed", q)>>)))
         /\ z.active[w] = t.active[w] /\ z.tree[s][w] \subseteq t.tree[s][w] =>
              Follows(t, Outcome(z, r, Tell(t, s, <<l>>)))
  <1>1. CASE s = t.session
    <2>1. \A notes : Tell(t, s, notes) = notes
      BY <1>1 DEF Tell
    <2> QED BY <1>1, <2>1, LaidFollows
  <1>2. CASE s # t.session
    <2>1. \A notes : Tell(t, s, notes) = <<>>
      BY <1>2 DEF Tell
    <2>2. Follows(t, Outcome(z, r, <<>>))
      BY <1>2, ElsewhereFollows
    <2> QED BY <2>1, <2>2
  <1> QED BY <1>1, <1>2

LEMMA SplitsFollow ==
  ASSUME NEW t \in Server, Tree(t), NEW p \in Panes, Alive(t, p), NEW o \in Splits(t, p)
  PROVE  Follows(t, o)
  <1> DEFINE s == Place(t, p)[1]
             w == Place(t, p)[2]
             With(q) == [t EXCEPT !.tree[s][w] = @ \cup {q},
                                  !.active[w] = q, !.used = @ \cup {q}]
  <1>1. s \in Sessions /\ w \in Windows /\ p \in t.tree[s][w]
    BY PlaceTyped
  <1>2. PICK q \in Panes \ t.used :
          o = Outcome(With(q), Empty, Tell(t, s, <<LayoutChange(w, LayoutOf(With(q), w)),
                                                   Notify("pane-changed", q)>>))
    BY DEF Splits
  <1> HIDE DEF s, w
  <1> DEFINE ps == t.tree[s][w] \cup {q}
             us == t.used \cup {q}
             z == With(q)
  <1>3. ps \in SUBSET Panes /\ us \in SUBSET (Windows \cup Panes)
    BY <1>1 DEF Server
  <1>4. z = [t EXCEPT !.tree[s][w] = ps, !.active[w] = q, !.used = us]
    OBVIOUS
  <1>5. Updated(t, z, s, w, ps, q, us)
    <2> HIDE DEF ps, us, z
    <2> QED BY <1>1, <1>3, <1>4, UpdatedTo
  <1> HIDE DEF z
  <1>6. w \in t.used /\ t.tree[s][w] \subseteq t.used
    BY <1>1 DEF Tree
  <1>7. Edited(t, z, s, w)
    BY <1>1, <1>5, <1>6, UpdatedEdits
  <1>8. z \in Server /\ q \in z.tree[s][w] /\ z.active[w] = q
    BY <1>5 DEF Updated
  <1>9. o = Outcome(z, Empty, Tell(t, s, <<LayoutChange(w, LayoutOf(z, w)),
                                           Notify("pane-changed", q)>>))
    BY <1>2 DEF z
  <1> QED BY <1>1, <1>7, <1>8, <1>9, ToldFollows

(* What is told makes the Viewer ask for the list of windows.              *)
LEMMA CallingFollows ==
  ASSUME NEW t \in Server, Tree(t), NEW z \in Server, NEW s \in Sessions, NEW w \in Windows,
         Edited(t, z, s, w), NEW r, NEW notes \in Seq(QuietEvents), Calls(notes),
         \A v \in Views : Heard(v, notes) = v,
         s = t.session => \A p \in z.tree[s][w] : z.active[w] = p
  PROVE  Follows(t, Outcome(z, r, notes))
  <1> DEFINE o == Outcome(z, r, notes)
  <1>1. o.tmux = z /\ o.notes = notes
    BY DEF Outcome
  <1> HIDE DEF o
  <1>2. Tree(z) /\ z.size = t.size
    BY EditedTree DEF Edited
  <1>3. ASSUME NEW v \in Views, v.id = t.session
        PROVE  Followed(v, t, Heard(v, notes), z, notes)
    <2>1. Heard(v, notes) = v /\ HasHeard(v, v)
      BY DEF HasHeard
    <2> QED BY <1>3, <2>1, EditedFollowed
  <1>4. Follows(t, o)
    BY <1>1, <1>2, <1>3 DEF Follows
  <1> QED BY <1>4 DEF o

LEMMA OpensFollow ==
  ASSUME NEW t \in Server, Tree(t), NEW o \in Opens(t)
  PROVE  Follows(t, o)
  <1> DEFINE s == t.session
             now(w, q) == [t EXCEPT !.tree[s][w] = {q}, !.active[w] = q,
                                    !.used = @ \cup {w, q}]
  <1>1. PICK w \in Windows \ t.used, q \in Panes \ t.used :
          o = Outcome(now(w, q), Empty, <<Notify("window-add", w)>>)
    BY DEF Opens
  <1> DEFINE us == t.used \cup {w, q}
             z == now(w, q)
             notes == <<Notify("window-add", w)>>
  <1>2. s \in Sessions /\ {q} \in SUBSET Panes /\ us \in SUBSET (Windows \cup Panes)
    BY DEF Server
  <1>3. z = [t EXCEPT !.tree[s][w] = {q}, !.active[w] = q, !.used = us]
    OBVIOUS
  <1>4. Updated(t, z, s, w, {q}, q, us)
    <2> HIDE DEF us, z, s
    <2> QED BY <1>2, <1>3, UpdatedTo
  <1> HIDE DEF z
  <1>5. Edited(t, z, s, w)
    BY <1>2, <1>4, UpdatedEdits
  <1>6. z \in Server /\ \A p \in z.tree[s][w] : z.active[w] = p
    BY <1>4 DEF Updated
  <1>7. notes \in Seq(QuietEvents)
    BY QuietTyped
  <1>8. Calls(notes)
    BY DEF Calls, CallKinds, Notify
  <1>9. \A v \in Views : Heard(v, notes) = v
    BY HeardOne DEF Hear, Notify
  <1> HIDE DEF notes
  <1>10. Follows(t, Outcome(z, Empty, notes))
    BY <1>2, <1>5, <1>6, <1>7, <1>8, <1>9, CallingFollows
  <1> QED BY <1>1, <1>10 DEF z, notes

LEMMA ClosesFollow ==
  ASSUME NEW t \in Server, Tree(t), NEW s \in Sessions, NEW w \in Windows,
         t.tree[s][w] # {}, NEW o \in Closes(t, s, w)
  PROVE  Follows(t, o)
  <1> DEFINE rest == [t EXCEPT !.tree[s][w] = {}]
             note == Notify("window-close", w)
             exit == Notify("exit", None)
             left == {z \in Sessions : \E v \in Windows : rest.tree[z][v] # {}}
  <1>1. \/ o = Outcome(rest, Empty, <<note>>)
        \/ o = Outcome([rest EXCEPT !.alive = FALSE], Empty, <<note, exit>>)
        \/ \E z \in left : o = Outcome([rest EXCEPT !.session = z], Empty,
                                       <<note, Notify("session-changed", z)>>)
    BY DEF Closes
  <1>2. left \subseteq Sessions
    OBVIOUS
  <1>3. w \in t.used
    BY DEF Tree
  <1>4. PICK q \in Panes : q \in t.tree[s][w]
    BY DEF Server
  <1>5. Updated(t, rest, s, w, {}, t.active[w], t.used)
    <2>1. {} \in SUBSET Panes /\ t.used \in SUBSET (Windows \cup Panes)
      BY DEF Server
    <2> QED BY <2>1, UpdatedTo
  <1> HIDE DEF rest, left
  <1>6. Edited(t, rest, s, w) /\ rest \in Server /\ rest.tree[s][w] = {}
    <2>1. Edited(t, rest, s, w)
      BY <1>3, <1>5, UpdatedEdits
    <2> QED BY <1>5, <2>1 DEF Updated
  <1>7. note \in QuietEvents /\ note \in Notification /\ note.kind = "window-close"
        /\ exit \in QuietEvents /\ exit \in Notification /\ exit.kind = "exit"
    BY QuietTyped, QuietIs DEF Notify
  <1> HIDE DEF note, exit
  <1>8. \A v : Hear(v, note) = v /\ Hear(v, exit) = v
    BY <1>7 DEF Hear
  <1>9. CASE o = Outcome(rest, Empty, <<note>>)
    <2> DEFINE notes == <<note>>
    <2>1. notes \in Seq(QuietEvents)
      BY <1>7
    <2>2. Calls(notes)
      BY <1>7 DEF Calls, CallKinds
    <2>3. \A v \in Views : Heard(v, notes) = v
      BY <1>8, HeardOne
    <2> HIDE DEF notes
    <2>4. Follows(t, Outcome(rest, Empty, notes))
      BY <1>6, <2>1, <2>2, <2>3, CallingFollows
    <2> QED BY <1>9, <2>4 DEF notes
  <1>10. CASE o = Outcome([rest EXCEPT !.alive = FALSE], Empty, <<note, exit>>)
    <2> DEFINE notes == <<note, exit>>
               z == [rest EXCEPT !.alive = FALSE]
    <2>1. notes \in Seq(QuietEvents)
      BY <1>7
    <2>2. Calls(notes)
      <3>1. notes[1] = note /\ 1 \in DOMAIN notes
        OBVIOUS
      <3> HIDE DEF notes
      <3> QED BY <1>7, <3>1 DEF Calls, CallKinds
    <2>3. \A v \in Views : Heard(v, notes) = v
      BY <1>7, <1>8, HeardTwo
    <2>4. z \in Server /\ z.session = rest.session /\ z.size = rest.size
          /\ z.tree = rest.tree /\ z.active = rest.active /\ z.printed = rest.printed
          /\ z.used = rest.used
      BY <1>6 DEF Server
    <2> HIDE DEF notes, z
    <2>5. Edited(t, z, s, w) /\ z.tree[s][w] = {}
      BY <1>6, <2>4 DEF Edited
    <2>6. Follows(t, Outcome(z, Empty, notes))
      BY <2>1, <2>2, <2>3, <2>4, <2>5, CallingFollows
    <2> QED BY <1>10, <2>6 DEF notes, z
  <1>11. ASSUME NEW z \in left,
                o = Outcome([rest EXCEPT !.session = z], Empty,
                            <<note, Notify("session-changed", z)>>)
         PROVE  Follows(t, o)
    <2> DEFINE n == Notify("session-changed", z)
               notes == <<note, n>>
               now == [rest EXCEPT !.session = z]
    <2>1. n \in Notification /\ n.kind = "session-changed" /\ n.arg = z
      BY <1>2, EventsTyped, EventsAnswerNothing DEF Notify
    <2> HIDE DEF n
    <2>2. Calls(notes)
      <3>1. notes[1] = note /\ 1 \in DOMAIN notes
        OBVIOUS
      <3> HIDE DEF notes
      <3> QED BY <1>7, <3>1 DEF Calls, CallKinds
    <2>3. \A v : Heard(v, notes) = Restarted(z)
      <3>1. \A v : Heard(v, notes) = Hear(Hear(v, note), n)
        BY <1>7, <2>1, HeardTwo
      <3>2. \A v : Hear(v, n) = Restarted(z)
        BY <2>1 DEF Hear
      <3> QED BY <3>1, <3>2
    <2>4. now \in Server /\ now.session = z /\ now.size = rest.size
          /\ now.tree = rest.tree /\ now.printed = rest.printed /\ now.used = rest.used
      BY <1>2, <1>6 DEF Server
    <2>5. Tree(rest) /\ rest.size = t.size
      BY <1>6, EditedTree DEF Edited
    <2> HIDE DEF notes, now
    <2>6. Tree(now)
      BY <2>4, <2>5 DEF Tree
    <2>7. \A v : Followed(v, t, Restarted(now.session), now, notes)
      BY <2>2, <2>4, RestartFollowed
    <2>8. o.tmux = now /\ o.notes = notes
      BY <1>11 DEF Outcome, now, notes, n
    <2> QED BY <2>3, <2>4, <2>5, <2>6, <2>7, <2>8 DEF Follows
  <1> QED BY <1>1, <1>9, <1>10, <1>11

LEMMA KillsFollow ==
  ASSUME NEW t \in Server, Tree(t), NEW p \in Panes, Alive(t, p), NEW o \in Kills(t, p)
  PROVE  Follows(t, o)
  <1> DEFINE s == Place(t, p)[1]
             w == Place(t, p)[2]
             rest == [t EXCEPT !.tree[s][w] = @ \ {p}]
             laid == LayoutChange(w, LayoutOf(rest, w))
             after(q) == [rest EXCEPT !.active[w] = q]
             ps == t.tree[s][w] \ {p}
  <1>1. s \in Sessions /\ w \in Windows /\ p \in t.tree[s][w]
    BY PlaceTyped
  <1>2. /\ rest.tree[s][w] = {} => o \in Closes(t, s, w)
        /\ rest.tree[s][w] # {} /\ t.active[w] # p =>
             o = Outcome(rest, Empty, Tell(t, s, <<laid>>))
        /\ rest.tree[s][w] # {} /\ t.active[w] = p =>
             \E q \in rest.tree[s][w] :
               o = Outcome(after(q), Empty, Tell(t, s, <<laid, Notify("pane-changed", q)>>))
    BY DEF Kills
  <1> HIDE DEF s, w
  <1>3. ps \in SUBSET Panes /\ t.used \in SUBSET (Windows \cup Panes)
    BY <1>1 DEF Server
  <1>4. rest = [t EXCEPT !.tree[s][w] = ps]
    OBVIOUS
  <1>5. Updated(t, rest, s, w, ps, t.active[w], t.used)
    <2> HIDE DEF ps, rest
    <2> QED BY <1>1, <1>3, <1>4, UpdatedTo
  <1>6. w \in t.used /\ t.tree[s][w] \subseteq t.used
    BY <1>1 DEF Tree
  <1> HIDE DEF rest
  <1>7. Edited(t, rest, s, w)
    BY <1>1, <1>5, <1>6, UpdatedEdits
  <1>8. /\ rest \in Server /\ rest.tree[s][w] = ps /\ rest.active[w] = t.active[w]
        /\ rest.session = t.session /\ rest.used = t.used
    BY <1>5 DEF Updated
  <1> HIDE DEF laid, after
  <1>9. CASE ps = {}
    BY <1>1, <1>2, <1>8, <1>9, ClosesFollow
  <1>10. CASE ps # {} /\ t.active[w] # p
    BY <1>1, <1>2, <1>7, <1>8, <1>10, ToldFollows DEF laid
  <1>11. ASSUME NEW q \in ps,
                o = Outcome(after(q), Empty,
                            Tell(t, s, <<laid, Notify("pane-changed", q)>>))
         PROVE  Follows(t, o)
    <2> DEFINE z == after(q)
    <2>1. q \in Panes
      BY <1>3
    <2>2. Updated(rest, z, s, w, ps, q, t.used)
      <3> HIDE DEF ps
      <3>1. Updated(rest, [rest EXCEPT !.active[w] = q], s, w, rest.tree[s][w], q, rest.used)
        BY <1>1, <1>3, <1>8, <2>1, UpdatedTo
      <3> QED BY <1>8, <3>1 DEF after
    <2> HIDE DEF z
    <2>3. Updated(t, z, s, w, ps, q, t.used)
      <3> HIDE DEF ps
      <3> QED BY <1>5, <2>2 DEF Updated
    <2>4. Edited(t, z, s, w)
      BY <1>1, <1>6, <2>3, UpdatedEdits
    <2>5. /\ z \in Server /\ z.tree[s][w] = ps /\ z.active[w] = q
          /\ z.session = rest.session /\ z.size = rest.size
      BY <2>2, <2>3 DEF Updated
    <2>6. z.session \in Sessions
      BY <2>5 DEF Server
    <2>7. z.tree[z.session][w] = rest.tree[rest.session][w]
      <3> DEFINE h == z.session
      <3>1. h \in Sessions /\ rest.session = h
        BY <2>5, <2>6
      <3> HIDE DEF h, ps
      <3>2. CASE h = s
        BY <1>8, <2>5, <3>1, <3>2 DEF h
      <3>3. CASE h # s
        <4>1. z.tree[h][w] = rest.tree[h][w]
          BY <1>1, <2>2, <3>1, <3>3 DEF Updated
        <4> QED BY <3>1, <4>1 DEF h
      <3> QED BY <3>2, <3>3
    <2>8. LayoutOf(z, w) = LayoutOf(rest, w)
      BY <2>5, <2>7 DEF LayoutOf
    <2>9. laid = LayoutChange(w, LayoutOf(z, w))
      BY <2>8 DEF laid
    <2>10. Follows(t, Outcome(z, Empty, Tell(t, s, <<laid, Notify("pane-changed", q)>>)))
      BY <1>1, <2>4, <2>5, <2>9, ToldFollows
    <2> QED BY <1>11, <2>10 DEF z
  <1> QED BY <1>2, <1>8, <1>9, <1>10, <1>11

(* A server that is as before is followed by a view that is as before.     *)
LEMMA UnchangedFollows ==
  ASSUME NEW t \in Server, Tree(t), NEW r
  PROVE  Follows(t, Outcome(t, r, <<>>))
  <1> DEFINE o == Outcome(t, r, <<>>)
  <1>1. o.tmux = t /\ o.notes = <<>>
    BY DEF Outcome
  <1> HIDE DEF o
  <1>2. \A v \in Views : v.id = t.session => Followed(v, t, v, t, <<>>)
    BY SameFollowed
  <1>3. Follows(t, o)
    BY <1>1, <1>2, HeardNone DEF Follows
  <1> QED BY <1>3 DEF o

LEMMA SelectsFollow ==
  ASSUME NEW t \in Server, Tree(t), NEW p \in Panes, Alive(t, p), NEW o \in Selects(t, p)
  PROVE  Follows(t, o) /\ o.tmux.active[WindowOf(o.tmux, p)] = p
  <1> DEFINE s == Place(t, p)[1]
             w == Place(t, p)[2]
             z == [t EXCEPT !.active[w] = p]
             n == Notify("pane-changed", p)
  <1>1. s \in Sessions /\ w \in Windows /\ p \in t.tree[s][w] /\ WindowOf(t, p) = w
    BY PlaceTyped DEF WindowOf
  <1>2. IF t.active[w] = p THEN o = Outcome(t, Empty, <<>>)
        ELSE o = Outcome(z, Empty, Tell(t, s, <<n>>))
    BY DEF Selects, WindowOf
  <1> HIDE DEF s, w
  <1>3. CASE t.active[w] = p
    <2>1. o.tmux = t
      BY <1>2, <1>3 DEF Outcome
    <2> QED BY <1>1, <1>2, <1>3, <2>1, UnchangedFollows
  <1>4. CASE t.active[w] # p
    <2>1. t.tree[s][w] \in SUBSET Panes /\ t.used \in SUBSET (Windows \cup Panes)
      BY <1>1 DEF Server
    <2>2. Updated(t, z, s, w, t.tree[s][w], p, t.used)
      BY <1>1, <2>1, UpdatedTo
    <2> HIDE DEF z
    <2>3. w \in t.used /\ t.tree[s][w] \subseteq t.used
      BY <1>1 DEF Tree
    <2>4. Edited(t, z, s, w)
      BY <1>1, <2>2, <2>3, UpdatedEdits
    <2>5. z \in Server /\ z.active[w] = p /\ z.tree[s][w] = t.tree[s][w] /\ z.size = t.size
          /\ z.session = t.session
      BY <2>2 DEF Updated
    <2>6. Tree(z)
      BY <1>1, <2>4, <2>5, EditedTree
    <2>7. WindowOf(z, p) = w
      BY <1>1, <2>5, <2>6, PlaceIs
    <2>8. o = Outcome(z, Empty, Tell(t, s, <<n>>)) /\ o.tmux = z
      BY <1>2, <1>4 DEF Outcome
    <2>9. CASE s # t.session
      <3>1. Tell(t, s, <<n>>) = <<>>
        BY <2>9 DEF Tell
      <3>2. Follows(t, Outcome(z, Empty, <<>>))
        BY <1>1, <2>4, <2>5, <2>9, ElsewhereFollows
      <3> QED BY <2>5, <2>7, <2>8, <3>1, <3>2
    <2>10. CASE s = t.session
      <3> DEFINE notes == <<n>>
      <3>1. o.notes = notes
        BY <2>8, <2>10 DEF Tell, Outcome
      <3>2. n \in QuietEvents /\ n.kind = "pane-changed" /\ n.arg = p
        BY QuietTyped DEF Notify
      <3> HIDE DEF n
      <3>3. notes \in Seq(QuietEvents)
        BY <3>2
      <3>4. Listing(z) = Listing(t)
        <4>1. \A b \in Windows : z.tree[t.session][b] = t.tree[t.session][b]
          BY <1>1, <2>2, <2>10 DEF Updated
        <4> QED BY <2>5, <4>1 DEF Listing, LayoutOf
      <3>5. ASSUME NEW v \in Views, v.id = t.session
            PROVE  Followed(v, t, Heard(v, notes), z, notes)
        <4> DEFINE u == Heard(v, notes)
        <4>1. u = [v EXCEPT !.active = p]
          BY <3>2, HeardOne DEF Hear
        <4>2. u.active = p /\ u.windows = v.windows
          BY <4>1 DEF Views
        <4> HIDE DEF notes
        <4>3. HasHeard(v, u)
          BY <3>3, QuietHeard
        <4> HIDE DEF u
        <4>4. Followed(v, t, u, z, notes)
          BY <1>1, <2>4, <2>5, <2>10, <3>4, <3>5, <4>2, <4>3, EditedFollowed
        <4> QED BY <4>4 DEF u
      <3> HIDE DEF notes
      <3>6. Follows(t, o)
        BY <2>5, <2>6, <2>8, <3>1, <3>5 DEF Follows
      <3> QED BY <2>5, <2>7, <2>8, <3>6
    <2> QED BY <2>9, <2>10
  <1> QED BY <1>3, <1>4

LEMMA LaysFollow ==
  ASSUME NEW t \in Server, Tree(t), NEW p \in Panes, Alive(t, p)
  PROVE  LET w == WindowOf(t, p)
         IN  Follows(t, Outcome(t, Empty, Tell(t, Place(t, p)[1],
                                               <<LayoutChange(w, LayoutOf(t, w))>>)))
  <1> DEFINE s == Place(t, p)[1]
             w == Place(t, p)[2]
  <1>1. s \in Sessions /\ w \in Windows /\ p \in t.tree[s][w] /\ WindowOf(t, p) = w
    BY PlaceTyped DEF WindowOf
  <1> HIDE DEF s, w
  <1>2. w \in t.used /\ t.tree[s][w] \subseteq t.used
    BY <1>1 DEF Tree
  <1>3. Edited(t, t, s, w)
    BY <1>1, <1>2 DEF Edited
  <1>4. Follows(t, Outcome(t, Empty, Tell(t, s, <<LayoutChange(w, LayoutOf(t, w))>>)))
    BY <1>1, <1>3, ToldFollows
  <1> QED BY <1>1, <1>4 DEF s

(* Whatever other clients do is followed.                                  *)
LEMMA RemoteFollows ==
  ASSUME NEW t \in Server, Tree(t), NEW o \in RemoteEffects(t)
  PROVE  Follows(t, o)
  <1> DEFINE own == {p \in Panes : \E w \in Windows : p \in t.tree[t.session][w]}
  <1>1. \/ \E p \in own : o \in Splits(t, p) \cup Kills(t, p) \cup Selects(t, p)
        \/ \E w \in Present(Listing(t)) : o \in Closes(t, t.session, w)
        \/ o \in Opens(t)
    BY DEF RemoteEffects
  <1>2. ASSUME NEW p \in own, o \in Splits(t, p) \cup Kills(t, p) \cup Selects(t, p)
        PROVE  Follows(t, o)
    <2>1. p \in Panes /\ Alive(t, p)
      BY DEF Alive, Server
    <2> HIDE DEF own
    <2> QED BY <1>2, <2>1, SplitsFollow, KillsFollow, SelectsFollow
  <1>3. ASSUME NEW w \in Present(Listing(t)), o \in Closes(t, t.session, w)
        PROVE  Follows(t, o)
    <2>1. w \in Windows /\ t.session \in Sessions /\ Listing(t)[w].panes # {}
      BY DEF Present, Server
    <2>2. t.tree[t.session][w] # {}
      BY <2>1, ListingIs DEF NoLayout
    <2> QED BY <1>3, <2>1, <2>2, ClosesFollow
  <1> QED BY <1>1, <1>2, <1>3, OpensFollow

LEMMA HeardRuns ==
  ASSUME NEW v, NEW s \in Seq(Notification)
  PROVE  \E acc : /\ DOMAIN acc = 0 .. Len(s)
                  /\ acc[0] = v
                  /\ \A k \in 1 .. Len(s) : acc[k] = Hear(acc[k - 1], s[k])
                  /\ Heard(v, s) = acc[Len(s)]
  <1>1. \E acc : /\ DOMAIN acc = 0 .. Len(s)
                 /\ acc[0] = v
                 /\ \A k \in 1 .. Len(s) : acc[k] = Hear(acc[k - 1], s[k])
                 /\ Hearing!Fold(v, s) = acc[Len(s)]
    BY Hearing!Folded
  <1> QED BY <1>1, HeardFolds

(* A new size lays every window out anew.                                  *)
LEMMA ResizeHeard ==
  ASSUME NEW t \in Server, NEW now \in Server, now.session = t.session, now.tree = t.tree,
         NEW n \in Nat, NEW some \in [1 .. n -> Present(Listing(now))],
         \A w \in Present(Listing(now)) : \E i \in 1 .. n : some[i] = w,
         NEW notes \in Seq(Notification), Len(notes) = n,
         \A i \in 1 .. n : notes[i] = LayoutChange(some[i], LayoutOf(now, some[i])),
         NEW v \in Views
  PROVE  /\ Heard(v, notes).active = v.active
         /\ v.windows = Listing(t) => Heard(v, notes).windows = Listing(now)
  <1> DEFINE L(w) == LayoutOf(now, w)
             seen(k, w) == \E i \in 1 .. k : some[i] = w
             P(u, k) == /\ u \in Views /\ u.active = v.active
                        /\ v.windows = Listing(t) =>
                             \A w \in Windows : u.windows[w] = IF seen(k, w) THEN L(w)
                                                               ELSE Listing(t)[w]
  <1>1. PICK acc : /\ DOMAIN acc = 0 .. Len(notes)
                   /\ acc[0] = v
                   /\ \A k \in 1 .. Len(notes) : acc[k] = Hear(acc[k - 1], notes[k])
                   /\ Heard(v, notes) = acc[Len(notes)]
    BY HeardRuns
  <1>2. \A w \in Windows : L(w) \in Layout /\ L(w).panes = t.tree[t.session][w]
    BY LayoutsTyped DEF LayoutOf
  <1>3. \A w \in Windows : w \in Present(Listing(now)) <=> t.tree[t.session][w] # {}
    <2>1. \A w \in Windows : Listing(now)[w].panes # {} <=> t.tree[t.session][w] # {}
      <3> SUFFICES ASSUME NEW w \in Windows
                   PROVE  (Listing(now)[w].panes # {}) <=> (t.tree[t.session][w] # {})
        OBVIOUS
      <3>1. Listing(now)[w] = IF t.tree[t.session][w] = {} THEN NoLayout ELSE L(w)
        BY ListingIs
      <3>2. NoLayout.panes = {}
        BY DEF NoLayout
      <3> HIDE DEF L
      <3> QED BY <1>2, <3>1, <3>2
    <2> QED BY <2>1 DEF Present
  <1>4. \A i \in 1 .. n : some[i] \in Windows /\ t.tree[t.session][some[i]] # {}
    BY <1>3 DEF Present
  <1> HIDE DEF L
  <1>5. P(v, 0)
    <2>1. \A w : ~seen(0, w)
      OBVIOUS
    <2> HIDE DEF seen
    <2> QED BY <2>1
  <1>6. ASSUME NEW k \in Nat, k + 1 <= n, P(acc[k], k)
        PROVE  P(acc[k + 1], k + 1)
    <2> DEFINE w == some[k + 1]
               u == acc[k]
               m == LayoutChange(w, L(w))
               ws == [u.windows EXCEPT ![w] = L(w)]
    <2>1. k + 1 \in 1 .. n /\ (k + 1) - 1 = k
      BY <1>6
    <2>2. acc[k + 1] = Hear(u, m) /\ w \in Windows /\ t.tree[t.session][w] # {}
      BY <1>1, <1>4, <2>1 DEF L
    <2>3. m.kind = "layout-change" /\ m.arg = w /\ m.layout = L(w) /\ L(w) \in Layout
      BY <1>2, <2>2 DEF LayoutChange
    <2>4. u \in Views /\ u.active = v.active /\ u.windows \in [Windows -> Layout]
          /\ ws \in [Windows -> Layout]
      BY <1>6, <2>3 DEF Views
    <2>5. \A x : seen(k + 1, x) <=> seen(k, x) \/ x = w
      <3>1. \A i \in 1 .. k + 1 : i \in 1 .. k \/ i = k + 1
        OBVIOUS
      <3>2. \A i \in 1 .. k : i \in 1 .. k + 1
        OBVIOUS
      <3>3. k + 1 \in 1 .. k + 1
        OBVIOUS
      <3> QED BY <3>1, <3>2, <3>3
    <2>6. acc[k + 1] = IF u.windows[w] = NoLayout THEN u ELSE Relaid(u, ws)
      BY <2>2, <2>3 DEF Hear
    <2>7. /\ Relaid(u, ws) \in Views /\ Relaid(u, ws).active = v.active
          /\ Relaid(u, ws).windows = ws
      <3> HIDE DEF ws, u
      <3> QED BY <2>4, RelaidIs
    <2>8. ASSUME v.windows = Listing(t)
          PROVE  u.windows[w] # NoLayout
                 /\ \A x \in Windows : ws[x] = IF seen(k + 1, x) THEN L(x) ELSE Listing(t)[x]
      <3>1. \A x \in Windows : u.windows[x] = IF seen(k, x) THEN L(x) ELSE Listing(t)[x]
        BY <1>6, <2>8
      <3> HIDE DEF seen, w, u
      <3>2. NoLayout.panes = {} /\ L(w).panes # {}
        BY <1>2, <2>2 DEF NoLayout
      <3>3. Listing(t)[w] # NoLayout
        BY <2>2, ListingIs
      <3>4. L(w) # NoLayout
        BY <3>2
      <3>5. u.windows[w] # NoLayout
        BY <2>2, <3>1, <3>3, <3>4
      <3>6. ws[w] = L(w) /\ \A x \in Windows : x # w => ws[x] = u.windows[x]
        BY <2>2, <2>4
      <3> HIDE DEF ws
      <3> QED BY <2>5, <3>1, <3>5, <3>6
    <2> HIDE DEF seen, ws, w, u
    <2> QED BY <2>4, <2>6, <2>7, <2>8
  <1> DEFINE S == {k \in Nat : k <= n => P(acc[k], k)}
  <1>7. S = Nat
    <2> HIDE DEF P
    <2>1. 0 \in S
      BY <1>1, <1>5
    <2>2. ASSUME NEW k \in S PROVE k + 1 \in S
      <3>1. k \in Nat /\ (k <= n => P(acc[k], k)) /\ k + 1 \in Nat
        OBVIOUS
      <3>2. k + 1 <= n => k <= n
        BY <3>1
      <3>3. k + 1 <= n => P(acc[k + 1], k + 1)
        BY <1>6, <3>1, <3>2
      <3> QED BY <3>1, <3>3
    <2>3. S \subseteq Nat
      OBVIOUS
    <2> HIDE DEF S
    <2> QED BY <2>1, <2>2, <2>3, Hearing!NatSetInduction
  <1>8. P(Heard(v, notes), n)
    <2>1. n \in S
      BY <1>7
    <2>2. P(acc[n], n)
      BY <2>1
    <2>3. Heard(v, notes) = acc[n]
      BY <1>1
    <2> QED BY <2>2, <2>3
  <1> DEFINE u == Heard(v, notes)
  <1>9. u \in Views /\ u.active = v.active
    BY <1>8
  <1>10. ASSUME v.windows = Listing(t)
         PROVE  u.windows = Listing(now)
    <2>1. \A w \in Windows : u.windows[w] = IF seen(n, w) THEN L(w) ELSE Listing(t)[w]
      BY <1>8, <1>10
    <2>2. \A w \in Windows : seen(n, w) <=> t.tree[t.session][w] # {}
      BY <1>3, <1>4
    <2> HIDE DEF seen, u
    <2>3. \A w \in Windows : u.windows[w] = Listing(now)[w]
      <3>1. \A w \in Windows : Listing(now)[w] = IF t.tree[t.session][w] = {} THEN NoLayout ELSE L(w)
        BY ListingIs DEF L
      <3>2. \A w \in Windows : t.tree[t.session][w] = {} => Listing(t)[w] = NoLayout
        BY ListingIs
      <3> QED BY <2>1, <2>2, <3>1, <3>2
    <2>4. u.windows \in [Windows -> Layout] /\ Listing(now) \in [Windows -> Layout]
      BY <1>9, ListingIs DEF Views
    <2> QED BY <2>3, <2>4
  <1> QED BY <1>9, <1>10

LEMMA ResizesFollow ==
  ASSUME NEW t \in Server, Tree(t), NEW z \in Sizes, NEW o \in Resizes(t, z)
  PROVE  /\ Tree(o.tmux) /\ o.tmux.size = z
         /\ \A v \in Views : v.id = t.session =>
              Followed(v, t, Heard(v, o.notes), o.tmux, o.notes)
  <1> DEFINE now == [t EXCEPT !.size = z]
             S == Present(Listing(now))
             some == SetToSeq(S)
             notes == [i \in DOMAIN some |-> LayoutChange(some[i], LayoutOf(now, some[i]))]
             n == Cardinality(S)
  <1>1. o.tmux = now /\ o.notes = notes
    BY DEF Resizes, Outcome
  <1>2. /\ now \in Server /\ now.size = z /\ now.session = t.session /\ now.tree = t.tree
        /\ now.active = t.active /\ now.printed = t.printed /\ now.used = t.used
    BY DEF Server
  <1> HIDE DEF now
  <1>3. S \subseteq Windows /\ IsFiniteSet(S)
    BY FiniteAssumption, FS_Subset DEF Present
  <1>4. n \in Nat /\ some \in [1 .. n -> S] /\ \A w \in S : \E i \in 1 .. n : some[i] = w
    <2> HIDE DEF S
    <2> QED BY <1>3, Enumeration DEF n
  <1>5. DOMAIN some = 1 .. n
    BY <1>4
  <1> HIDE DEF some, n
  <1>6. \A i \in 1 .. n : LayoutChange(some[i], LayoutOf(now, some[i])) \in QuietEvents
    <2> HIDE DEF S
    <2> QED BY <1>2, <1>3, <1>4, LayoutsTyped, QuietTyped
  <1>7. /\ notes \in [1 .. n -> QuietEvents]
        /\ \A i \in 1 .. n : notes[i] = LayoutChange(some[i], LayoutOf(now, some[i]))
    BY <1>5, <1>6
  <1> HIDE DEF notes, S
  <1>8. notes \in Seq(QuietEvents) /\ Len(notes) = n
    BY <1>4, <1>7
  <1>9. notes \in Seq(Notification)
    BY <1>4, <1>7, QuietIs
  <1>10. Tree(now)
    BY <1>2 DEF Tree
  <1>11. ASSUME NEW v \in Views, v.id = t.session
         PROVE  Followed(v, t, Heard(v, notes), now, notes)
    <2> DEFINE u == Heard(v, notes)
    <2>1. HasHeard(v, u)
      BY <1>8, QuietHeard
    <2>2. u.active = v.active /\ (v.windows = Listing(t) => u.windows = Listing(now))
      BY <1>2, <1>4, <1>7, <1>8, <1>9, ResizeHeard DEF S
    <2> HIDE DEF u
    <2>3. Own(now) = Own(t) /\ WindowOf(now, v.active) = WindowOf(t, v.active)
      BY <1>2 DEF Own, WindowOf, Place
    <2>4. \A p \in Leaves(u.windows) \cap Own(now) :
            \/ p \in u.new \/ EndsWith(u.fed[p], now.printed[p])
            \/ /\ p \in Leaves(v.windows) \cap Own(t) /\ p \notin v.new
               /\ ~EndsWith(v.fed[p], t.printed[p])
      BY <1>2, <2>1, <2>3, ScreensFollow
    <2>5. u.id = now.session
      BY <1>2, <1>11, <2>1 DEF HasHeard
    <2>6. Followed(v, t, u, now, notes)
      BY <1>2, <2>2, <2>3, <2>4, <2>5 DEF Followed
    <2> QED BY <2>6 DEF u
  <1> QED BY <1>1, <1>2, <1>10, <1>11

(* Whatever tmux does with a command is followed.                          *)
LEMMA EffectsFollow ==
  ASSUME NEW t \in Server, Tree(t), NEW c \in Command, NEW o \in Effects(t, c)
  PROVE  /\ Tree(o.tmux)
         /\ o.tmux.size = IF c.op = "refresh-client" THEN c.arg ELSE t.size
         /\ \A v \in Views : v.id = t.session =>
              Followed(v, t, Heard(v, o.notes), o.tmux, o.notes)
  <1> SUFFICES ASSUME c.op # "refresh-client"
               PROVE  Follows(t, o)
    <2>1. CASE c.op = "refresh-client"
      <3>1. c.arg \in Sizes
        BY <2>1, CommandCases DEF PlainOps, PaneOps, PaneWrites
      <3>2. o \in Resizes(t, c.arg)
        BY <2>1 DEF Effects
      <3> QED BY <2>1, <3>1, <3>2, ResizesFollow
    <2>2. CASE c.op # "refresh-client"
      BY <2>2 DEF Follows
    <2> QED BY <2>1, <2>2
  <1>1. \A r : Follows(t, Outcome(t, r, <<>>))
    BY UnchangedFollows
  <1>2. CASE c.op = "list-windows"
    BY <1>1, <1>2 DEF Effects
  <1>3. CASE c.op \in {"display-message", "list-panes"}
    BY <1>1, <1>3 DEF Effects
  <1>4. CASE c.op = "detach-client"
    <2> DEFINE z == [t EXCEPT !.alive = FALSE]
               notes == <<Notify("exit", None)>>
    <2>1. o.tmux = z /\ o.notes = notes
      BY <1>4 DEF Effects, Outcome
    <2>2. /\ z \in Server /\ z.session = t.session /\ z.tree = t.tree /\ z.size = t.size
          /\ z.active = t.active /\ z.printed = t.printed /\ z.used = t.used
      BY DEF Server
    <2>3. \A v : Heard(v, notes) = v
      BY HeardOne DEF Hear, Notify
    <2> HIDE DEF z, notes
    <2>4. \A v \in Views : v.id = t.session => Followed(v, t, v, z, notes)
      BY <2>2, SameFollowed
    <2>5. Tree(z)
      BY <2>2 DEF Tree
    <2> QED BY <2>1, <2>2, <2>3, <2>4, <2>5 DEF Follows
  <1>5. CASE c.op = "new-window"
    <2>1. o \in Opens(t) \/ o = Rejected(t)
      BY <1>5 DEF Effects
    <2> QED BY <1>1, <2>1, OpensFollow DEF Rejected
  <1>6. CASE c.op \in PaneOps /\ c.arg \in Panes
    <2>1. CASE ~Alive(t, c.arg)
      <3>1. o = Rejected(t)
        BY <1>6, <2>1 DEF Effects, PaneOps, PaneWrites
      <3> QED BY <1>1, <3>1 DEF Rejected
    <2>2. CASE Alive(t, c.arg)
      <3>1. CASE c.op = "capture-history" \/ c.op = "capture-visible"
        BY <1>1, <2>2, <3>1 DEF Effects
      <3>2. CASE c.op \in {"capture-history-alternate",
                           "capture-visible-alternate", "send-keys"}
        BY <1>1, <2>2, <3>2 DEF Effects
      <3>3. CASE c.op = "split-window"
        <4>1. o \in Splits(t, c.arg) \/ o = Rejected(t)
          BY <2>2, <3>3 DEF Effects
        <4> QED BY <1>1, <1>6, <2>2, <4>1, SplitsFollow DEF Rejected
      <3>4. CASE c.op = "kill-pane"
        <4>1. o \in Kills(t, c.arg)
          BY <2>2, <3>4 DEF Effects
        <4> QED BY <1>6, <2>2, <4>1, KillsFollow
      <3>5. CASE c.op = "select-pane"
        <4>1. o \in Selects(t, c.arg)
          BY <2>2, <3>5 DEF Effects
        <4> QED BY <1>6, <2>2, <4>1, SelectsFollow
      <3>6. CASE c.op = "resize-pane"
        <4> DEFINE w == WindowOf(t, c.arg)
        <4>1. o = Outcome(t, Empty, Tell(t, Place(t, c.arg)[1],
                                         <<LayoutChange(w, LayoutOf(t, w))>>))
          BY <2>2, <3>6 DEF Effects
        <4> QED BY <1>6, <2>2, <4>1, LaysFollow
      <3> QED BY <1>6, <3>1, <3>2, <3>3, <3>4, <3>5, <3>6 DEF PaneOps, PaneWrites
    <2> QED BY <2>1, <2>2
  <1>7. CASE c.op = "kill-window" /\ c.arg \in Windows
    <2>1. CASE \E s \in Sessions : t.tree[s][c.arg] # {}
      <3> DEFINE s == CHOOSE s \in Sessions : t.tree[s][c.arg] # {}
      <3>1. s \in Sessions /\ t.tree[s][c.arg] # {}
        BY <2>1
      <3>2. o \in Closes(t, s, c.arg)
        BY <1>7, <2>1 DEF Effects
      <3> HIDE DEF s
      <3> QED BY <1>7, <3>1, <3>2, ClosesFollow
    <2>2. CASE ~\E s \in Sessions : t.tree[s][c.arg] # {}
      <3>1. o = Rejected(t)
        BY <1>7, <2>2 DEF Effects
      <3> QED BY <1>1, <3>1 DEF Rejected
    <2> QED BY <2>1, <2>2
  <1> QED BY <1>2, <1>3, <1>4, <1>5, <1>6, <1>7, CommandCases DEF PlainOps

(* What is read or selected.                                               *)
LEMMA EffectsRead ==
  ASSUME NEW t \in Server, Tree(t), NEW c \in Command, NEW o \in Effects(t, c)
  PROVE  /\ c.op = "list-windows" =>
              c = ListWindows /\ o = Outcome(t, WindowList(Listing(t)), <<>>)
         /\ c.op = "select-pane" /\ c.arg \in Own(t) =>
              o.tmux.active[WindowOf(o.tmux, c.arg)] = c.arg
         /\ c.op \in {"capture-history", "capture-visible"} =>
              o.tmux = t /\ o.notes = <<>> /\ c.arg \in Panes
         /\ c.op = "capture-visible" /\ c.arg \in Own(t) => Shows(o.reply) = OnScreen(t, c.arg)
  <1>1. CASE c.op = "list-windows"
    <2>1. o = Outcome(t, WindowList(Listing(t)), <<>>)
      BY <1>1 DEF Effects
    <2>2. c = ListWindows
      BY <1>1 DEF Command, PaneOps, PaneWrites, ListWindows, Cmd
    <2> QED BY <1>1, <2>1, <2>2
  <1>2. CASE c.op = "select-pane"
    <2> SUFFICES ASSUME c.arg \in Own(t)
                 PROVE  o.tmux.active[WindowOf(o.tmux, c.arg)] = c.arg
      BY <1>2
    <2>1. Alive(t, c.arg) /\ c.arg \in Panes
      BY OwnIs
    <2>2. o \in Selects(t, c.arg)
      BY <1>2, <2>1 DEF Effects
    <2> QED BY <2>1, <2>2, SelectsFollow
  <1>3. CASE c.op = "capture-history"
    <2>1. c.arg \in Panes
      BY <1>3, CommandCases DEF PlainOps
    <2>2. o = Rejected(t) \/ o = Outcome(t, TextOf(History(t, c.arg)), <<>>)
      BY <1>3 DEF Effects
    <2> QED BY <1>3, <2>1, <2>2 DEF Rejected, Outcome
  <1>4. CASE c.op = "capture-visible"
    <2>1. c.arg \in Panes
      BY <1>4, CommandCases DEF PlainOps
    <2>2. o = IF Alive(t, c.arg) THEN Outcome(t, TextOf(OnScreen(t, c.arg)), <<>>)
              ELSE Rejected(t)
      BY <1>4 DEF Effects
    <2>3. o.tmux = t /\ o.notes = <<>>
      BY <2>2 DEF Rejected, Outcome
    <2>4. ASSUME c.arg \in Own(t)
          PROVE  Shows(o.reply) = OnScreen(t, c.arg)
      <3>1. o = Outcome(t, TextOf(OnScreen(t, c.arg)), <<>>)
        BY <2>2, <2>4, OwnIs
      <3> DEFINE f == OnScreen(t, c.arg)
      <3>2. o.reply = TextOf(f)
        BY <3>1 DEF Outcome
      <3> HIDE DEF f
      <3>3. Shows(TextOf(f)) = f
        BY DEF Shows, TextOf, Text, Empty
      <3> QED BY <3>2, <3>3 DEF f
    <2> QED BY <1>4, <2>1, <2>3, <2>4
  <1> QED BY <1>1, <1>2, <1>3, <1>4

(* The first waiting command has been executed.                            *)
Executed(c, t, u, z, q, e) ==
    /\ \A x : Has(q, x) => Has(e, x) \/ x = c
    /\ c = ListWindows => u.windows = Listing(z)
    /\ \A p \in Own(t) : c = Cmd("select-pane", p) => z.active[WindowOf(z, p)] = p
    /\ \A p : c # Cmd("capture-visible", p)

LEMMA MirrorsExecuted ==
  ASSUME NEW v, NEW t, NEW u, NEW z, NEW notes, NEW q, NEW e, NEW s, NEW r, NEW c,
         Mirrors(v, t, q, s), Followed(v, t, u, z, notes), Executed(c, t, u, z, q, e),
         Calls(s) \/ Calls(notes) => Calls(r)
  PROVE  Mirrors(u, z, e, r)
  <1>1. ListOf(u, z, e, r)
    BY DEF Mirrors, Followed, ListOf, Executed
  <1>2. ActiveOf(u, z, e)
    BY DEF Mirrors, Followed, ActiveOf, Executed
  <1>3. ScreensOf(u, z, e)
    BY DEF Mirrors, Followed, ScreensOf, Executed
  <1> QED BY <1>1, <1>2, <1>3 DEF Mirrors, Followed

LEMMA CaptureMirrored ==
  ASSUME NEW v \in Views, NEW t, NEW q \in Seq(Command), q # <<>>, NEW s, NEW r,
         Mirrors(v, t, q, s), Calls(s) => Calls(r), HistoryFirst(q),
         NEW p \in Panes, NEW c, c = Head(q), c.arg = p,
         c.op \in {"capture-history", "capture-visible"}, NEW x \in Seq(Nat),
         c.op = "capture-visible" /\ p \in Own(t) =>
           \A f \in Seq(Nat) : EndsWith(f \o x, t.printed[p])
  PROVE  Mirrors(FedWith(v, p, x), t, Tail(q), r)
  <1> DEFINE u == FedWith(v, p, x)
             e == Tail(q)
  <1>1. /\ u.id = v.id /\ u.active = v.active /\ u.windows = v.windows /\ u.new = v.new
        /\ u.fed = IF p \in Leaves(v.windows) THEN [v.fed EXCEPT ![p] = @ \o x] ELSE v.fed
    BY FedWithIs
  <1>2. \A y : Has(q, y) => Has(e, y) \/ y = c
    BY HasTail
  <1>3. c.op = "capture-history" => Has(e, Cmd("capture-visible", p))
    BY HistoryTail
  <1>4. c # ListWindows /\ \A a : c # Cmd("select-pane", a)
    BY DEF ListWindows, Cmd
  <1>5. \A a : c = Cmd("capture-visible", a) => a = p
    BY DEF Cmd
  <1>6. v.fed \in [Panes -> Seq(Nat)]
    BY DEF Views
  <1> HIDE DEF u, e
  <1>7. ListOf(u, t, e, r)
    BY <1>1, <1>2, <1>4 DEF Mirrors, ListOf
  <1>8. ActiveOf(u, t, e)
    BY <1>1, <1>2, <1>4 DEF Mirrors, ActiveOf
  <1>9. ASSUME NEW a \in Leaves(u.windows) \cap Own(t)
        PROVE  EndsWith(u.fed[a], t.printed[a]) \/ a \in u.new \/ Has(e, Cmd("capture-visible", a))
    <2>1. CASE a = p
      <3>1. CASE c.op = "capture-history"
        BY <1>3, <2>1, <3>1
      <3>2. CASE c.op = "capture-visible"
        <4>1. u.fed[p] = v.fed[p] \o x
          BY <1>1, <1>6, <1>9, <2>1
        <4>2. v.fed[p] \in Seq(Nat)
          BY <1>6
        <4> QED BY <1>9, <2>1, <3>2, <4>1, <4>2
      <3> QED BY <3>1, <3>2
    <2>2. CASE a # p
      <3>1. u.fed[a] = v.fed[a]
        BY <1>1, <1>6, <2>2
      <3>2. EndsWith(v.fed[a], t.printed[a]) \/ a \in v.new \/ Has(q, Cmd("capture-visible", a))
        BY <1>1, <1>9 DEF Mirrors, ScreensOf
      <3> QED BY <1>1, <1>2, <1>5, <2>2, <3>1, <3>2
    <2> QED BY <2>1, <2>2
  <1>10. ScreensOf(u, t, e)
    BY <1>9 DEF ScreensOf
  <1>11. u.id = t.session
    BY <1>1 DEF Mirrors
  <1>12. Mirrors(u, t, e, r)
    BY <1>7, <1>8, <1>10, <1>11 DEF Mirrors
  <1> QED BY <1>12 DEF u, e

(* What the Viewer hears of an executed command.                           *)
LEMMA ListHeard ==
  ASSUME NEW v \in Views, NEW t \in Server, Tree(t), v.id = t.session
  PROVE  LET u == Relaid(v, Listing(t))
         IN  u.windows = Listing(t) /\ Followed(v, t, u, t, <<>>)
  <1> DEFINE ws == Listing(t)
             u == Relaid(v, ws)
  <1>1. ws \in [Windows -> Layout]
    BY ListingIs
  <1> HIDE DEF ws
  <1>2. /\ u \in Views /\ u.id = v.id /\ u.active = v.active /\ u.windows = ws
        /\ u.new = v.new \cup (Leaves(ws) \ Leaves(v.windows))
        /\ u.fed = [p \in Panes |-> IF p \in Leaves(ws) THEN v.fed[p] ELSE <<>>]
    BY <1>1, RelaidIs
  <1>3. Leaves(ws) \subseteq Panes
    BY <1>1, LeavesTyped
  <1> HIDE DEF u
  <1>4. HasHeard(v, u)
    BY <1>2, <1>3 DEF HasHeard
  <1>5. Own(t) \subseteq Own(t) \cup (Panes \ t.used)
    OBVIOUS
  <1>6. \A p \in Leaves(u.windows) \cap Own(t) :
          \/ p \in u.new \/ EndsWith(u.fed[p], t.printed[p])
          \/ /\ p \in Leaves(v.windows) \cap Own(t) /\ p \notin v.new
             /\ ~EndsWith(v.fed[p], t.printed[p])
    BY <1>4, <1>5, ScreensFollow
  <1>7. Followed(v, t, u, t, <<>>)
    BY <1>2, <1>6 DEF Followed, ws
  <1> QED BY <1>2, <1>7 DEF u, ws

LEMMA ExecutedIs ==
  ASSUME NEW t \in Server, Tree(t), NEW v \in Views,
         NEW q \in Seq(Command), q # <<>>, NEW s, NEW r, NEW c, c = Head(q),
         NEW o \in Effects(t, c), Mirrors(v, t, q, s), HistoryFirst(q),
         Calls(s) \/ Calls(o.notes) => Calls(r)
  PROVE  Mirrors(Heard(HearReply(v, c, o.reply), o.notes), o.tmux, Tail(q), r)
  <1>1. c \in Command
    BY TailIs
  <1>2. /\ Tree(o.tmux)
        /\ \A x \in Views : x.id = t.session =>
             Followed(x, t, Heard(x, o.notes), o.tmux, o.notes)
    BY <1>1, EffectsFollow
  <1>3. v.id = t.session
    BY DEF Mirrors
  <1>4. \A x : Has(q, x) => Has(Tail(q), x) \/ x = c
    BY HasTail
  <1>5. CASE c.op \in {"capture-history", "capture-visible"}
    <2> DEFINE p == c.arg
               x == Shows(o.reply)
    <2>1. o.tmux = t /\ o.notes = <<>> /\ p \in Panes
      BY <1>1, <1>5, EffectsRead
    <2>2. HearReply(v, c, o.reply) = FedWith(v, p, x)
      BY <1>5 DEF HearReply, ListWindows, Cmd
    <2>3. x \in Seq(Nat)
      BY <1>1, EffectsTyped, ShowsTyped DEF Outcomes
    <2>4. c.op = "capture-visible" /\ p \in Own(t) =>
            \A f \in Seq(Nat) : EndsWith(f \o x, t.printed[p])
      BY <1>1, <2>1, EffectsRead, EndsFed
    <2> HIDE DEF x, p
    <2>5. p = c.arg
      BY DEF p
    <2>6. Mirrors(FedWith(v, p, x), t, Tail(q), r)
      BY <1>5, <2>1, <2>3, <2>4, <2>5, CaptureMirrored
    <2> QED BY <2>1, <2>2, <2>6, HeardNone
  <1>6. CASE c.op = "list-windows"
    <2>1. c = ListWindows /\ o.tmux = t /\ o.notes = <<>> /\ o.reply = WindowList(Listing(t))
      BY <1>1, <1>6, EffectsRead DEF Outcome
    <2> DEFINE u == Relaid(v, Listing(t))
    <2>2. HearReply(v, c, o.reply) = u
      BY <2>1 DEF HearReply, WindowList
    <2>3. u.windows = Listing(t) /\ Followed(v, t, u, t, <<>>)
      BY <1>3, ListHeard
    <2> HIDE DEF u
    <2>4. \A p : c # Cmd("select-pane", p) /\ c # Cmd("capture-visible", p)
      BY <1>6 DEF Cmd
    <2> DEFINE e == Tail(q)
    <2>5. \A x : Has(q, x) => Has(e, x) \/ x = c
      BY <1>4
    <2>6. Calls(s) \/ Calls(<<>>) => Calls(r)
      BY <2>1
    <2>7. c = ListWindows => u.windows = Listing(t)
      BY <2>3
    <2> HIDE DEF e
    <2>9. Executed(c, t, u, t, q, e)
      BY <2>4, <2>5, <2>7 DEF Executed
    <2>8. Mirrors(u, t, e, r)
      BY <2>3, <2>6, <2>9, MirrorsExecuted
    <2> QED BY <2>1, <2>2, <2>8, HeardNone DEF e
  <1>7. CASE c.op \notin {"capture-history", "capture-visible", "list-windows"}
    <2>1. HearReply(v, c, o.reply) = v
      BY <1>7 DEF HearReply, ListWindows, Cmd
    <2>2. c # ListWindows /\ \A p : c # Cmd("capture-visible", p)
      BY <1>7 DEF ListWindows, Cmd
    <2>3. \A p \in Own(t) : c = Cmd("select-pane", p) =>
            o.tmux.active[WindowOf(o.tmux, p)] = p
      <3> SUFFICES ASSUME NEW p \in Own(t), c = Cmd("select-pane", p)
                   PROVE  o.tmux.active[WindowOf(o.tmux, p)] = p
        OBVIOUS
      <3>1. c.op = "select-pane" /\ c.arg = p
        BY DEF Cmd
      <3> QED BY <1>1, <3>1, EffectsRead
    <2> DEFINE z == o.tmux
               notes == o.notes
               u == Heard(v, notes)
               e == Tail(q)
    <2>4. Followed(v, t, u, z, notes)
      BY <1>2, <1>3
    <2>5. \A x : Has(q, x) => Has(e, x) \/ x = c
      BY <1>4
    <2>6. Calls(s) \/ Calls(notes) => Calls(r)
      OBVIOUS
    <2>7. \A p \in Own(t) : c = Cmd("select-pane", p) => z.active[WindowOf(z, p)] = p
      BY <2>3
    <2> HIDE DEF u, z, notes, e
    <2>9. Executed(c, t, u, z, q, e)
      BY <2>2, <2>5, <2>7 DEF Executed
    <2>8. Mirrors(u, z, e, r)
      BY <2>4, <2>6, <2>9, MirrorsExecuted
    <2> QED BY <2>1, <2>8 DEF u, z, notes, e
  <1> QED BY <1>5, <1>6, <1>7

LEMMA ExecuteMirrored ==
  ASSUME IInv, MirrorInv, Execute
  PROVE  MirrorInv'
  <1> DEFINE c == Head(toTmux)
  <1>1. /\ toTmux # <<>> /\ toTmux' = Tail(toTmux)
        /\ UNCHANGED <<viewerVars, driverVars, nativeVars, raced, spent>>
    BY DEF Execute, Serves
  <1>2. PICK o \in Effects(tmux, c) :
          /\ tmux' = o.tmux
          /\ fromTmux' = fromTmux \o <<Block(c, o.reply)>> \o o.notes
    BY DEF Execute
  <1>3. /\ tmux \in Server /\ c \in Command /\ fromTmux \in Seq(Notification)
        /\ toTmux \in Seq(Command) /\ queue \in Seq(Command) /\ TypeOK
    BY <1>1 DEF IInv, TypeOK
  <1>4. o.tmux \in Server /\ o.reply \in Reply /\ o.notes \in Seq(Event)
        /\ o.notes \in Seq(Notification)
    <2>1. o.tmux \in Server /\ o.reply \in Reply /\ o.notes \in Seq(Event)
      BY <1>3, EffectsTyped DEF Outcomes
    <2>2. Event \subseteq Notification
      BY DEF Notification
    <2> QED BY <2>1, <2>2
  <1>5. Tree(tmux)'
    BY <1>2, <1>3, EffectsFollow DEF MirrorInv
  <1>6. ~Starting
    BY <1>1 DEF IInv, StartupInv, Starting
  <1>7. StartInv' /\ TabsInv'
    BY <1>1, <1>6 DEF MirrorInv, StartInv, Starting, TabsInv, viewerVars, driverVars, nativeVars
  <1>8. ASSUME state = "CommandQueue", ~raced
        PROVE  /\ Mirrors(Final', tmux', Pend', fromTmux') /\ HistoryFirst(Pend')
               /\ lastRefresh \in {None, grid} /\ Declared(Pend', tmux'.size, grid)
    <2>1. InFlight(queue, commands, toTmux, fromTmux)
      BY <1>8 DEF IInv, FlightInv
    <2>2. queue # <<>> /\ c = Head(queue) /\ Pend = queue /\ Pend' = Tail(queue)
      <3>0. queue # <<>> /\ c = Head(queue) /\ Answers(fromTmux) = {}
        BY <1>1, <1>3, <2>1 DEF InFlight
      <3> HIDE DEF c
      <3>1. /\ Waiting(queue, fromTmux) = queue
            /\ Waiting(queue, fromTmux \o <<Block(c, o.reply)>> \o o.notes) = Tail(queue)
        <4> DEFINE rep == o.reply
                   notes == o.notes
        <4>1. rep \in Reply /\ notes \in Seq(Event)
          BY <1>4
        <4> HIDE DEF rep, notes
        <4> DEFINE b == fromTmux \o <<Block(c, rep)>>
        <4>2. b \in Seq(Notification) /\ OnlyAnswers(b, c)
          BY <1>3, <3>0, <4>1, ReplyAppended
        <4> HIDE DEF b
        <4>3. OnlyAnswers(b \o notes, c)
          BY <4>1, <4>2, EventsAppended
        <4>4. Answers(b \o notes) # {}
          BY <4>3 DEF OnlyAnswers
        <4> QED BY <3>0, <4>4 DEF Waiting, b, rep, notes
      <3> QED BY <1>1, <1>2, <3>0, <3>1 DEF Pend, viewerVars
    <2>3. Mirrors(Final, tmux, queue, fromTmux) /\ HistoryFirst(queue)
          /\ lastRefresh \in {None, grid} /\ Declared(queue, tmux.size, grid)
      BY <1>8, <2>2 DEF MirrorInv, ViewInv, SizeInv
    <2>4. Final \in Views
      BY <1>3, FinalTyped
    <2> DEFINE b == Block(c, o.reply)
    <2>5. b \in Notification /\ Hear(Final, b) = HearReply(Final, c, o.reply)
      <3>1. b.kind = "block" /\ b.of = c /\ b.reply = o.reply /\ b \in Notification
        BY <1>3, <1>4 DEF Block, Notification
      <3> HIDE DEF b
      <3> QED BY <3>1 DEF Hear
    <2> HIDE DEF b, c
    <2>6. Final' = Heard(HearReply(Final, c, o.reply), o.notes)
      <3>1. <<b>> \in Seq(Notification) /\ fromTmux \o <<b>> \in Seq(Notification)
        BY <1>3, <2>5
      <3>2. Heard(View, fromTmux \o <<b>> \o o.notes)
            = Heard(Heard(View, fromTmux \o <<b>>), o.notes)
        BY <1>4, <3>1, HeardBoth
      <3>3. Heard(View, fromTmux \o <<b>>) = Heard(Final, <<b>>)
        BY <1>3, <3>1, HeardBoth DEF Final
      <3>4. Heard(Final, <<b>>) = HearReply(Final, c, o.reply)
        BY <2>5, HeardOne
      <3>5. View' = View
        BY <1>1 DEF View, viewerVars
      <3> QED BY <1>2, <3>2, <3>3, <3>4, <3>5 DEF Final, b
    <2>7. Calls(fromTmux) \/ Calls(o.notes) => Calls(fromTmux')
      <3>1. <<b>> \in Seq(Notification) /\ fromTmux \o <<b>> \in Seq(Notification)
        BY <1>3, <2>5
      <3>2. Calls(fromTmux) => Calls(fromTmux \o <<b>>)
        BY <1>3, <3>1, CallsBoth
      <3>3. Calls(fromTmux \o <<b>>) \/ Calls(o.notes) => Calls(fromTmux \o <<b>> \o o.notes)
        BY <1>4, <3>1, CallsBoth
      <3> QED BY <1>2, <3>2, <3>3 DEF b
    <2>8. Mirrors(Final', tmux', Tail(queue), fromTmux')
      <3>1. Tree(tmux)
        BY DEF MirrorInv
      <3>2. Mirrors(Heard(HearReply(Final, c, o.reply), o.notes), o.tmux, Tail(queue), fromTmux')
        BY <1>2, <1>3, <2>2, <2>3, <2>4, <2>7, <3>1, ExecutedIs
      <3> QED BY <1>2, <2>6, <3>2
    <2>9. HistoryFirst(Tail(queue))
      BY <1>3, <2>2, <2>3, HistoryTail
    <2>10. Declared(Tail(queue), tmux'.size, grid)
      <3>1. tmux'.size = IF c.op = "refresh-client" THEN c.arg ELSE tmux.size
        BY <1>2, <1>3, EffectsFollow DEF MirrorInv
      <3> QED BY <1>3, <2>2, <2>3, <3>1, DeclaredTail
    <2> QED BY <2>2, <2>3, <2>8, <2>9, <2>10
  <1>9. ViewInv'
    BY <1>1, <1>3, <1>6, <1>8 DEF ViewInv, Starting, TypeOK, viewerVars
  <1>10. SizeInv'
    BY <1>1, <1>8 DEF SizeInv, viewerVars, nativeVars
  <1> QED BY <1>5, <1>7, <1>9, <1>10 DEF MirrorInv

(* tmux says something of its own accord, which can be followed.           *)
LEMMA NotifiedMirrored ==
  ASSUME IInv, MirrorInv, Serves, UNCHANGED toTmux, NEW notes \in Seq(Event),
         fromTmux' = fromTmux \o notes, Tree(tmux'), tmux'.size = tmux.size,
         \A v \in Views : v.id = tmux.session =>
           Followed(v, tmux, Heard(v, notes), tmux', notes)
  PROVE  MirrorInv'
  <1>1. UNCHANGED <<viewerVars, driverVars, nativeVars, raced>>
    BY DEF Serves
  <1>2. TypeOK /\ fromTmux \in Seq(Notification) /\ notes \in Seq(Notification)
    <2>1. Event \subseteq Notification
      BY DEF Notification
    <2> QED BY <2>1 DEF IInv, TypeOK
  <1>3. /\ Calls(fromTmux) \/ Calls(notes) => Calls(fromTmux')
        /\ Restarts(fromTmux) => Restarts(fromTmux')
    BY <1>2, CallsBoth
  <1>4. Pend' = Pend
    <2>1. queue' = queue
      BY <1>1 DEF viewerVars
    <2>2. Waiting(queue, fromTmux \o notes) = Waiting(queue, fromTmux)
      BY <1>2, WaitingNotified
    <2> QED BY <2>1, <2>2 DEF Pend
  <1>5. StartInv' /\ TabsInv'
    BY <1>1, <1>3 DEF MirrorInv, StartInv, Starting, TabsInv, viewerVars, driverVars, nativeVars
  <1>6. SizeInv'
    BY <1>1, <1>4 DEF MirrorInv, SizeInv, viewerVars, nativeVars
  <1>7. ViewInv'
    <2> SUFFICES ASSUME state # "Defunct", ~raced
                 PROVE  Mirrors(Final', tmux', Pend', fromTmux') /\ HistoryFirst(Pend')
      BY <1>1 DEF ViewInv, viewerVars
    <2>1. Mirrors(Final, tmux, Pend, fromTmux) /\ HistoryFirst(Pend)
      BY DEF MirrorInv, ViewInv
    <2>2. Final \in Views /\ Final.id = tmux.session
      BY <1>2, <2>1, FinalTyped DEF Mirrors
    <2>3. Final' = Heard(Final, notes)
      <3>1. View' = View
        BY <1>1 DEF View, viewerVars
      <3>2. Heard(View, fromTmux \o notes) = Heard(Heard(View, fromTmux), notes)
        BY <1>2, HeardBoth
      <3> QED BY <3>1, <3>2 DEF Final
    <2>4. Followed(Final, tmux, Final', tmux', notes)
      BY <2>2, <2>3
    <2>5. Mirrors(Final', tmux', Pend, fromTmux')
      BY <1>3, <2>1, <2>4, MirrorsFollowed
    <2> QED BY <1>4, <2>1, <2>5
  <1> QED BY <1>5, <1>6, <1>7 DEF MirrorInv

(* A pane prints, and is followed where it is shown.                       *)
LEMMA PrintFollows ==
  ASSUME NEW t \in Server, Tree(t), NEW p \in Panes, Alive(t, p), NEW z,
         z = [t EXCEPT !.printed[p] = @ + 1],
         NEW notes, notes = Tell(t, Place(t, p)[1], <<Output(p, t.printed[p] + 1)>>)
  PROVE  /\ Tree(z) /\ z.size = t.size
         /\ \A v \in Views : v.id = t.session => Followed(v, t, Heard(v, notes), z, notes)
  <1> DEFINE s == Place(t, p)[1]
             w == Place(t, p)[2]
             k == t.printed[p] + 1
             m == Output(p, k)
  <1>1. s \in Sessions /\ w \in Windows /\ p \in t.tree[s][w]
    BY PlaceTyped
  <1>2. /\ z \in Server /\ z.session = t.session /\ z.tree = t.tree /\ z.size = t.size
        /\ z.active = t.active /\ z.used = t.used /\ z.printed = [t.printed EXCEPT ![p] = k]
        /\ t.printed \in [Panes -> Nat] /\ k \in Nat /\ t.printed[p] \in Nat
    <2>1. t.printed \in [Panes -> Nat] /\ k \in Nat
      BY DEF Server
    <2>2. [t.printed EXCEPT ![p] = k] \in [Panes -> Nat]
      BY <2>1
    <2> HIDE DEF k
    <2>3. z = [t EXCEPT !.printed = [t.printed EXCEPT ![p] = k]]
      BY DEF k
    <2> QED BY <2>1, <2>2, <2>3 DEF Server
  <1> HIDE DEF s, w
  <1>3. p \in t.used
    BY <1>1 DEF Tree
  <1>4. Tree(z)
    <2>1. \A a \in Panes \ z.used : z.printed[a] = 0
      <3> SUFFICES ASSUME NEW a \in Panes \ z.used PROVE z.printed[a] = 0
        OBVIOUS
      <3>1. a # p /\ a \in Panes \ t.used
        BY <1>2, <1>3
      <3>2. z.printed[a] = t.printed[a]
        BY <1>2, <3>1
      <3> QED BY <3>1, <3>2 DEF Tree
    <2> QED BY <1>2, <2>1 DEF Tree
  <1>5. Listing(z) = Listing(t) /\ Own(z) = Own(t) /\ \A a : WindowOf(z, a) = WindowOf(t, a)
    BY <1>2 DEF Listing, LayoutOf, Own, WindowOf, Place
  <1>6. m.kind = "output" /\ m.arg = p /\ m.data = k
    BY DEF Output
  <1>7. \A a \in Panes : a # p => z.printed[a] = t.printed[a]
    BY <1>2
  <1>8. z.printed[p] = t.printed[p] + 1
    BY <1>2
  <1>9. t.session \in Sessions /\ Own(t) \subseteq Panes
    BY DEF Server, Own
  <1>10. ASSUME NEW v \in Views, v.id = t.session
         PROVE  Followed(v, t, Heard(v, notes), z, notes)
    <2> DEFINE u == Heard(v, notes)
    <2>1. CASE s = t.session
      <3>1. notes = <<m>>
        BY <2>1 DEF Tell, s
      <3>2. u = FedWith(v, p, <<k>>)
        <4> HIDE DEF m
        <4>1. u = Hear(v, m)
          BY <3>1, HeardOne
        <4> QED BY <1>6, <4>1 DEF Hear
      <3>3. <<k>> \in Seq(Nat)
        BY <1>2
      <3>4. /\ u.id = v.id /\ u.active = v.active /\ u.windows = v.windows /\ u.new = v.new
            /\ u.fed = IF p \in Leaves(v.windows) THEN [v.fed EXCEPT ![p] = @ \o <<k>>]
                       ELSE v.fed
        <4> DEFINE x == <<k>>
        <4>1. x \in Seq(Nat) /\ u = FedWith(v, p, x)
          BY <3>2, <3>3
        <4> HIDE DEF x, u
        <4> QED BY <4>1, FedWithIs DEF x
      <3>5. v.fed \in [Panes -> Seq(Nat)]
        BY DEF Views
      <3> HIDE DEF u, k
      <3>6. ASSUME NEW a \in Leaves(u.windows) \cap Own(z)
            PROVE  \/ a \in u.new \/ EndsWith(u.fed[a], z.printed[a])
                   \/ /\ a \in Leaves(v.windows) \cap Own(t) /\ a \notin v.new
                      /\ ~EndsWith(v.fed[a], t.printed[a])
        <4>1. a \in Leaves(v.windows) /\ a \in Own(t) /\ a \in Panes
          BY <1>5, <1>9, <3>4, <3>6
        <4>2. CASE a = p
          <5>1. u.fed[p] = v.fed[p] \o <<k>> /\ v.fed[p] \in Seq(Nat)
            BY <3>4, <3>5, <4>1, <4>2
          <5>2. EndsWith(v.fed[p], t.printed[p]) => EndsWith(u.fed[p], z.printed[p])
            BY <1>2, <1>8, <5>1, EndsNext DEF k
          <5> QED BY <3>4, <4>1, <4>2, <5>2
        <4>3. CASE a # p
          <5>1. u.fed[a] = v.fed[a]
            BY <3>4, <3>5, <4>1, <4>3
          <5> QED BY <1>7, <3>4, <4>1, <4>3, <5>1
        <4> QED BY <4>2, <4>3
      <3>7. Followed(v, t, u, z, notes)
        BY <1>2, <1>5, <1>10, <3>4, <3>6 DEF Followed
      <3> QED BY <3>7 DEF u
    <2>2. CASE s # t.session
      <3>1. notes = <<>>
        BY <2>2 DEF Tell, s
      <3>2. u = v
        BY <3>1, HeardNone
      <3> HIDE DEF u
      <3>3. p \notin Own(t)
        <4> SUFFICES ASSUME p \in Own(t) PROVE FALSE
          OBVIOUS
        <4> QED BY <2>2, OwnIs DEF s
      <3>4. ASSUME NEW a \in Leaves(u.windows) \cap Own(z)
            PROVE  \/ a \in u.new \/ EndsWith(u.fed[a], z.printed[a])
                   \/ /\ a \in Leaves(v.windows) \cap Own(t) /\ a \notin v.new
                      /\ ~EndsWith(v.fed[a], t.printed[a])
        <4>1. a \in Panes /\ a # p
          BY <1>5, <1>9, <3>3
        <4> QED BY <1>5, <1>7, <3>2, <4>1
      <3>5. Followed(v, t, u, z, notes)
        BY <1>2, <1>5, <1>10, <3>2, <3>4 DEF Followed
      <3> QED BY <3>5 DEF u
    <2> QED BY <2>1, <2>2
  <1> QED BY <1>2, <1>4, <1>10

LEMMA ServerMirrored ==
  ASSUME IInv, MirrorInv,
         Remote \/ (\E p \in Panes : PrintOutput(p)) \/ (\E s \in Sessions : Switch(s))
  PROVE  MirrorInv'
  <1>1. tmux \in Server /\ fromTmux \in Seq(Notification) /\ TypeOK /\ Tree(tmux)
    BY DEF IInv, TypeOK, MirrorInv
  <1>2. CASE Remote
    <2>1. PICK o \in RemoteEffects(tmux) :
            tmux' = o.tmux /\ fromTmux' = fromTmux \o o.notes
      BY <1>2 DEF Remote
    <2>2. o.notes \in Seq(Event)
      BY <1>1, RemoteTyped DEF Outcomes
    <2>3. Serves /\ UNCHANGED toTmux
      BY <1>2 DEF Remote
    <2>4. Follows(tmux, o)
      BY <1>1, RemoteFollows
    <2> DEFINE notes == o.notes
    <2>5. /\ Tree(tmux') /\ tmux'.size = tmux.size /\ notes \in Seq(Event)
          /\ fromTmux' = fromTmux \o notes
          /\ \A v \in Views : v.id = tmux.session =>
               Followed(v, tmux, Heard(v, notes), tmux', notes)
      BY <2>1, <2>2, <2>4 DEF Follows
    <2> HIDE DEF notes
    <2> QED BY <2>3, <2>5, NotifiedMirrored
  <1>3. ASSUME NEW p \in Panes, PrintOutput(p)
        PROVE  MirrorInv'
    <2> DEFINE notes == Tell(tmux, Place(tmux, p)[1],
                             <<Output(p, tmux.printed[p] + 1)>>)
    <2>1. /\ Serves /\ UNCHANGED toTmux /\ Alive(tmux, p)
          /\ tmux' = [tmux EXCEPT !.printed[p] = @ + 1]
          /\ fromTmux' = fromTmux \o notes
      BY <1>3 DEF PrintOutput
    <2>2. notes \in Seq(Event)
      <3>1. tmux.printed[p] + 1 \in Nat
        BY <1>1 DEF Server
      <3>2. <<Output(p, tmux.printed[p] + 1)>> \in Seq(Event)
        BY <3>1, EventsTyped
      <3> QED BY <3>2, TellTyped
    <2>3. /\ Tree(tmux') /\ tmux'.size = tmux.size
          /\ \A v \in Views : v.id = tmux.session =>
               Followed(v, tmux, Heard(v, notes), tmux', notes)
      BY <1>1, <2>1, PrintFollows
    <2> HIDE DEF notes
    <2> QED BY <2>1, <2>2, <2>3, NotifiedMirrored
  <1>4. ASSUME NEW s \in Sessions, Switch(s)
        PROVE  MirrorInv'
    <2> DEFINE n == Notify("session-changed", s)
               notes == <<n>>
    <2>1. /\ Serves /\ UNCHANGED toTmux
          /\ tmux' = [tmux EXCEPT !.session = s]
          /\ fromTmux' = Append(fromTmux, n)
      BY <1>4 DEF Switch
    <2>2. /\ tmux' \in Server /\ tmux'.session = s /\ tmux'.tree = tmux.tree
          /\ tmux'.size = tmux.size /\ tmux'.printed = tmux.printed /\ tmux'.used = tmux.used
      BY <1>1, <2>1 DEF Server
    <2>3. n \in Event /\ n.kind = "session-changed" /\ n.arg = s
      BY EventsTyped DEF Notify
    <2>4. Tree(tmux')
      BY <1>1, <2>2 DEF Tree
    <2> HIDE DEF n
    <2>5. notes \in Seq(Event) /\ fromTmux' = fromTmux \o notes
      <3>1. n \in Notification
        BY <2>3, EventsAnswerNothing
      <3> QED BY <1>1, <2>1, <2>3, <3>1
    <2>6. Calls(notes)
      BY <2>3 DEF Calls, CallKinds
    <2>7. \A v : Heard(v, notes) = Restarted(tmux'.session)
      <3>1. \A v : Heard(v, notes) = Hear(v, n)
        BY HeardOne
      <3> QED BY <2>2, <2>3, <3>1 DEF Hear
    <2> HIDE DEF notes
    <2>8. \A v : Followed(v, tmux, Restarted(tmux'.session), tmux', notes)
      BY <2>2, <2>6, RestartFollowed
    <2>9. \A v \in Views : v.id = tmux.session =>
            Followed(v, tmux, Heard(v, notes), tmux', notes)
      BY <2>7, <2>8
    <2> QED BY <2>1, <2>2, <2>4, <2>5, <2>9, NotifiedMirrored
  <1> QED BY <1>2, <1>3, <1>4

-----------------------------------------------------------------------------
LEMMA MirroredInitially ==
  ASSUME Init
  PROVE  MirrorInv
  <1> DEFINE attach == Block(Attach, Empty)
             started == Notify("session-changed", tmux.session)
             shown(w) == UNION {InitialTree[s][w] : s \in Sessions}
             all == UNION {InitialTree[s][w] : s \in Sessions, w \in Windows}
  <1>1. tmux \in Server /\ tmux \in Attached
    BY AttachedTyped DEF Init
  <1>2. /\ tmux.tree = InitialTree /\ tmux.used = all \cup {w \in Windows : shown(w) # {}}
        /\ \A p \in Panes : tmux.printed[p] = 0
    <2>1. PICK z \in Sizes :
            tmux = [session |-> Home, tree |-> InitialTree, size |-> z, alive |-> TRUE,
                    active |-> [w \in Windows |-> IF shown(w) = {} THEN None
                                                  ELSE CHOOSE p \in shown(w) : TRUE],
                    printed |-> [p \in Panes |-> 0],
                    used |-> all \cup {w \in Windows : shown(w) # {}}]
      BY <1>1 DEF Attached
    <2> HIDE DEF shown, all
    <2> QED BY <2>1
  <1>3. Tree(tmux)
    <2>1. \A s \in Sessions, w \in Windows :
            tmux.tree[s][w] # {} => w \in tmux.used /\ tmux.tree[s][w] \subseteq tmux.used
      BY <1>2
    <2> HIDE DEF all, shown
    <2> QED BY <1>2, <2>1, DistinctAssumption DEF Tree
  <1>4. /\ attach \in Notification /\ started \in Notification
        /\ started.kind = "session-changed" /\ started.arg = tmux.session
        /\ ~IsReply(attach) /\ ~IsReply(started)
    <2>1. attach \in Notification /\ ~IsReply(attach)
      BY RepliesTyped DEF Notification, Block, IsReply
    <2>2. started \in Event
      BY <1>1, EventsTyped DEF Server
    <2>3. started.kind = "session-changed" /\ started.arg = tmux.session
      BY DEF Notify
    <2> QED BY <2>1, <2>2, <2>3, EventsAnswerNothing
  <1> HIDE DEF attach, started, shown, all
  <1>5. fromTmux = <<attach, started>>
    BY DEF Init, attach, started
  <1>6. /\ DOMAIN fromTmux = 1 .. 2 /\ fromTmux[1] = attach /\ fromTmux[2] = started
    BY <1>5
  <1>7. Restarts(fromTmux) /\ Calls(fromTmux)
    BY <1>4, <1>6 DEF Restarts, Calls, CallKinds
  <1>8. Final = Restarted(tmux.session)
    <2>1. Final = Hear(Hear(View, attach), started)
      BY <1>4, <1>5, HeardTwo DEF Final
    <2> QED BY <1>4, <2>1 DEF Hear
  <1>9. StartInv /\ TabsInv /\ SizeInv
    <2>1. Present(NoWindows) = {}
      BY DEF Present, NoWindows, NoLayout
    <2> QED BY <1>7, <2>1 DEF Init, StartInv, TabsInv, SizeInv
  <1>10. ViewInv
    <2>1. Pend = <<>>
      <3>1. Answers(fromTmux) = {}
        BY <1>4, <1>6 DEF Answers
      <3> QED BY <3>1 DEF Pend, Waiting, Init
    <2>2. HistoryFirst(<<>>)
      BY NothingAsked
    <2> DEFINE v == Restarted(tmux.session)
    <2>3. v.id = tmux.session /\ v.active = None /\ v.windows = NoWindows
      BY DEF Restarted
    <2> HIDE DEF v
    <2>4. ListOf(v, tmux, <<>>, fromTmux)
      BY <1>7 DEF ListOf
    <2>5. ActiveOf(v, tmux, <<>>)
      <3>1. None \notin Own(tmux)
        BY <1>1, NoneAssumption DEF Own, Server
      <3> QED BY <2>3, <3>1 DEF ActiveOf
    <2>6. ScreensOf(v, tmux, <<>>)
      BY <2>3, NoWindowsTyped DEF ScreensOf
    <2>7. Mirrors(v, tmux, <<>>, fromTmux)
      BY <2>3, <2>4, <2>5, <2>6 DEF Mirrors
    <2> QED BY <1>8, <2>1, <2>2, <2>7 DEF ViewInv, v
  <1> QED BY <1>3, <1>9, <1>10 DEF MirrorInv

(* Every step of the client, the user or tmux keeps the mirror.            *)
LEMMA MirroredStepwise ==
  ASSUME IInv, MirrorInv, [Next]_vars
  PROVE  MirrorInv'
  <1>1. CASE TakeNotification
    BY <1>1, BlockMirrored, RestartMirrored, LayoutMirrored, WindowMirrored,
       PaneMirrored, OutputMirrored, ExitMirrored DEF TakeNotification
  <1>2. CASE EndBatch
    BY <1>2, BatchMirrored
  <1>3. CASE User
    BY <1>3, UserMirrored
  <1>4. CASE Execute
    BY <1>4, ExecuteMirrored
  <1>5. CASE Remote \/ (\E p \in Panes : PrintOutput(p))
             \/ (\E s \in Sessions : Switch(s))
    BY <1>5, ServerMirrored
  <1>6. CASE UNCHANGED vars
    <2>1. UNCHANGED <<state, sessionId, queue, windows, active, fed, clientSize, lastRefresh,
                      batch, changed, tabs, grid, tmux, fromTmux, raced>>
      BY <1>6 DEF vars, viewerVars, driverVars, nativeVars
    <2>2. Final' = Final /\ Pend' = Pend
      BY <2>1 DEF Final, Pend, View
    <2> QED BY <2>1, <2>2 DEF MirrorInv, StartInv, Starting, TabsInv, ViewInv, SizeInv
  <1> QED BY <1>1, <1>2, <1>3, <1>4, <1>5, <1>6 DEF Next

(* What the Viewer will have heard mirrors tmux at every moment, but for   *)
(* what the commands of its queue that tmux has not executed see to, and   *)
(* the size tmux will have been told of is that of the native window.      *)
THEOREM Mirrored == Spec => []MirrorInv
  <1>1. Init => MirrorInv
    BY MirroredInitially
  <1>2. IInv /\ MirrorInv /\ [Next]_vars => MirrorInv'
    BY MirroredStepwise
  <1> QED BY <1>1, <1>2, Invariance, PTL DEF Spec

LEMMA QuietView ==
  ASSUME IInv, MirrorInv, Quiet
  PROVE  /\ Mirrors(View, tmux, <<>>, <<>>) /\ windows = Listing(tmux)
         /\ panes = Own(tmux) /\ tmux \in Server /\ TypeOK
  <1>1. TypeOK /\ tmux \in Server /\ panes = Leaves(windows)
    BY DEF IInv, TypeOK
  <1>2. Final = View
    BY HeardNone DEF Final, Quiet
  <1>3. Pend = <<>>
    <2>1. Answers(<<>>) = {}
      BY DEF Answers
    <2> QED BY <2>1 DEF Pend, Waiting, Quiet
  <1>4. Mirrors(View, tmux, <<>>, <<>>)
    BY <1>2, <1>3 DEF MirrorInv, ViewInv, Quiet
  <1>5. ~Calls(<<>>) /\ \A c : ~Has(<<>>, c)
    BY DEF Calls, Has
  <1>6. View.windows = windows
    BY DEF View
  <1>7. windows = Listing(tmux)
    BY <1>4, <1>5, <1>6 DEF Mirrors, ListOf
  <1>8. panes = Own(tmux)
    BY <1>1, <1>7, ListingIs
  <1> QED BY <1>1, <1>4, <1>7, <1>8

(* When all is quiet the Viewer and the native tabs mirror the session,    *)
(* whatever any of the actors did and however often.                       *)
THEOREM SessionsMirrored == Spec => []SessionMirrored
  <1>1. IInv /\ MirrorInv => SessionMirrored
    <2> SUFFICES ASSUME IInv, MirrorInv, Quiet
                 PROVE  /\ sessionId = tmux.session
                        /\ windows = Listing(tmux)
                        /\ tabs = Present(windows)
                        /\ active \in panes => tmux.active[WindowOf(tmux, active)] = active
                        /\ tmux.size = grid
      BY DEF SessionMirrored
    <2>1. Mirrors(View, tmux, <<>>, <<>>) /\ windows = Listing(tmux) /\ panes = Own(tmux)
      BY QuietView
    <2>2. View.id = sessionId /\ View.active = active
      BY DEF View
    <2>3. sessionId = tmux.session
      BY <2>1, <2>2 DEF Mirrors
    <2>4. active \in panes => tmux.active[WindowOf(tmux, active)] = active
      <3>1. \A c : ~Has(<<>>, c)
        BY DEF Has
      <3> QED BY <2>1, <2>2, <3>1 DEF Mirrors, ActiveOf
    <2>5. tabs = Present(windows)
      BY DEF MirrorInv, TabsInv, Quiet
    <2>6. tmux.size = grid
      <3>1. Pend = <<>>
        <4>1. Answers(<<>>) = {}
          BY DEF Answers
        <4> QED BY <4>1 DEF Pend, Waiting, Quiet
      <3>2. Declared(<<>>, tmux.size, grid)
        BY <3>1 DEF MirrorInv, SizeInv, Quiet
      <3>3. Refreshes(<<>>) = {}
        BY NothingAsked
      <3> QED BY <3>2, <3>3 DEF Declared
    <2> QED BY <2>1, <2>3, <2>4, <2>5, <2>6
  <1> QED BY <1>1, Mirrored, Invariance, PTL

(* When all is quiet every pane ends with what is on its screen in tmux,   *)
(* for any number of outputs between, before and after its captures.       *)
THEOREM ScreensCurrent == Spec => []ScreenCurrent
  <1>1. IInv /\ MirrorInv => ScreenCurrent
    <2> SUFFICES ASSUME IInv, MirrorInv, Quiet, NEW p \in panes
                 PROVE  IsSuffix(OnScreen(tmux, p), fed[p])
      BY DEF ScreenCurrent
    <2>1. Mirrors(View, tmux, <<>>, <<>>) /\ panes = Own(tmux) /\ tmux \in Server /\ TypeOK
          /\ windows = Listing(tmux)
      BY QuietView
    <2>2. View.windows = windows /\ View.fed = fed /\ View.new = {}
      BY DEF View
    <2>3. p \in Leaves(windows) \cap Own(tmux)
      BY <2>1, ListingIs
    <2>4. EndsWith(fed[p], tmux.printed[p])
      <3>1. \A c : ~Has(<<>>, c)
        BY DEF Has
      <3> QED BY <2>1, <2>2, <2>3, <3>1 DEF Mirrors, ScreensOf
    <2>5. p \in Panes /\ fed[p] \in Seq(Nat)
      BY <2>1 DEF TypeOK, Own, Server
    <2> QED BY <2>1, <2>4, <2>5, EndsSuffix
  <1> QED BY <1>1, Mirrored, Invariance, PTL

=============================================================================
