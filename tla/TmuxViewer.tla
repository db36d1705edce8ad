----------------------------- MODULE TmuxViewer -----------------------------
(***************************************************************************)
(* tmux control mode: the Viewer (tmux_viewer.rs), the session driver      *)
(* around it (tmux_session.rs, pump_tmux in app.rs) and the application of *)
(* its plans to native tabs (apply_tmux_plan in app.rs), against a tmux    *)
(* server that other clients use too.                                      *)
(*                                                                         *)
(* Commands go to tmux, and replies and notifications come back, in order, *)
(* over one pty.  The Viewer keeps a queue of commands of which only the   *)
(* head is in flight, and takes each reply to answer that head: nothing in *)
(* a reply says what it answers.  Notifications are taken in batches: what *)
(* the Viewer asks for is written, and native tabs are reconciled, when    *)
(* the batch ends; the user acts between batches.                          *)
(***************************************************************************)
EXTENDS TmuxServer

CONSTANTS
    Budget,                     \* bound: how often each actor acts
    MaxActs                     \* bound: how often they act in all

Actors == {"user", "remote", "print", "switch"}

ASSUME BudgetAssumption == Budget \in [Actors -> Nat] /\ MaxActs \in Nat

VARIABLES
    \* the Viewer
    state,          \* State
    sessionId,      \* session_id
    queue,          \* command_queue
    windows,        \* windows: the layout of each, NoLayout when absent
    panes,          \* the ids in Viewer::panes
    fed,            \* what the terminal of each pane was fed
    active,         \* active_pane
    clientSize,     \* client_size
    lastRefresh,    \* last_refresh
    \* the driver and the native window
    batch,          \* a batch of notifications is being ingested
    commands,       \* SessionUpdate::commands
    changed,        \* windows_changed
    tabs,           \* the windows with a native tab, tmux_tabs[key]
    mapped,         \* tmux_tabs has an entry for this session
    grid,           \* the grid of the native window
    \* tmux and the pty
    tmux,           \* the server, see Server
    toTmux,         \* commands written and not yet executed
    fromTmux,       \* replies and notifications not yet taken
    \* bookkeeping
    raced,          \* the session changed while a command was in flight
    spent           \* how often each actor has acted

viewerVars == <<state, sessionId, queue, windows, panes, fed, active,
                clientSize, lastRefresh>>
driverVars == <<batch, commands, changed>>
nativeVars == <<tabs, mapped, grid>>
vars == <<viewerVars, driverVars, nativeVars, tmux, toTmux, fromTmux, raced,
          spent>>

-----------------------------------------------------------------------------
Init ==
    /\ state = "StartupBlock"
    /\ sessionId = None
    /\ queue = <<>>
    /\ windows = NoWindows
    /\ panes = {}
    /\ fed = [p \in Panes |-> <<>>]
    /\ active = None
    /\ grid \in Sizes
    /\ clientSize = grid
    /\ lastRefresh = None
    /\ batch = FALSE
    /\ commands = <<>>
    /\ changed = FALSE
    /\ tabs = {}
    /\ mapped = FALSE
    /\ tmux \in Attached
    /\ toTmux = <<>>
    /\ fromTmux = <<Block(Attach, Empty), Notify("session-changed", tmux.session)>>
    /\ raced = FALSE
    /\ spent = [a \in Actors |-> 0]

Acted == spent["user"] + spent["remote"] + spent["print"] + spent["switch"]

Spend(a) ==
    /\ spent[a] < Budget[a]
    /\ Acted < MaxActs
    /\ spent' = [spent EXCEPT ![a] = @ + 1]

-----------------------------------------------------------------------------
(* The Viewer's reducer.  A notification of one kind is taken from the pty *)
(* into the batch.                                                         *)

Taken(kind) ==
    /\ fromTmux # <<>>
    /\ Head(fromTmux).kind = kind
    /\ state # "Defunct"
    /\ fromTmux' = Tail(fromTmux)
    /\ batch' = TRUE
    /\ UNCHANGED <<nativeVars, tmux, toTmux, spent>>

(* Mutant of Advance: an idle queue does not count as a free slot.         *)
AdvanceOnReply(free, q) ==
    commands' = IF free /\ queue # <<>> /\ q # <<>>
                  THEN Append(commands, Head(q)) ELSE commands

(* The end of next_command: the head of the queue q is asked for when no   *)
(* command is in flight.                                                   *)
Advance(free, q) ==
    commands' = IF free /\ q # <<>> THEN Append(commands, Head(q)) ELSE commands

(* Mutant of Captures: the visible area before the history.                *)
CapturesSwapped(p) == <<Cmd("capture-visible", p), Cmd("capture-history", p),
                        Cmd("capture-visible-alternate", p),
                        Cmd("capture-history-alternate", p)>>

(* What is captured of a pane that is new.                                 *)
Captures(p) == <<Cmd("capture-history", p), Cmd("capture-visible", p),
                 Cmd("capture-history-alternate", p),
                 Cmd("capture-visible-alternate", p)>>

(* Four captures for each pane that is new, and one command for them all.  *)
CaptureAll(new) ==
    LET some == SetToSeq(new)
        captures == [i \in 1 .. 4 * Cardinality(new) |->
                       Captures(some[(i + 3) \div 4])[((i + 3) % 4) + 1]]
    IN  IF new = {} THEN <<>> ELSE Append(captures, PaneState)

(* sync_layouts: the panes become the leaves of ws; q is the queue so far. *)
SyncLayouts(ws, q) ==
    /\ windows' = ws
    /\ panes' = Leaves(ws)
    /\ fed' = [p \in Panes |-> IF p \in Leaves(ws) THEN fed[p] ELSE <<>>]
    /\ queue' = q \o CaptureAll(Leaves(ws) \ panes)
    /\ changed' = TRUE

(* Mutant of FeedPane: a pane that is not tracked gets a terminal.         *)
FeedAnyPane(p, s) == fed' = [fed EXCEPT ![p] = @ \o s]

FeedPane(p, s) ==
    fed' = IF p \in panes THEN [fed EXCEPT ![p] = @ \o s] ELSE fed

(* received_command_output.                                                *)
Answer(c, reply, rest) ==
    IF c = ListWindows /\ reply.type # "text"
      THEN SyncLayouts(IF reply.type = "windows" THEN reply.windows
                                                 ELSE NoWindows, rest)
      ELSE /\ UNCHANGED <<windows, panes, changed>>
           /\ IF c.op \in {"capture-history", "capture-visible"}
                THEN FeedPane(c.arg, Shows(reply))
                ELSE UNCHANGED fed
           /\ queue' = IF c.op \in {"kill-pane", "kill-window"}
                         THEN Append(rest, ListWindows) ELSE rest

TakeBlock ==
    /\ Taken("block")
    /\ state' = IF state = "StartupBlock" THEN "StartupSession" ELSE state
    /\ IF state = "CommandQueue" /\ queue # <<>>
         THEN /\ Answer(Head(queue), Head(fromTmux).reply, Tail(queue))
              /\ Advance(TRUE, queue')
         ELSE UNCHANGED <<queue, windows, panes, fed, commands, changed>>
    /\ UNCHANGED <<sessionId, active, clientSize, lastRefresh, raced>>

(* The startup commands, and the reset of session_changed in steady state. *)
TakeSessionChanged ==
    /\ Taken("session-changed")
    /\ IF state = "StartupBlock"
         THEN UNCHANGED <<viewerVars, commands, changed, raced>>
         ELSE /\ sessionId' = Head(fromTmux).arg
              /\ state' = "CommandQueue"
              /\ IF state = "StartupSession"
                   THEN /\ queue' = <<TmuxVersion, RefreshClient(clientSize),
                                      ListWindows>>
                        /\ lastRefresh' = clientSize
                        /\ UNCHANGED <<windows, panes, fed, active, clientSize,
                                       changed, raced>>
                   ELSE /\ queue' = <<ListWindows>>
                        /\ windows' = NoWindows
                        /\ panes' = {}
                        /\ fed' = [p \in Panes |-> <<>>]
                        /\ active' = None
                        /\ clientSize' = None
                        /\ lastRefresh' = None
                        /\ changed' = TRUE
                        /\ raced' = (raced \/ queue # <<>>)
              /\ Advance(TRUE, queue')

TakeLayoutChange ==
    /\ Taken("layout-change")
    /\ LET n == Head(fromTmux)
       IN  IF state = "CommandQueue" /\ windows[n.arg] # NoLayout
             THEN /\ SyncLayouts([windows EXCEPT ![n.arg] = n.layout], queue)
                  /\ Advance(queue = <<>>, queue')
             ELSE UNCHANGED <<windows, panes, fed, queue, changed, commands>>
    /\ UNCHANGED <<state, sessionId, active, clientSize, lastRefresh, raced>>

(* Mutant of TakeWindowChange: no refresh while a command is in flight.    *)
TakeWindowChangeWhenIdle ==
    /\ \E kind \in {"window-add", "window-close"} : Taken(kind)
    /\ IF state = "CommandQueue" /\ queue = <<>>
         THEN /\ queue' = Append(queue, ListWindows)
              /\ Advance(TRUE, queue')
         ELSE UNCHANGED <<queue, commands>>
    /\ UNCHANGED <<state, sessionId, windows, panes, fed, active, clientSize,
                   lastRefresh, changed, raced>>

(* %window-add, %window-close: the list of windows is asked for again.     *)
TakeWindowChange ==
    /\ \E kind \in {"window-add", "window-close"} : Taken(kind)
    /\ IF state = "CommandQueue"
         THEN /\ queue' = Append(queue, ListWindows)
              /\ Advance(queue = <<>>, queue')
         ELSE UNCHANGED <<queue, commands>>
    /\ UNCHANGED <<state, sessionId, windows, panes, fed, active, clientSize,
                   lastRefresh, changed, raced>>

TakePaneChanged ==
    /\ Taken("pane-changed")
    /\ active' = IF state = "CommandQueue" THEN Head(fromTmux).arg ELSE active
    /\ UNCHANGED <<state, sessionId, queue, windows, panes, fed, clientSize,
                   lastRefresh, commands, changed, raced>>

TakeOutput ==
    /\ Taken("output")
    /\ IF state = "CommandQueue"
         THEN FeedPane(Head(fromTmux).arg, <<Head(fromTmux).data>>)
         ELSE UNCHANGED fed
    /\ UNCHANGED <<state, sessionId, queue, windows, panes, active, clientSize,
                   lastRefresh, commands, changed, raced>>

TakeExit ==
    /\ Taken("exit")
    /\ state' = "Defunct"
    /\ UNCHANGED <<sessionId, queue, windows, panes, fed, active, clientSize,
                   lastRefresh, commands, changed, raced>>

TakeNotification ==
    \/ TakeBlock
    \/ TakeSessionChanged
    \/ TakeLayoutChange
    \/ TakeWindowChange
    \/ TakePaneChanged
    \/ TakeOutput
    \/ TakeExit

-----------------------------------------------------------------------------
(* The driver and the user.                                                *)

(* Mutant of EnqueueWrite: written at once, whatever is in flight.         *)
EnqueueWriteThrough(c, pty) ==
    /\ queue' = Append(queue, c)
    /\ toTmux' = Append(pty, c)

(* enqueue_write, and the bytes it returns written to the pty.             *)
EnqueueWrite(c, pty) ==
    /\ queue' = Append(queue, c)
    /\ toTmux' = IF queue = <<>> THEN Append(pty, c) ELSE pty

(* The end of ingest and of pump_tmux, and apply_tmux_plan: the client is  *)
(* detached when tabs existed and none is left.                            *)
EndBatch ==
    /\ batch
    /\ batch' = FALSE
    /\ commands' = <<>>
    /\ changed' = FALSE
    /\ IF state = "Defunct"
         THEN /\ tabs' = {}
              /\ mapped' = FALSE
              /\ UNCHANGED <<queue, toTmux>>
         ELSE /\ tabs' = IF changed THEN Present(windows) ELSE tabs
              /\ mapped' = (mapped \/ tabs' # {})
              /\ IF changed /\ mapped /\ tabs' = {}
                   THEN EnqueueWrite(DetachClient, toTmux \o commands)
                   ELSE /\ toTmux' = toTmux \o commands
                        /\ UNCHANGED queue
    /\ UNCHANGED <<state, sessionId, windows, panes, fed, active, clientSize,
                   lastRefresh, grid, tmux, fromTmux, raced>>
    /\ UNCHANGED spent

(* The user acts on a native tab of the session.                           *)
Acts ==
    /\ ~batch
    /\ state = "CommandQueue"
    /\ tabs # {}
    /\ Spend("user")
    /\ UNCHANGED <<state, sessionId, windows, panes, fed, driverVars, tabs,
                   mapped, tmux, fromTmux, raced>>

WriteToPane(op, p) ==
    /\ Acts
    /\ p \in panes
    /\ EnqueueWrite(Cmd(op, p), toTmux)
    /\ UNCHANGED <<active, clientSize, lastRefresh, grid>>

NewWindow ==
    /\ Acts
    /\ EnqueueWrite(Cmd("new-window", None), toTmux)
    /\ UNCHANGED <<active, clientSize, lastRefresh, grid>>

KillWindow(w) ==
    /\ Acts
    /\ w \in tabs
    /\ w \in Present(windows)
    /\ EnqueueWrite(Cmd("kill-window", w), toTmux)
    /\ UNCHANGED <<active, clientSize, lastRefresh, grid>>

SelectPane(p) ==
    /\ Acts
    /\ p \in panes
    /\ active # p
    /\ active' = p
    /\ EnqueueWrite(Cmd("select-pane", p), toTmux)
    /\ UNCHANGED <<clientSize, lastRefresh, grid>>

(* The window is resized; refresh_client drops a size already declared.    *)
Resize(z) ==
    /\ Acts
    /\ grid' = z
    /\ clientSize' = z
    /\ IF lastRefresh = z
         THEN UNCHANGED <<queue, toTmux, lastRefresh>>
         ELSE /\ lastRefresh' = z
              /\ EnqueueWrite(RefreshClient(z), toTmux)
    /\ UNCHANGED active

User ==
    \/ \E op \in PaneWrites, p \in Panes : WriteToPane(op, p)
    \/ NewWindow
    \/ \E w \in Windows : KillWindow(w)
    \/ \E p \in Panes : SelectPane(p)
    \/ \E z \in Sizes : Resize(z)

-----------------------------------------------------------------------------
(* tmux.                                                                   *)

Serves ==
    /\ tmux.alive
    /\ UNCHANGED <<viewerVars, driverVars, nativeVars, raced>>

Execute ==
    /\ Serves
    /\ toTmux # <<>>
    /\ toTmux' = Tail(toTmux)
    /\ \E o \in Effects(tmux, Head(toTmux)) :
         /\ tmux' = o.tmux
         /\ fromTmux' = fromTmux \o <<Block(Head(toTmux), o.reply)>> \o o.notes
    /\ UNCHANGED spent

Remote ==
    /\ Serves
    /\ Spend("remote")
    /\ \E o \in RemoteEffects(tmux) :
         /\ tmux' = o.tmux
         /\ fromTmux' = fromTmux \o o.notes
    /\ UNCHANGED toTmux

PrintOutput(p) ==
    /\ Serves
    /\ Alive(tmux, p)
    /\ Spend("print")
    /\ tmux' = [tmux EXCEPT !.printed[p] = @ + 1]
    /\ fromTmux' = fromTmux \o Tell(tmux, Place(tmux, p)[1],
                                    <<Output(p, tmux.printed[p] + 1)>>)
    /\ UNCHANGED toTmux

Switch(s) ==
    /\ Serves
    /\ s # tmux.session
    /\ \E w \in Windows : tmux.tree[s][w] # {}
    /\ Spend("switch")
    /\ tmux' = [tmux EXCEPT !.session = s]
    /\ fromTmux' = Append(fromTmux, Notify("session-changed", s))
    /\ UNCHANGED toTmux

Next ==
    \/ TakeNotification
    \/ EndBatch
    \/ User
    \/ Execute
    \/ Remote
    \/ \E p \in Panes : PrintOutput(p)
    \/ \E s \in Sessions : Switch(s)

Spec == Init /\ [][Next]_vars

(* The application's tick drains the pty and ends its batch, and tmux      *)
(* executes what it is sent.  Nothing obliges the user or other clients.   *)
FairSpec ==
    /\ Spec
    /\ WF_vars(TakeNotification)
    /\ WF_vars(EndBatch)
    /\ WF_vars(Execute)

-----------------------------------------------------------------------------
(* Types, and that the panes are the leaves of the layouts and no others   *)
(* have a terminal (sync_layouts).                                         *)
TypeOK ==
    /\ state \in {"StartupBlock", "StartupSession", "CommandQueue", "Defunct"}
    /\ sessionId \in Sessions \cup {None}
    /\ queue \in Seq(Command)
    /\ windows \in [Windows -> Layout]
    /\ panes = Leaves(windows)
    /\ fed \in [Panes -> Seq(Nat)]
    /\ \A p \in Panes \ panes : fed[p] = <<>>
    /\ active \in Panes \cup {None}
    /\ clientSize \in Sizes \cup {None}
    /\ lastRefresh \in Sizes \cup {None}
    /\ batch \in BOOLEAN
    /\ commands \in Seq(Command)
    /\ changed \in BOOLEAN
    /\ tabs \subseteq Windows
    /\ mapped \in BOOLEAN
    /\ grid \in Sizes
    /\ tmux \in Server
    /\ toTmux \in Seq(Command)
    /\ fromTmux \in Seq(Notification)
    /\ raced \in BOOLEAN
    /\ spent \in [Actors -> Nat]

IsReply(n) == n.kind = "block" /\ n.of # Attach
Replies == {i \in DOMAIN fromTmux : IsReply(fromTmux[i])}

(* In steady state one command is in flight, the head of the queue, and it *)
(* is in one place only: about to be written, written, or answered.  The   *)
(* reply the Viewer takes next is therefore the reply to that head.  Only  *)
(* a session change that overtakes a reply breaks this.                    *)
OneInFlight ==
    state = "CommandQueue" /\ ~raced =>
        IF queue = <<>>
          THEN commands = <<>> /\ toTmux = <<>> /\ Replies = {}
          ELSE \/ commands = <<Head(queue)>> /\ toTmux = <<>> /\ Replies = {}
               \/ commands = <<>> /\ toTmux = <<Head(queue)>> /\ Replies = {}
               \/ /\ commands = <<>> /\ toTmux = <<>>
                  /\ \E i \in DOMAIN fromTmux :
                       Replies = {i} /\ fromTmux[i].of = Head(queue)

(* Everything said has been heard, and nothing is left to ask.             *)
Quiet ==
    /\ state = "CommandQueue" /\ queue = <<>> /\ ~batch
    /\ toTmux = <<>> /\ fromTmux = <<>>
    /\ ~raced

(* When all is quiet the Viewer and the native tabs mirror the session: no *)
(* window, pane or size that tmux changed meanwhile has been missed; the   *)
(* pane taken for active, which the Viewer also sets ahead of tmux and     *)
(* which keeps it from selecting a pane twice, is active in its window;    *)
(* and tmux has the size of the native window, although sizes are dropped  *)
(* as repeats and wait behind other commands.                              *)
SessionMirrored ==
    Quiet => /\ sessionId = tmux.session
             /\ windows = Listing(tmux)
             /\ tabs = Present(windows)
             /\ active \in panes => tmux.active[WindowOf(tmux, active)] = active
             /\ tmux.size = grid

(* When all is quiet every pane ends with what is on its screen in tmux,   *)
(* however output was interleaved with the captures of the pane.           *)
ScreenCurrent ==
    Quiet => \A p \in panes : IsSuffix(OnScreen(tmux, p), fed[p])

(* Nobody acting, the queue of commands drains or tmux exits.              *)
CommandsDrain ==
    state = "CommandQueue" ~> (queue = <<>> \/ state = "Defunct")

-----------------------------------------------------------------------------
(* "Only one command is in flight at a time (the head of the queue), so    *)
(* responses correlate unambiguously" (tmux_viewer.rs, Command).           *)
RepliesCorrelate ==
    state = "CommandQueue" /\ queue # <<>> /\ fromTmux # <<>>
    /\ IsReply(Head(fromTmux)) => Head(fromTmux).of = Head(queue)

=============================================================================
