---------------------------- MODULE WriterThread ----------------------------
(***************************************************************************)
(* The io-writer loop of qwertty-term-termio (Thread in hub.rs): the       *)
(* dispatch of drained messages and the three timers, the 25ms resize      *)
(* coalescing, the 1s synchronized-output reset and the 200ms termios      *)
(* poll.  How messages get here is the business of Mailbox; here they are  *)
(* a queue that wakes the loop.                                            *)
(*                                                                         *)
(* A deadline is the number of clock ticks left, Unset when the timer is   *)
(* off.  Time passes (Tick) whether or not the loop runs, so a deadline    *)
(* can be overdue by any amount when the loop looks at it.                 *)
(***************************************************************************)
EXTENDS Integers, Sequences

CONSTANTS
    ResizeTicks,    \* RESIZE_COALESCE_MS in clock ticks
    SyncTicks,      \* SYNC_RESET_MS in clock ticks
    TermiosTicks,   \* TERMIOS_POLL_MS in clock ticks
    Sizes,          \* the window sizes posted, as numbers
    MaxPosts        \* bound: how many messages are posted

ASSUME TimerAssumption ==
    {ResizeTicks, SyncTicks, TermiosTicks} \subseteq Nat \ {0}
ASSUME WindowAssumption == Sizes \subseteq Nat /\ Sizes # {}
ASSUME PostAssumption == MaxPosts \in Nat

VARIABLES
    inbox,          \* the mailbox
    notified,       \* the poller was notified
    pc,             \* where the loop is
    batch,          \* drained messages still to be dispatched
    resizeLeft,     \* resize_deadline
    syncLeft,       \* sync_deadline
    termiosLeft,    \* termios_deadline
    pendingResize,  \* pending_resize
    linefeed,       \* linefeed_mode
    polling,        \* td.termios_timer_running
    termiosMode,    \* td.termios_mode, the mode of the last poll
    stopFlag,       \* the stop flag
    \* what the loop acts on
    ptyMode,        \* the line discipline's mode, set by the child
    winsize,        \* the pty's window size
    ptyInput,       \* what was written to the pty, message by message
    sync,           \* mode 2026 of the engine
    password,       \* what Notifier::password_input said last
    \* history
    posted,         \* the messages posted so far, in order
    lastResize,     \* the size of the last Resize dispatched
    sinceResize,    \* ticks since winsize changed, up to ResizeTicks
    sinceStart      \* ticks since a StartSynchronizedOutput was dispatched

inboxVars == <<inbox, notified, posted>>
timerVars == <<resizeLeft, syncLeft, termiosLeft, pendingResize>>
stateVars == <<linefeed, polling, termiosMode, stopFlag>>
worldVars == <<ptyMode, winsize, ptyInput, sync, password>>
historyVars == <<lastResize, sinceResize, sinceStart>>
hubVars == <<inbox, notified, posted, pc, batch, resizeLeft, syncLeft,
             termiosLeft, pendingResize, linefeed, polling, termiosMode, stopFlag,
             ptyMode, winsize, ptyInput, sync, password, lastResize, sinceResize,
             sinceStart>>

Unset == -1
Modes == {"echo", "raw", "password"}    \* password: canonical without echo

Message ==
    [type : {"write"}, value : 1 .. MaxPosts]
    \cup [type : {"resize"}, value : Sizes]
    \cup [type : {"linefeed", "focused"}, value : BOOLEAN]
    \cup [type : {"sync", "other"}, value : {Unset}]

-----------------------------------------------------------------------------
HubInit ==
    /\ inbox = <<>> /\ notified = FALSE /\ posted = <<>>
    /\ pc = "check" /\ batch = <<>>
    /\ resizeLeft = Unset /\ syncLeft = Unset /\ termiosLeft = TermiosTicks
    /\ pendingResize = Unset
    /\ linefeed = FALSE /\ polling = TRUE /\ termiosMode = "echo"
    /\ stopFlag = FALSE
    /\ ptyMode = "echo" /\ ptyInput = <<>> /\ sync = FALSE /\ password = FALSE
    /\ winsize \in Sizes
    /\ lastResize = winsize
    /\ sinceResize = ResizeTicks /\ sinceStart = SyncTicks

-----------------------------------------------------------------------------
(* The world around the loop.                                              *)

Enqueue(m) ==
    /\ Len(posted) < MaxPosts
    /\ posted' = Append(posted, m)
    /\ inbox' = Append(inbox, m)
    /\ notified' = TRUE

(* Somebody posts input, a resize, a focus change, StartSynchronizedOutput *)
(* (the tests of the hub do, the app does not), or a message the loop does *)
(* not handle.                                                             *)
Post ==
    /\ \E m \in Message :
         /\ m.type = "write" => m.value = Len(posted) + 1
         /\ Enqueue(m)
    /\ UNCHANGED <<pc, batch, timerVars, stateVars, worldVars, historyVars>>

(* The program in the terminal starts synchronized output.  The engine     *)
(* sets the mode and tells nobody.                                         *)
BeginSync ==
    /\ ~sync
    /\ sync' = TRUE
    /\ UNCHANGED <<inboxVars, pc, batch, timerVars, stateVars, ptyMode,
                   winsize, ptyInput, password, historyVars>>

EndSync ==
    /\ sync
    /\ sync' = FALSE
    /\ UNCHANGED <<inboxVars, pc, batch, timerVars, stateVars, ptyMode,
                   winsize, ptyInput, password, historyVars>>

(* The child changes the line discipline.                                  *)
SetPtyMode ==
    /\ ptyMode' \in Modes \ {ptyMode}
    /\ UNCHANGED <<inboxVars, pc, batch, timerVars, stateVars, winsize,
                   ptyInput, sync, password, historyVars>>

SetStop ==
    /\ ~stopFlag
    /\ stopFlag' = TRUE
    /\ notified' = TRUE
    /\ UNCHANGED <<inbox, posted, pc, batch, timerVars, linefeed, polling,
                   termiosMode, worldVars, historyVars>>

Elapse(left) == IF left > 0 THEN left - 1 ELSE left
Count(since, limit) == IF since < limit THEN since + 1 ELSE since

Tick ==
    /\ resizeLeft' = Elapse(resizeLeft)
    /\ syncLeft' = Elapse(syncLeft)
    /\ termiosLeft' = Elapse(termiosLeft)
    /\ sinceResize' = Count(sinceResize, ResizeTicks)
    /\ sinceStart' = Count(sinceStart, SyncTicks)
    /\ UNCHANGED <<inboxVars, pc, batch, pendingResize, stateVars, worldVars,
                   lastResize>>

-----------------------------------------------------------------------------
(* The loop.                                                               *)

CheckStop ==
    /\ pc \in {"check", "woken"}
    /\ pc' = IF stopFlag THEN "stopped" ELSE IF pc = "check" THEN "wait" ELSE "drain"
    /\ UNCHANGED <<inboxVars, batch, timerVars, stateVars, worldVars,
                   historyVars>>

(* poller.wait: until notified, or the nearest deadline is reached.        *)
Wake ==
    /\ pc = "wait"
    /\ notified \/ 0 \in {resizeLeft, syncLeft, termiosLeft}
    /\ notified' = FALSE
    /\ pc' = "woken"
    /\ UNCHANGED <<inbox, posted, batch, timerVars, stateVars, worldVars,
                   historyVars>>

Drain ==
    /\ pc = "drain"
    /\ batch' = inbox
    /\ inbox' = <<>>
    /\ pc' = "dispatch"
    /\ UNCHANGED <<notified, posted, timerVars, stateVars, worldVars,
                   historyVars>>

Dispatched ==
    IF batch = <<>>
      THEN pc' = "timers" /\ UNCHANGED batch
      ELSE batch' = Tail(batch) /\ UNCHANGED pc

Has(type) == batch # <<>> /\ Head(batch).type = type

(* Mutant of DispatchWrite: the bytes are written as they are.             *)
DispatchWriteRaw ==
    /\ Has("write")
    /\ ptyInput' = Append(ptyInput, [n |-> Head(batch).value, lf |-> FALSE])
    /\ UNCHANGED <<timerVars, stateVars, ptyMode, winsize, sync, password,
                   historyVars>>

(* queue_write: the whole message is written, "\r" translated in linefeed  *)
(* mode.                                                                   *)
DispatchWrite ==
    /\ Has("write")
    /\ ptyInput' = Append(ptyInput, [n |-> Head(batch).value, lf |-> linefeed])
    /\ UNCHANGED <<timerVars, stateVars, ptyMode, winsize, sync, password,
                   historyVars>>

(* Mutant of DispatchResize: the first size of a window is kept.           *)
DispatchResizeFirst ==
    /\ Has("resize")
    /\ pendingResize' = IF pendingResize = Unset THEN Head(batch).value
                                                ELSE pendingResize
    /\ lastResize' = Head(batch).value
    /\ resizeLeft' = IF resizeLeft = Unset THEN ResizeTicks ELSE resizeLeft
    /\ UNCHANGED <<syncLeft, termiosLeft, stateVars, worldVars, sinceResize,
                   sinceStart>>

(* A window that is open already is not restarted.                         *)
DispatchResize ==
    /\ Has("resize")
    /\ pendingResize' = Head(batch).value
    /\ lastResize' = Head(batch).value
    /\ resizeLeft' = IF resizeLeft = Unset THEN ResizeTicks ELSE resizeLeft
    /\ UNCHANGED <<syncLeft, termiosLeft, stateVars, worldVars, sinceResize,
                   sinceStart>>

DispatchLinefeed ==
    /\ Has("linefeed")
    /\ linefeed' = Head(batch).value
    /\ UNCHANGED <<timerVars, polling, termiosMode, stopFlag, worldVars,
                   historyVars>>

DispatchFocused ==
    /\ Has("focused")
    /\ polling' = Head(batch).value
    /\ UNCHANGED <<timerVars, linefeed, termiosMode, stopFlag, worldVars,
                   historyVars>>

(* Mutant of DispatchSync: a running reset timer is not restarted.         *)
DispatchSyncOnce ==
    /\ Has("sync")
    /\ syncLeft' = IF syncLeft = Unset THEN SyncTicks ELSE syncLeft
    /\ sinceStart' = 0
    /\ UNCHANGED <<resizeLeft, termiosLeft, pendingResize, stateVars,
                   worldVars, lastResize, sinceResize>>

(* Every start restarts the reset timer.                                   *)
DispatchSync ==
    /\ Has("sync")
    /\ syncLeft' = SyncTicks
    /\ sinceStart' = 0
    /\ UNCHANGED <<resizeLeft, termiosLeft, pendingResize, stateVars,
                   worldVars, lastResize, sinceResize>>

(* Nothing left to dispatch, or a message the loop ignores.                *)
DispatchOther ==
    /\ batch = <<>> \/ Has("other")
    /\ UNCHANGED <<timerVars, stateVars, worldVars, historyVars>>

Dispatch ==
    /\ pc = "dispatch"
    /\ Dispatched
    /\ \/ DispatchWrite \/ DispatchResize \/ DispatchLinefeed
       \/ DispatchFocused \/ DispatchSync \/ DispatchOther
    /\ UNCHANGED inboxVars

(* Mutant of FireResize: the size is dropped.                              *)
FireResizeDrops ==
    IF resizeLeft = 0
      THEN /\ resizeLeft' = Unset
           /\ pendingResize' = Unset
           /\ UNCHANGED <<winsize, sinceResize>>
      ELSE UNCHANGED <<resizeLeft, pendingResize, winsize, sinceResize>>

FireResize ==
    IF resizeLeft = 0
      THEN /\ resizeLeft' = Unset
           /\ pendingResize' = Unset
           /\ winsize' = IF pendingResize # Unset THEN pendingResize ELSE winsize
           /\ sinceResize' = IF winsize' # winsize THEN 0 ELSE sinceResize
      ELSE UNCHANGED <<resizeLeft, pendingResize, winsize, sinceResize>>

FireSync ==
    IF syncLeft = 0
      THEN syncLeft' = Unset /\ sync' = FALSE
      ELSE UNCHANGED <<syncLeft, sync>>

(* termios_tick looks at the pty whatever polling says, and its answer,    *)
(* whether to go on polling, is not looked at.                             *)
FireTermios ==
    IF termiosLeft = 0
      THEN /\ termiosLeft' = TermiosTicks
           /\ termiosMode' = ptyMode
           /\ password' = IF ptyMode # termiosMode THEN ptyMode = "password"
                                                   ELSE password
      ELSE UNCHANGED <<termiosLeft, termiosMode, password>>

FireTimers ==
    /\ pc = "timers"
    /\ FireResize
    /\ FireSync
    /\ FireTermios
    /\ pc' = "check"
    /\ UNCHANGED <<inboxVars, batch, linefeed, polling, stopFlag, ptyMode,
                   ptyInput, lastResize, sinceStart>>

-----------------------------------------------------------------------------
Loop == CheckStop \/ Wake \/ Drain \/ Dispatch \/ FireTimers

HubEnvironment == Post \/ BeginSync \/ EndSync \/ SetPtyMode \/ SetStop

HubNext == Loop \/ Tick \/ HubEnvironment

HubSpec == HubInit /\ [][HubNext]_hubVars

(* The loop keeps running and time goes on.                                *)
HubFairSpec == HubSpec /\ WF_hubVars(Loop) /\ WF_hubVars(Tick)

-----------------------------------------------------------------------------
(* Properties                                                              *)

(* The pty has the size of the last Resize message, or a timer is running  *)
(* that will give it that size: coalescing never drops the newest size.    *)
NewestSizeKept ==
    IF resizeLeft = Unset THEN pendingResize = Unset /\ winsize = lastResize
                         ELSE pendingResize = lastResize

(* No timer fires early.  The child sees at most one change of size per    *)
(* coalescing window, and mode 2026 is cleared a full second after its     *)
(* last start, however many starts came in between.                        *)
TimersNotEarly ==
    [][ /\ winsize' # winsize => sinceResize = ResizeTicks
        /\ syncLeft' # syncLeft /\ sync' # sync => sinceStart = SyncTicks ]_hubVars

(* Writes reach the pty in the order they were posted, each one in the     *)
(* linefeed mode that the last LinefeedMode posted before it asked for.    *)
PostedLinefeed(n) ==
    LET toggles == {i \in 1 .. n : posted[i].type = "linefeed"}
    IN  \E i \in toggles :
            posted[i].value /\ \A j \in toggles : j <= i

WritesAsPosted ==
    \A i \in DOMAIN ptyInput :
        /\ ptyInput[i].lf = PostedLinefeed(ptyInput[i].n)
        /\ i > 1 => ptyInput[i - 1].n < ptyInput[i].n

(* What the loop was asked for happens, unless the loop ends.  The newest  *)
(* size reaches the pty; while the surface has the focus, a password       *)
(* prompt that lasts is shown and one that is gone is hidden; once         *)
(* StartSynchronizedOutput is posted, synchronized output ends, whether    *)
(* the program ends it or not.                                             *)
SyncAsked ==
    syncLeft # Unset \/ \E i \in DOMAIN (batch \o inbox) : (batch \o inbox)[i].type = "sync"

LoopCatchesUp ==
    /\ \A s \in Sizes :
           lastResize = s ~> (winsize = s \/ lastResize # s \/ pc = "stopped")
    /\ \A m \in Modes :
           ptyMode = m /\ polling ~>
               (password = (m = "password") \/ ptyMode # m \/ ~polling \/ pc = "stopped")
    /\ SyncAsked ~> (~sync \/ pc = "stopped")

(* "Force-clear it so a wedged program can't freeze rendering" (hub.rs:69):*)
(* synchronized output ends although the program does not end it.          *)
SyncReleased == sync ~> (~sync \/ pc = "stopped")

=============================================================================
