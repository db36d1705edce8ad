# A TLA+ model of qwertty-term

This directory models the parts of qwertty-term whose correctness depends on the
order in which things happen, checks the models with TLC on small instances and
proves part of what they claim with TLAPS for every value of the constants.
The section "Plan" says what comes next.

## 1. The system and its parts

qwertty-term is a terminal emulator: a child process on a pty, an engine that
interprets what it writes, and a user interface that draws the result and sends
input back.

| Part | Where | State | Operations | Talks to |
|---|---|---|---|---|
| mailbox | `qwertty-term-termio/src/mailbox.rs` | a queue of at most 64 messages, a condvar | `try_send`, `send`, `send_with_unlock`, `drain` | every thread that posts; the writer loop through a waker |
| writer loop | `.../hub.rs` | linefeed mode, three deadlines, the size to apply | `run`, `dispatch`, `fire_timers`, `shutdown` | mailbox, pty, engine lock, `Notifier` |
| read pipeline | `.../exec.rs` 650-1138 | a ring of 4 buffers of 64 KiB, two condvars, a self-pipe | io-gather (`gather_main`), io-reader (`reader_main`) | pty master, quit pipe, the sink (the engine) |
| child lifecycle | `.../exec.rs` 314-601, 1148-1484 | pid, exited flag, quit pipe | `thread_enter`, `thread_exit`, `stop`, `kill_pid`, exit watcher, `queue_write` | the kernel, `Notifier`, writer loop |
| app surface | `qwertty-term/src/app.rs`, `termio.rs` | engine behind a lock, an event channel | `pump`, `settle_dead`, key and mouse handlers | hub, engine, renderer |
| tmux viewer | `qwertty-term/src/tmux_viewer.rs`, `tmux_session.rs`, `tmux_reconcile.rs` | viewer state, command queue, windows and panes, native tabs | `next` with one handler per notification, one write per user action, `ingest`, `apply_tmux_plan` | an external tmux server |
| splits, tabs, quick terminal | `qwertty-term/src/splits.rs`, ... | trees and lists of surfaces | split, close, focus, zoom | app |
| VT engine | `qwertty-term-vt/src` | parser state, screens, page list, styles | `next` per byte, one handler per sequence | surface, renderer snapshot |
| page storage | `.../page/` | ref-counted sets, offset maps, bitmap allocator | add, use, release; insert, remove; alloc, free | page list |
| renderer | `qwertty-term-renderer/src` | swap chain of N frame slots, cell caches | `next_frame`, release, present, deinit | GPU completion callback |
| font, sprite, input | their crates | caches | pure functions | renderer, app |

Four threads belong to each surface: io-writer (the loop), io-reader and
io-gather (the pipeline), io-exit (the watcher). The app's main thread posts to
the mailbox and joins io-writer at the end. They share: the mailbox mutex, the
pipeline's metadata mutex, the engine lock (sink, sync reset, app), two atomic
flags (`stop`, `exited`) and four pipes or ptys.

What is hard, part by part:

* mailbox: three kinds of wakeup (poller, condvar, lock hand-over), each sent
  outside the critical section it belongs to; deadlock of a blocked sender with
  a loop that wants the sender's lock;
* writer loop: a message that arrives while a timer is running;
* pipeline: unlocked buffers handed over by ring arithmetic; two signals sent
  after the unlock; a wake byte that arrives after the poll it was meant for;
  a hangup together with the last output;
* lifecycle: two threads reap one child; a pid checked and then used; a teardown
  that joins threads which wait for the child;
* tmux viewer: replies matched with commands by order only, while the server can
  switch the session in between;
* page storage: reference counts and offsets that a long sequence of legal calls
  must keep consistent; capacity limits;
* page list: pins and a cached scroll offset into pages that are pruned, split,
  enlarged, rotated and erased under them;
* terminal: wide characters that margins, insertions and scrolling cut; text
  printed in batches that must come out as if printed one by one;
* parser and stream: input cut into chunks anywhere, and five fast paths that
  must agree with the state machine, byte by byte;
* swap chain: completion callbacks that race a resize or a shutdown.

`PROJECT.json` lists these hazards one by one, each at its line, with the
properties that would show it going wrong.

What makes each part correct: sections 3 to 11 for the modelled ones, "Plan" for
the others.

## 2. Modules

| Module | What it is |
|---|---|
| `MessageChannel` | what a mailbox promises: accept while there is room, take everything, in order |
| `Mailbox` | the mailbox, its producers, the loop as its consumer and the engine lock |
| `ReadPipeline` | io-gather, io-reader, the kernel's side of the pty, quit and hangup |
| `WriterThread` | dispatch and timers of the loop, on a clock |
| `ExecLifecycle` | shutdown, teardown, watcher and child processes |
| `TmuxServer` | what a tmux server and its control-mode client say to each other, and the external server |
| `TmuxViewer` | the Viewer, its driver and the native tabs, against that server |
| `Terminal` | the grid of cells: printing, moving, scrolling, inserting, deleting, erasing, margins, modes, two screens |
| `RefCountedSet` | the ref-counted, deduplicating set of a page, as operators on a record |
| `PageStyles` | the cells of a page and the cursor as users of that set |
| `PageList` | pages, scrollback, tracked pins and the viewport |
| `VtParser` | parse table, registers, UTF-8 decoder and DCS handler, one byte at a time |
| `VtStream` | `Stream::feed` with its fast paths, against `VtParser` |
| `MailboxProofs` | proofs about `Mailbox`, its refinement of `MessageChannel` included |
| `TermioProofs` | proofs about the threads of a surface: `ReadPipeline`, `ExecLifecycle` and `WriterThread` |
| `TmuxViewerProofs` | proofs about `TmuxServer` and `TmuxViewer` |
| `VtStreamProofs` | proofs about `VtParser` and `VtStream` |
| `TerminalProofs` | proofs about `Terminal` |
| `PageStylesProofs` | proofs about `RefCountedSet` and `PageStyles` |
| `PageListProofs` | proofs about `PageList` |
| `FoldFacts` | what a fold over a sequence does, for any step: the induction the other proofs instantiate |
| `MC...` | instances for TLC, one per module |
| `MCThreads`, `MCSession`, `MCScreen`, `MCPages` | runs of two or three instances that share nothing |

The modules meet at narrow places. `Mailbox` has the loop as far as its locks and
wakeups matter, `WriterThread` has the same loop as far as its messages and
timers matter and takes from the mailbox that a posted message is in a queue and
wakes the loop. `ExecLifecycle` takes the pipeline as "running or done", which
is what `NoStageStuck` in `ReadPipeline` justifies. In every module a
critical section of a mutex is one step and everything between two critical
sections (system calls, signals, lock acquisitions that can block) is a step of
its own. A definition whose comment calls it a mutant is a plausible bug in the
definition that follows it; it is in no specification and serves to show that a
property notices.

The modules of the engine (`Terminal`, `PageStyles`, `PageList`, `VtParser`,
`VtStream`) are sequential: one thread has the engine lock. They write each
operation as an operator from the state before to the state after, so that two
ways to the same result can be compared in one formula (batch and single prints,
`feed` and `next`), and each action applies one operation whole.

Two kinds of runs. A passing run checks what must hold. A run that expects a
violation checks one sentence of the repository that the code does not keep, and
is reported as a finding; the property of the passing run that is nearest to it
then names the same case as an exception, in the formula, and holds for all the
others. The eight findings:

| Run | Property | What the code does |
|---|---|---|
| `writer_sync` | `SyncReleased` | section 5 |
| `pipeline_hangup` | `HangupLosesNothing` | section 4 |
| `tmux_replies` | `RepliesCorrelate` | section 7 |
| `terminal_slice` | `SliceIsPrint` | section 8 |
| `styles_clone` | `CloneSucceeds` | section 9 |
| `pagelist_pins` | `PinsAlwaysFollow` | section 9 |
| `pagelist_serials` | `SerialsValid` | section 9 |
| `stream_digits` | `FeedIsNext` | section 10 |

The passing runs put models that share nothing side by side: `threads` is
`WriterThread` and `ExecLifecycle`, `session` is `TmuxViewer` and `ReadPipeline`,
`screen` is `Terminal`, `Mailbox` and `PageStyles`, `pages` is `VtStream` and
`PageList`. A variable `model` is chosen at the start; that model moves and the
others stay in one initial state, so the states of such a run are the sum of
the states of its models, not their product, and what it checks of each is what a
run of that model alone would. Each fairness condition is restated for the steps
of its model and is owed only where that model moves. Where a model's initial
states differ only by names (two window sizes, of which either may be first), the
run has one of them.

## 3. Mailbox

State: `queue` and `notFull` are `Inner`; `notified` is what `Poller::notify`
leaves for the next `wait`; `engine` is the lock of the engine, taken by callers
of `send_with_unlock` and by `on_sync_reset`. `pc` and `cpc` are program
counters, `log` is what was dispatched.

Actions: `Begin`, `Push`, `Refused`, `Wake` are `Writer::send`; with `DropHeld`,
`AwaitRoom`, `PushSlow`, `Relock`, `HandBack` they are `send_with_unlock`.
`CheckStop`, `WaitReturns`, `Drain`, `SignalRoom`, `Dispatch`, `FireTimers`,
`LockEngine`, `UnlockEngine` are one turn of `Thread::run`. The wait may return
at any time, since the 200ms termios timer is always armed; so the safety
property `NoLostWakeup` says that a wakeup is on its way, not that the loop
wakes up in the end, which the timer would hide.

Properties: `NoLostWakeup`, `NoLostSignal`, `LockHandedBack`, the refinement
`ChannelSpec`, and with fairness `NobodyStuck`: a sender inside
`send_with_unlock` comes out again unless the loop ends, and the loop gets the
engine lock it waits for. The mapping to `MessageChannel`: what is in `log`, `batch`
and `queue` has been accepted, what is in `log` and `batch` has been taken.

Run: `screen` has the mailbox with capacity 1, one non-blocking and two blocking senders, one of
which posts twice: enough for two waiters on one slot, for one of them to be
overtaken by another thread after the signal, and for a sender to come back. The
mutant that signals one waiter instead of all needs exactly the two. Fairness is
weak and per thread: the operating system runs each thread; nobody is obliged to
post. A lock is granted by weak fairness because a holder that waits for it again
lets the others in in between: with a bounded number of posts nobody holds it
infinitely often.

## 4. Read pipeline

State: `meta`, `bufs` are `Pipeline`; `waiting` are the stages asleep on their
condvar; `idlePipe` counts the bytes in the parse-idle self-pipe. The kernel has
`written - taken` bytes to read. Bytes are numbered, so order and loss can be
seen in `delivered`.

Actions of io-gather: claim, read (any number of bytes the kernel has and the
buffer takes), end of file, `EAGAIN` with its threshold, spin and bridge,
publish, signal, outer poll, the drop of `DoneGuard`. Of io-reader: claim,
length, sink, advance, signal, wake byte, join. Both polls can be interrupted by
a signal. The 3ms budget is a choice: it may be used up at any time after the
first bridge; `GatherBridge` may return with nothing, the 1ms timeout.

Properties: `NoSharedBuffer`, `DeliveredInOrder`, `NothingLeftBehind`,
`NoLostSignal`, `IdlePipeBounded`, and with fairness `NoStageStuck`: a quit ends
both stages, and output reaches the sink.

Run: `session` has the pipeline with 3 buffers of 2 bytes, a threshold of 1, a kernel queue of 2,
5 bytes of output and one interrupted poll, so a buffer takes one read or two, a
stream can be saturated or not, and the ring wraps, fills and runs empty. The
bound of `IdlePipeBounded` is reached; TLC has also confirmed it with 14 bytes
of output and two buffers. `NoStageStuck` excepts quit, hangup and an ended
gather: a hangup does lose output, which is the finding below. Fairness: both
threads keep running, the child owes nothing.

Finding (`pipeline_hangup`): the outer poll returns on `POLLHUP` without looking
at `POLLIN`. On Linux both are set when the child writes and exits before the
poll, so its last output is lost.

## 5. Writer loop

State: the fields of `Thread`, `td.termios_mode` and `td.termios_timer_running`,
and the outside world the loop acts on: window size, pty input, mode 2026,
password prompt. A deadline is a number of ticks left; `Tick` may happen between
any two steps, so a timer can be late by any amount but never early.

Properties: `NewestSizeKept` (coalescing loses no size), `TimersNotEarly` (the
child sees one change of size per window, and mode 2026 is cleared a full period
after its last start), `WritesAsPosted`, and with fairness of the loop and of
time `LoopCatchesUp`: the newest size arrives, a prompt that lasts is shown and
hidden again while the surface has the focus, and once `StartSynchronizedOutput`
is posted synchronized output ends.

Run: `threads` has the loop with two posts, two sizes, a resize window and a termios period of
one tick and a synchronized-output timer of two; this is enough for a resize
inside an open window or right after it, a write after a change of mode, and a
second start of synchronized output half way through the first one's timer.
Anybody may post `StartSynchronizedOutput`, as the tests of the hub do
(termio/tests/hub.rs:252), or not, as the app.

Finding (`writer_sync`): mode 2026 is set in the engine, and the app posts nothing
when it is, so the timer is never armed and a program that sets the mode and stops
keeps the screen frozen. hub.rs:69 says of the timer that it is there to
"force-clear it so a wedged program can't freeze rendering", as do
docs/analysis/termio-hub.md (sections 2 and 4) and qwertty-term/src/termio.rs:78;
docs/analysis/stream-handler-delta.md:97 lists the timer as missing. So
`LoopCatchesUp` speaks of a start that was posted (`SyncAsked`), and `SyncReleased`,
which does not, is expected to fail.

Remark: hub.rs:309 and exec.rs:1428 say that a change of focus starts and stops the
poll of the pty's mode. It does not stop it: `FireTermios` polls whatever `polling`
says, as `fire_timers` ignores what `termios_tick` returns. `LoopCatchesUp` asks for
prompts only of a surface that has the focus, which is what those lines promise.

## 6. Child lifecycle

State: the stop flag, `pid` of `Subprocess`, the watcher and its `exited` flag,
the quit pipe, and the processes: the child (forked, running after `setsid`,
zombie, reaped), one helper it may start in its own process group or in another,
and a stranger that may get the pid once the kernel has it back.

The constant `Misbehaviour` says what the processes do that a polite shell does
not: ignore SIGHUP, leave a helper behind that does, never read input, never
get to `setsid`, or take another user's id, so that `killpg` may be refused
(`EPERM`). Each behaviour starts with a choice of these habits and keeps
it; `threads` ranges over all 32 choices. `Macos` is the platform: there `kill_pid`
ignores a refusal and goes on to `waitpid`, elsewhere any error of `killpg` ends its
loop with the child as it is, alive or not. A refused signal may have reached nobody
or, when some of the group may be signalled, those. The run has `Macos = FALSE`, where
the loop has one more way out; the proofs are for both.

Fairness: the threads run; a child that is not stuck gets to `setsid`, one that
does not ignore SIGHUP dies of it, one that reads goes on reading, helpers end.
The child need not exit by itself. The exit from the loop is strongly fair
because the loop looks at the stop flag between any two batches, however many
writes come.

Properties: `ChildGoneBeforeQuit`, the child is reaped before the quit byte is
written, but for a child stuck before its `setsid` and, off macOS, one that took an
identity the terminal may not signal: those are the two ways in which `stop` gives
up on a child that lives, and the quit byte then goes out all the same.
`NothingLeftRunning` holds whatever the processes do, and `TeardownCompletes`:
shutdown returns when they behave, and an exit of the child is reported in any
case.

Remarks on what the model reaches and nothing in the repository rules out: the
watcher reports code 0 for a child that `kill_pid` reaped; between the watcher's
`waitpid` and its store of the flag, `stop` signals a stale pid, which the kernel
may have given to a stranger. Why `TeardownCompletes` asks for processes that
behave: `kill_pid` repeats while the child ignores SIGHUP; a child stuck before
`setsid` is given up by `getpgid_of` but then waited for by the watcher; and one
that does not read keeps io-writer in `write_all_fd`, where nothing looks at the
stop flag.

## 7. tmux control mode

With `tmux -CC` a pty carries commands to tmux one way and, in order, replies and
notifications the other way. The `Viewer` is a reducer over notifications;
`TmuxSession::ingest` feeds it a batch of them; `pump_tmux` writes what it asks
for; `apply_tmux_plan` brings the native tabs in line.

State: the fields of `Viewer` (`state`, `sessionId`, `queue`, `windows`, `panes`,
`fed` for the panes' terminals, `active`, `clientSize`, `lastRefresh`), the batch
(`commands`, `changed`), `tabs`, and on the other side `tmux`, `toTmux`,
`fromTmux`. A layout is the set of its panes and its size; a pane's terminal is
the sequence of numbered outputs it was fed. `mapped` says that `tmux_tabs` has
an entry, which is how the app tells "no window yet" from "no window any more".

Actions: one per kind of notification (`TakeBlock`, `TakeSessionChanged`,
`TakeLayoutChange`, `TakeWindowChange`, `TakePaneChanged`, `TakeOutput`,
`TakeExit`), each the reducer's handler with the sending of the next command at
its end; `EndBatch`, the rest of `ingest`, `pump_tmux` and `apply_tmux_plan`; one
per write of the user (`WriteToPane`, `NewWindow`, `KillWindow`, `SelectPane`,
`Resize`), only between batches since the app's main thread does both. A batch may
end after any notification, so every division of the stream into batches is a
behaviour. tmux executes commands in order (`Execute`); at any moment another
client may open, split, close or select something (`Remote`), a program may print
(`PrintOutput`), the client may be moved to another session (`Switch`). The end
of the last window of a session ends control mode, or moves the client,
depending on `detach-on-destroy`.

Properties: `OneInFlight` is what matching by order depends on: the head of the
queue, and no other command, is in exactly one place between the batch and the
reply. `SessionMirrored` and `ScreenCurrent` say
that when all that was said has been heard, windows, panes, tabs, screens, active
pane and size agree with tmux, whatever was interleaved on the way. They are
claims about quiescence, and `CommandsDrain` shows that it is reached: with the
app draining its pty and tmux executing commands, the queue empties or tmux
exits. Nobody is obliged to act.

The bookkeeping variable `raced` marks behaviours in which the session changed
while a command was in flight. In them the match is lost for good, so
`OneInFlight` and the claims about quiescence except them; `CommandsDrain` does
not.

Run: `session` has the viewer with two sessions of a window each, one more window and pane that may
be created, two sizes, a screen of one output (so that a second output scrolls
the first one out between two captures) and three acts, of which the user takes
at most two. Three acts are enough for a write behind a write in flight with a
change by another client in between, and for an output between each two
captures. A resize of the hidden control surface before there is a tab is not an
act: the first layout of the new tab declares the size again.

Finding (`tmux_replies`): a reply that a session change overtakes is taken for
the new session's window list. Remarks: the moment without windows at a session
change is taken for the end of the last window, and the client is detached; a
detached client mirrors nothing, so `SessionMirrored` is silent then. Output that
arrives before the captures of its pane are answered is in the pane twice;
`ScreenCurrent` shows that the screen comes out right all the same.

## 8. Terminal

State: `screens`, the primary and the alternate one (or none yet), each with its
rows of cells, cursor, pending wrap and saved cursor; `active`, `region` (the
margins) and `modes`, which both screens share. A cell is the character it
shows, whether it is half of a wide one or the filler a wide one leaves at the
end of a row, and whether it is protected. `entered` remembers the primary screen
at the last entry of mode 1049.

Actions: the runs of text the stream hands over (`PrintRun` is `print_slice`,
`PrintSlow` prints them one by one), cursor movement, index and reverse index,
scrolling and insertion and deletion of lines, of characters, erasing, margins,
modes, protection, saved cursor, the three alternate screen modes, DECALN, reset.

Properties: `ScreenIntact` (the cursor and the margins are in the grid, no
operation cuts a wide character in two), `SliceMatchesPrint` (every batch leaves
the screen that printing one by one leaves, but for the case of the finding), `DeleteUndoesInsert`,
`ScrollKeepsOutside` (nothing outside the margins moves), `Leave1049Restores`.

Run: `screen` has terminals that start from five screens (plain, in insert mode, with left and
right margins, in origin mode with margins, with reverse wrap) of three lines and
four columns, with text on them that wraps and has wide characters at a margin,
and lets any operations follow up to its bound. Three lines are the least with
a line outside the margins at either end, four columns the least with a wide
character on each side of a margin. The left and right margins that may be set
are three columns wide, at either side, or two in the middle.

Finding (`terminal_slice`): after a wrap `print_slice_fill` looks at the right limit
again (print.rs:298) while `print` keeps the one it began with (print.rs:29), so text
that is printed from the right of the right margin goes on differently on the next
row, which print.rs:118 says it does not ("semantically identical"). It shows where a
wide character meets margins that are two columns wide: that is the one case
`SliceMatchesPrint` leaves out and `SliceIsPrint` does not.

Remark: a row that scrolls out at the top of a region comes back at
its bottom cleared, with the wrap flags of its old contents.

## 9. Page storage

`RefCountedSet` has the table of ids in Robin Hood order, the items (value,
bucket, distance from home, count), the statistics of distances and `nextId`, and
as operators `lookup`, `add`, `add_with_id`, `insert`, `use`, `release`,
`delete_item`. The probe loop of `insert` is a fold of one turn (`Probe`) over the
distances from the value's home; it carries the item it holds and the id it has
chosen. A set may have no capacity at all, as a compacted page has: nothing is
found in it and the first addition enlarges it. `PageStyles` adds the users:
`ManualStyleUpdate` with the retry after a rehash and the
enlargement of the page, for which `Cloned` adds the style of every cell to a new
set, cell by cell (`CopyOn`). When the retry fails too the callers go back:
`SetAttribute` to the style before, and to none if that cannot be interned either,
`RestorePen` (restore_cursor) to none at once. When the clone fails the program
stops: `panicked` is set and nothing happens any more. `PrintStyled`, `ClearCells`,
and `CopyCell`, which brings a cell from another page with the id its style had
there, are the other operations.

Properties: `TableIntact` (table, items and statistics agree), `StylesKept`
(every cell shows the style it was given and each count is the number of its
holders, through reaping, renumbering, cloning and going back), `RehashHelps` (when the set
asks for a rehash there is something to free, so the single retry finds room, if the
tail guard lets it and the clone itself succeeds).

Run: `screen` has pages with four styles that hash to the last bucket, or all but one, so
that runs of buckets wrap around; pages of no, four and eight buckets, and three
distances in the statistics, so that each of the limits is met; three cells and
the cursor, fewer than the styles, so that some are dead.

Remark: `add_with_id` frees a dead id first and then looks up the value; a
deletion shifts the bucket the lookup relies on, so a value can be stored
twice, and `living` counts it twice. It costs room, no style.

Finding (`styles_clone`): `increase_capacity` expects its clone to succeed
("increase_capacity clone should not fail", pagelist/ops.rs:282), and the program
stops if it does not. The clone adds the styles in the order of the cells, not in the
order in which the page got them, and once a style is at the last distance of
`psl_stats` the tail guard (ref_set.rs:310) lets no new one in: a style the page got
last the clone may get before another one. The run has four cells and five styles,
three of them with the same home and two with the bucket two further on, and three
distances, where the code has 32.

`PageList` has pages as sequences of rows with an identity, a size and a serial;
the pins of the cursor, the viewport and one more ("mark"); the viewport's cached
offset; the counts. `Output` is what the program makes the cursor do (grow,
prune, rotate within a region or below the cursor, erase rows or the history, split,
enlarge, reset), `Scroll` and `ReadScrollbar` are the user's, `Mark` a new selection.

Properties: `Integrity` is what the code asserts after every operation, with the
cached offset and the agreement of the cursor's pin and line (of a pinned viewport it asks
what `ViewportPinInsufficientRows` does, that a screen of rows can be shown from
it: the pin may be as low as the top of the active area, where it does come to lie
on pages of three rows with a screen of four); `PinsFollowRows`
says that a pin stays on its row as long as the row exists, and so does a
viewport scrolled back, through all of `Output` but `TurnedUnder`, which is the
finding; `ScrollRowLands` that a scrollbar dragged to a row shows
it, whatever was cached.

Run: `pages` has three rows of screen on pages of two, at most four pages, so
that a screen covers two pages or three, and starts with no history or
enough that the next page prunes the first; any four operations.

Finding (`pagelist_pins`): `cursor_scroll_above`, a line feed in a region anchored at
the top, grows the list and brings the new row up to below the cursor
(screen/mod.rs:1059). The rows below move down by one; of the pins only the cursor's
is moved, so a selection there slips off its text. pin.rs:12 says of a tracked pin
that the page list "updates it on every mutating op". `PinsAlwaysFollow` says so and
fails; `PinsFollowRows` leaves out just a pin below the cursor in just this operation.

Finding (`pagelist_serials`): a page in the middle that is enlarged or split gets
the newest serial; when the pages above it are erased, or its page is reused, the
least valid serial is set from it, above those of the pages below, and
`verify_integrity` answers `PageSerialInvalid`.

## 10. Parser and stream

`VtParser`: the table as sets of bytes per state with the action and the next
state; the registers (collected bytes, parameters, colons, the value being read
and its count of digits); entry and exit actions; the UTF-8 decoder; the DCS
handler; `NextByte`, which is `Stream::next`. `VtStream`: `feed` with the paths
for text (`decode_until_control_seq`), `ESC [`, parameters in bulk, `csi_entry`
and APC strings. A step gives `feed` one chunk.

Properties: `FeedMatchesNext` (a chunk gives the calls and the state that its
bytes give one by one, in every state a stream can be in, unless a parameter gets as
many digits as the count can hold), `RegistersSound` (the
limits, and that a sequence begins with clear registers, which lets the fast path
for `ESC [` skip the clear), `HookMatched` (a DCS hook is always undone before
the next), `ResetUnderstood` (`ESC c` is understood after anything).

Run: `pages` has 32 bytes, one of each kind the table, the decoder and the
handlers tell apart, and chunks of one byte, of two and of up to six that run
from one path into another. The limits are constants in the model, so small that
every one is met: one collected byte, two parameters, values up to 11, and a
count of digits that wraps at 5; two chunks have five digits in a row.

Finding (`stream_digits`): the count of digits of a parameter is a byte. Byte by byte
a parameter of 256 digits is taken for none and dropped, while the bulk path, which
only notes that there was a digit, keeps it, and the sequence is dispatched with
other parameters. parser/mod.rs:452 calls the bulk path "behavior-equivalent", and
line 488 says that the distinction never affects the finalized value. `FeedIsNext`
compares the calls for any chunk and fails; `FeedMatchesNext` leaves out chunks with
such a parameter (`ManyDigits`), and compares the count only as "any or none", which
is all that is read of it otherwise.

## 11. How the parts meet

The pipeline's sink calls `Stream::feed` under the engine lock with whatever
chunk it got: `DeliveredInOrder` gives the bytes, `FeedMatchesNext` says that the
cuts between chunks do not matter. `Stream`'s calls are the operations of
`Terminal`; a terminal's rows are the rows of a `PageList`, whose cells use the
styles of `PageStyles`. When a set is full the page is enlarged, which is
`ChangeCapacity` of `PageList` and `Cloned` of `PageStyles`; what comes of a page
that cannot be enlarged is `SplitForCapacity`. The tmux hook of the DCS
handler is where the notifications of `TmuxViewer` come from.

## 12. What is proved

`MailboxProofs`, for any threads, capacity and number of posts. The inductive
invariant `IInv` is the type invariant with: the queue is at most `Capacity`
long; `EngineInv`, which thread holds the engine lock, and that a `Writer::send`
caller never gets to the steps of `send_with_unlock`; waiters are at their wait;
`NoLostSignal`, inductive as it stands; `WakeInv`, which extends `NoLostWakeup`
from "the loop is parked" to every place after a drain has emptied the queue,
since a push during dispatch is what the next wait must not sleep through; and
`BatchInv`: the loop holds a batch only between drain and dispatch, so a drain
overwrites nothing. Theorems: `TypeCorrect`, `WakeupsKept`, `SignalsKept`,
`LockReturned`, and the refinement `ChannelImplemented`: a push is an `Accept`
(`PushAccepts`), a drain of a queue that is not empty is a `TakeAll`
(`DrainTakesAll`), a dispatch moves messages from `batch` to `log` and is a
stutter, and so is everything else.

`TermioProofs`, first `ReadPipeline`, for any ring and any sizes. `IInv` is the type invariant
with `RingInv` (head is `count` slots ahead of tail modulo the size, gather
fills only when a slot is free, the parse stage works on the slot at tail) and
`TakenInv` (what is in the unpublished buffer was taken from the kernel, and no
more than was written). From the ring alone follows `BuffersNotShared`: the two
slots differ because 0 < count < BufferCount. `SleepInv` adds that a sleeping
stage is at its claim; from it `SignalsKept`. `PipeInv` counts the wake bytes in
the self-pipe, the one on its way and the one that may still come while gather is
bridging: at most two between bridges and three during one, for a bridge that
finds the pipe empty leaves two to come at most and one that does not empties it;
an interrupted bridge leaves its own. From it `IdlePipeSmall`.

The order of the bytes, in the same module. `OrderInv`: each published slot holds a run of
consecutive bytes (`RunInv`); the slot after it goes on where it ends, and the
last one ends where the buffer being filled begins (`ChainInv`, `FillInv`); the
first one begins where the sink's part ends (`SinkInv`); the parse stage leaves
only when gather is over and the ring empty (`EndInv`). One lemma for each step
that moves a byte or a slot (`ReadOrder`, `PublishOrder`, `SinkOrder`,
`AdvanceOrder`), two for all the others. Theorems: `OrderKept`, `NothingLost`.

`TermioProofs`, then `WriterThread`, for any periods, sizes and number of posts. `HubInv` is the
types, `NewestSizeKept`, `ClockInv` (a deadline and the time since its start make
up at least the period), `QueueInv` (what was posted is what was dispatched, the
batch and the inbox, in this order) and `WriteInv` (each write on the pty is a
posted one in its linefeed mode, and the loop's mode is that of what it has
dispatched). Theorems: `NewestSizeReaches`, `WritesInOrder`, `NoTimerEarly`; the
last is an action property, one case per action from `ClockInv`.

`TermioProofs`, then `ExecLifecycle`, for any misbehaviour. `LifeInv` is the types,
`WatchInv` (how far the watcher is says whether the child is reaped and reported),
`StopInv` (the loop gives up the pid, or gets past its stop, only with the child
reaped, stuck or, off macOS, of an identity that may not be signalled) and `JoinInv` (the order of quit, the two joins and the end).
Theorems: `ChildStoppedFirst`, `NothingLeft`. Names like
`LifeInit`, `HubInit` and `PipelineInit` are so that one module can extend several
models.

`FoldFacts` holds no result about the program but the lemmas the others rest on, for
any step of a fold. The provers take no induction theorem whose
parameter is an operator, so the module proves induction over the naturals for a
set (`NatSetInduction`) and from it, with the step and the property as CONSTANTS
of the module: a fold is the last of a chain of values, one for each element
(`Folded`); folding a concatenation is folding its second part from the result of
the first (`FoldConcat`); what each step keeps, the fold keeps (`FoldKeeps`); a
relation between two accumulators that each step keeps holds between the two
folds (`FoldRelates`); and what each turn brings from one number of turns to the
next, holds at the end with the number of all turns (`FoldReaches`). Each use is an
INSTANCE with the step in question.

`TmuxViewerProofs`, for any finite sets of windows and panes, any sessions and
sizes and any number of acts. `EffectsTyped` shows that everything the server
answers or announces is of its type, case by case over the commands. The
invariant `IInv` is `TypeOK`, with
the panes the leaves of the layouts and no terminal for another pane;
`FlightInv`, which says `OneInFlight` of the queue, the batch, the commands
written and the replies on their way; `StartupInv`: before the steady state
nothing has been asked, so the first session change starts from an empty
conversation and with a size to declare; and `AttachInv`: the block that answers
the attach is first in line until it is taken. Without `AttachInv` a block in
steady state might answer no command, and without `StartupInv` the first
commands might meet a reply on its way. A handful of lemmas (`FlightAsked`,
`FlightAnswered`, `FlightWritten`, `FlightExecuted` ...) say what keeps one
command in flight; every action is one of them. Theorems: `TypeCorrect`,
`CommandInFlight`.

`SessionMirrored` and `ScreenCurrent` speak only of the quiet state, and are far
from inductive: while anything is on its way the client is behind tmux. The proof
looks ahead. `Final` is the view the Viewer will have when it has heard everything
that is on the pty, the fold of its handlers (`Hear`) over `fromTmux`, and the
invariant `MirrorInv` relates that view, not the present one, to tmux. It says
that `Final` agrees with tmux except where a command that tmux has yet to execute
(`Pend`: still queued, in the batch or on the pty) will mend it: the windows
while a `list-windows` is pending, the active pane while a select is, a pane's
screen while its `capture-pane` is, the size while a `refresh-client` is. Its
parts are `Tree` (tmux's windows and panes are consistent), `StartInv` (the
conversation's beginning), `TabsInv` (the native tabs are behind the view only
while a batch is open), `ViewInv` and `SizeInv`; that of the two captures of a
pane the history comes first (`HistoryFirst`) is what makes the second replace
the first. Three kinds of steps remain: hearing something leaves `Final` alone, as the
view moves by the very handler the fold begins with; a change that tmux
makes by itself puts notifications on the pty that make the view follow
(`Followed`); a command executed mends by its reply what it was pending for
(`Executed`). When all is quiet nothing is pending and `Final` is the present view.
Theorems: `Mirrored`, `SessionsMirrored`, `ScreensCurrent`.

`VtStreamProofs`, for any limits and any chunks. Of one byte through
`Parser::next`: `NextBounded`, the registers keep their types and limits, which is
`Parser::assert_bounded`; and `NextFresh`, a state that begins a sequence has
clear registers. Both go over the table by one lemma (`RulesGood`): an edge that
stays in a beginning collects nothing, and the bytes of a parameter are digits
and separators. The invariant of a stream is `Sound`: `NextBounded` and
`NextFresh`, no character half decoded outside the ground state, a DCS handler
only in a string that is passed through, and `Holds`, which bounds the decoder's
accumulated bits in each of its states. From `Holds`: what the decoder makes is
a scalar value, and a byte comes back to be tried again only once, because the
decoder then waits for nothing (`DecodedSound`). The fast paths keep `Sound` one by one
(`WellFormedSound` for the multi-byte decoder, and lemmas for text runs,
`ESC [`, bulk parameters, `csi_entry` and APC), and so does a turn of `feed`, which
also takes at least one byte; hence `FeedSound` and, by counting turns,
`FeedEnds`. Theorems of the specification: `StreamSound`, `RegistersKept`,
`HooksMatched`, and `ResetHeard`, where the only assumption is that `ESC` and `c` are among
the bytes.

`TerminalProofs`, for any size of the grid (two columns at least), any characters,
runs, counts and requested margins, and any number of operations. A row is `Whole`
when its wide characters are: a tail follows its first half, a first half has its
tail, both are equally protected, a filler is in the last column and its row
wraps. That the halves are equally protected is not among what the run checks,
but an erase that spares protected cells would otherwise cut a character in two.
A screen is `Good` when its rows are whole and its cursor and its saved cursor are
in the grid. The invariant `TerminalInv` is `Formed` (both screens are good if they
exist, the margins are in order) and `Kept` (while mode 1049 is set, the primary
screen is the one remembered and its saved cursor is its cursor).

Most of the work is one lemma per operator, "good in, good out", and these rest on
a few about rows. `Uncut(f, x)` says that no character is across the left edge of
column x. `Pasted`: a segment of whole characters put in the place of another,
both uncut at their ends, leaves a whole row; so do blanks (`FilledWhole`), blanks
that spare protected cells (`FilledUnprotectedWhole`), single halves turned to
blanks if both of a pair are (`NarrowedWhole`) and whole characters moved along the row
(`MovedWhole`). What `split_cell_boundary` and `row_will_be_shifted` are for is to make
these hypotheses true: `SplitGood`, `WillBeShiftedWhole`. Printing writes one half
of a character before the other, so between the two calls of `print_cell` the row
is not whole: `Beside` and `RowWrittenIs` describe the row in between cell by cell.
The loops (`cursor_left`, `scroll_up`, `print_slice_fill`, `print_slice`) are folds,
with an INSTANCE of `FoldFacts` each and the property that a turn keeps (`OnScreen`,
`Scrolled`, `Filling`, `Slicing`). The operations that scroll or shift also keep
`KeepsOutside`, which is the body of `ScrollKeepsOutside`. Deleting what was
inserted: a row that `row_will_be_shifted` leaves is `Ready`, the rows a shift builds
of such rows are (`ReadyParts`), and on these the second call changes no
cell (`ReadyIsShifted`), so that the way back undoes the way there (`DeletedRows`).
Theorems: `TerminalSound`, `ScreenSound`, `OutsideKept`, `PrimaryRestored`,
`DeletionUndone`.

`PageListProofs`, for any height of the screen (two rows at least), any number of
rows a page holds, any budget that holds a screen and a page, any history and any
number of operations. `Above`, `AllRows` and `Offset` are folds over the pages,
which says little of what an operation does to them. So the proof gives a list a
layout (`Laid(A, R, pages)`): the sequence R of its rows and, for each page i, the
number A[i] of rows above it, with R cut into the pages at those numbers. Every
list has one (`LaidExists`, the two folds of `FoldFacts`), it is the only one, and with
it offsets, rows and pins are plain arithmetic: a pin is `On` page i when the page
has its id and its row; its offset is A[i] plus that row (`OffsetIs`), and the pin at
an offset is on the page whose stretch of numbers holds it (`PinAtIs`). An
operation is understood once the layout of its result is written down from that
of its argument: a row more at the end, a page less at the front, one page in two.

The invariant `IInv` is `Good(list)` with the agreement of the cursor's pin and line.
`Good` is `Sound` (pages with distinct ids that were all given out, none empty or
too full; rows counted; no row there twice and none newer than the newest; every
pin valid; a cached viewport offset exact) with at least a screen of rows and a
pinned viewport not below the top of the active area. That no row is there twice
is what makes "its row" in `PinsFollowRows` mean one row, and that the ids were
given out is why a new page takes no pin of another.

One lemma per operation says "good in, good out" and that each pin is `Kept` on the
row it was on unless that row is gone: `GrowGood` (with its four ways: into the last
page, a new page, a pruned page, a pruned page used again), `EraseRowGood`,
`EraseRowBoundedGood`, `RotatedGood`, `EraseHistoryGood`, `IncreaseCapacityUnmoved`,
`SplitUnmoved`, `ResetGood`. Rotation is by rows and offsets, not by pages
(`WithRows`); splitting and enlarging change the pages and no offset (`Unmoved`);
several rows at once are folds. The operations of the viewport move nothing else
(`Viewed`). What a step of the screen adds is where the cursor's pin is put
(`Settled`). Theorems: `SpecIInv`, `ListIntegrity`, `DragLands`, `PinsFollow` (with the exception
of `PinsFollowRows`).
The least valid serial is in none of this: it is the subject of the finding of
section 9.

`PageStylesProofs`, for any values, any hash functions, any capacities and any
number of cells. `TableIntact` is not inductive: `psl_stats` says how many items are
at each distance, but that an insertion stays within it rests on where the items
are, on the tail guard, and on there being fewer items than buckets. Nor is
`StylesKept`, which says nothing of the ids that nobody has. `IInv` is `Styled`: the
set is `Whole`, every user shows its style and every item counts its users. `Whole`
is `Sound` (the fields have their types; an item in the table is where its bucket
says and as far from its home as its distance says, and one that is not is an empty
item; every bucket refers to an item that is there; the statistics count them) with
no item from `nextId` on.

The layers, each resting on the one before:

* probes: (h + k) % n without the remainder (`Around`, `Behind`), and that a table
  has room for the items and one empty bucket more (`Room`);
* small changes of a `Sound` set: an item gives up its bucket (`TakenOutSound`),
  another takes it (`PlacedSound`, with the hole in between), the new item moves to
  the id that was chosen (`CommitSound`); the sets of items at a distance gain or
  lose one element, and so do their cardinalities (`CountIn`, `CountOut`);
* insertion: `ProbeInv` is what the loop keeps. Until it is done it holds one item
  that is in no bucket, an empty bucket is still ahead, and no item ahead is at the
  last distance, as the guard saw (`TailFree`); so an item that is passed over, or
  that is taken up, is nearer than that and may go one further. There is an empty
  bucket because there are fewer ids than turns of the loop, and so the loop ends
  with everything placed (`ProbedLands`). Every other item keeps its value and its
  count, but for one dead item whose id may be the new one's (`InsertSound`);
* deletion: the run of items that move up is bounded by an empty bucket (`RunIs`),
  each goes one bucket back and one nearer to its home, and the statistics move with
  them (`WithoutItems`, `WithoutStats`, `WithoutTable`), hence `DeleteSound`;
* operations: `TrimSound` (a fold of deletions), `AddSound`, `AddWithIdSound`,
  `UseIs`, `ReleaseIs`. `Added` is what an addition promises: it fails and changes
  no living item, or the id it returns has the value and one user more;
* users: releasing, taking and adding a cell's or the cursor's style
  (`CellReleased`, `CellTakes`, `CellAdded`, `CursorReleased`, `CursorAdded`); a
  clone is a fold over the cells whose users grow one by one (`CloneSound`); cells
  cleared together release what they had together (`ClearedSound`).

Where `lookup` finds a value is not part of it: the remark of section 9 shows that
it may miss one, and the proof uses only that what it finds is a living item of that
value. Theorems: `SpecIInv`, `TableAlwaysIntact`, `StylesAlwaysKept`.

Assumed: only the named assumptions on the constants (sizes are positive, the two
kinds of senders are disjoint, windows and panes are finitely many, and the like).
Some deserve a word. `LimitAssumption` of `VtParser` asks that a parameter can hold
a digit (`MaxValue >= 9`; in the code it is 65535). `DistinctAssumption` of
`TmuxServer` says that tmux's ids are unique: the windows there are at the start and
those that may be created are different, and no window is linked into two sessions.
The bytes are a subset of 0 to 255. `ArgumentAssumption` and `ModesAssumption` of
`Terminal` give the types of its arguments: counts and requested margins are natural
numbers, and the initial states have known modes and margins in order.
`CapacityAssumption`, `CellsAssumption` and `HashesAssumption` of `PageStyles` say
that capacities are natural numbers, zero included, that there is room for one
distance in the statistics, that no cell of another page has an id of 0 for its
style, and that a hash is a natural number; that two styles never collide is not
assumed, and neither is that capacities are powers of two. TLC evaluates all of them
in every run.

Model-checked only:

* all liveness properties (fairness and ENABLED are out of the proof system's
  reach);
* `FeedMatchesNext` with its exception for many digits, `SliceMatchesPrint` with its
  for narrow margins: each compares two computations in every reachable state, whose
  agreement is not proved yet;
* `RehashHelps`, which needs to know where `lookup` finds a value;
* the findings, which TLC refutes.

## 13. Plan

Next, in this order:

1. `SwapChain` against an abstract pool of frames: permits, `next_frame`, guard
   release and detach, completion callback, deinit. Properties: a slot has one
   user; permits plus users is N; deinit waits for all; nobody gets a frame
   after it. Refinement of a counting semaphore. Proofs of the first two.
2. `OffsetHashMap` and `BitmapAllocator`, each against a reference (a function, a
   set of intervals), and the graphemes and hyperlinks of cells as their users.
3. Resize and reflow of `PageList`, with the wrap flags of rows, on which the
   remark of section 8 bears.
4. `tmux/control.rs`: the line and block parser under `TmuxViewer`, with the limit
   of a block.
5. `SplitTree`, `QuickTerminal`, gestures: small sequential machines against
   their reference.
6. `Surface`: the child-exit event against the last output in the app's pump,
   composing `ReadPipeline` and `ExecLifecycle`.

Proofs to add to what exists: `RehashHelps`; the agreement of bulk and single
parameters of the parser, for chunks with fewer digits than the count holds, towards
`FeedMatchesNext`; and of a filled row with one printed cell by cell, towards
`SliceMatchesPrint`.

## 14. Not modelled, and why

Font shaping, rasterisation, sprites, shaders and colour tables, input encoding
and formatting are pure data transformations which the repository tests against
reference output. The GTK front end, the C interface, spikes and tools wrap the
same crates. `Subprocess::start` and shell integration prepare an environment
once, before anything runs concurrently. `Termio::spawn` failing half way, a
panic in the sink and the 16-bit cut in `grid_from_size` have no property: the
first two need an exhausted or broken process, the last a screen of 65536
columns.

Of tmux control mode the split trees and surface ids of the reconciler, keyboard
focus in AppKit, the control tab and the wire format are left out. Of the engine:
styles, colours, hyperlinks and graphemes of several code points as contents of
`Terminal`'s cells, tab stops, character sets, semantic prompts and the kitty
keyboard; the dispatch tables from CSI, ESC, OSC and SGR sequences to operations,
which are data; the contents of OSC and APC strings; kitty graphics; search,
selection, snapshots and formatting, which read the page list and change nothing.
