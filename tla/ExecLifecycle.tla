---------------------------- MODULE ExecLifecycle ----------------------------
(***************************************************************************)
(* Life and death of the child process behind a surface of qwertty-term:   *)
(* Termio::shutdown (hub.rs), Exec::thread_exit, Subprocess::stop and      *)
(* kill_pid, the exit watcher and the pty writes of exec.rs, against a     *)
(* child that exits when it likes.                                         *)
(*                                                                         *)
(* Four threads take part: the app's (it shuts the surface down and joins),*)
(* io-writer (it runs the loop and then the teardown), io-exit (it waits   *)
(* for the child and tells the surface) and the read pipeline, here only   *)
(* "running" or "done" (ReadPipeline has its inside).  The processes and   *)
(* the kernel are external: the child, one process it starts (in its own   *)
(* process group or in another), and a stranger that may get the child's   *)
(* pid once the kernel has it back.                                        *)
(***************************************************************************)
EXTENDS Sequences, Naturals

CONSTANTS
    Macos,          \* the build is for macOS
    Misbehaviour    \* what the processes may do that a polite shell does not:
                    \*   "ignoresHup"  the child ignores SIGHUP
                    \*   "helperStays" a process it started ignores SIGHUP
                    \*                 and need not exit
                    \*   "neverReads"  the child never reads its input
                    \*   "stuck"       the child does not get to setsid within
                    \*                 the second getpgid_of waits for it
                    \*   "changesUid"  the child takes another user's id, so
                    \*                 that killpg may be refused (EPERM)

ASSUME MisbehaviourAssumption ==
    Misbehaviour \subseteq {"ignoresHup", "helperStays", "neverReads", "stuck", "changesUid"}
ASSUME PlatformAssumption == Macos \in BOOLEAN

VARIABLES
    app,            \* the app's thread
    stop,           \* the stop flag of the loop
    wpc,            \* where io-writer is
    pid,            \* Subprocess::pid is Some
    target,         \* whose process group kill_pid found
    quitByte,       \* a byte was written to the quit pipe
    reader,         \* the read pipeline
    watcher,        \* where io-exit is
    wstatus,        \* the status its waitpid returned
    exited,         \* the flag it shares with ThreadData
    events,         \* the exit codes the surface was notified of
    \* external
    child, status, hup, inputRoom, helper, stranger,
    habits          \* which misbehaviour these processes show, for good

ioVars == <<stop, wpc, pid, target, quitByte>>
watchVars == <<watcher, wstatus, exited, events>>
procVars == <<child, status, hup, inputRoom, helper, stranger, habits>>
lifeVars == <<app, stop, wpc, pid, target, quitByte, reader, watcher,
              wstatus, exited, events, child, status, hup, inputRoom, helper,
              stranger, habits>>

NoneYet == "none"
ChildAlive == child \in {"forked", "running"}
SlaveOpen == ChildAlive \/ helper \in {"group", "other"}
GroupExists == child # "reaped" \/ helper = "group"

-----------------------------------------------------------------------------
(* thread_enter has started everything; the child has not run setsid yet.  *)
LifeInit ==
    /\ app = "running" /\ stop = FALSE
    /\ wpc = "loop" /\ pid = TRUE /\ target = NoneYet /\ quitByte = FALSE
    /\ reader = "running"
    /\ watcher = "waiting" /\ wstatus = "exit0" /\ exited = FALSE
    /\ events = <<>>
    /\ child = "forked" /\ status = NoneYet /\ hup = FALSE /\ inputRoom = TRUE
    /\ helper = NoneYet /\ stranger = NoneYet
    /\ habits \in SUBSET Misbehaviour

-----------------------------------------------------------------------------
(* The processes.                                                          *)

Setsid ==
    /\ child = "forked"
    /\ child' = "running"
    /\ UNCHANGED <<app, ioVars, reader, watchVars, status, hup, inputRoom,
                   helper, stranger, habits>>

ChildExits ==
    /\ ChildAlive
    /\ child' = "zombie"
    /\ status' \in {"exit0", "exit1"}
    /\ UNCHANGED <<app, ioVars, reader, watchVars, hup, inputRoom, helper,
                   stranger, habits>>

ChildHangsUp ==
    /\ child = "running"
    /\ hup
    /\ "ignoresHup" \notin habits
    /\ child' = "zombie"
    /\ status' = "hup"
    /\ UNCHANGED <<app, ioVars, reader, watchVars, hup, inputRoom, helper,
                   stranger, habits>>

ChildStartsHelper ==
    /\ child = "running"
    /\ helper = NoneYet
    /\ helper' \in {"group", "other"}
    /\ UNCHANGED <<app, ioVars, reader, watchVars, child, status, hup,
                   inputRoom, stranger, habits>>

HelperExits ==
    /\ helper \in {"group", "other"}
    /\ helper' = "gone"
    /\ UNCHANGED <<app, ioVars, reader, watchVars, child, status, hup,
                   inputRoom, stranger, habits>>

(* The shell reads what was typed.  A helper that survives it cannot: the  *)
(* session leader's exit hangs the terminal up for everybody else, and yet *)
(* the master sees no hangup while the helper has the terminal open.       *)
InputRead ==
    /\ child = "running"
    /\ ~inputRoom
    /\ "neverReads" \notin habits
    /\ inputRoom' = TRUE
    /\ UNCHANGED <<app, ioVars, reader, watchVars, child, status, hup, helper,
                   stranger, habits>>

(* Nothing has the child's pid or process group any more: the kernel gives *)
(* the number to somebody else.                                            *)
ReusePid ==
    /\ ~GroupExists
    /\ stranger = NoneYet
    /\ stranger' = "alive"
    /\ UNCHANGED <<app, ioVars, reader, watchVars, child, status, hup,
                   inputRoom, helper, habits>>

Processes ==
    \/ Setsid \/ ChildExits \/ ChildHangsUp \/ ChildStartsHelper
    \/ HelperExits \/ InputRead \/ ReusePid

-----------------------------------------------------------------------------
(* The app.                                                                *)

Shutdown ==
    /\ app = "running"
    /\ stop' = TRUE
    /\ app' = "joining"
    /\ UNCHANGED <<wpc, pid, target, quitByte, reader, watchVars, procVars>>

Joined ==
    /\ app = "joining"
    /\ wpc = "exited"
    /\ app' = "joined"
    /\ UNCHANGED <<ioVars, reader, watchVars, procVars>>

-----------------------------------------------------------------------------
(* io-writer: the loop.                                                    *)

WriterGoto(l) ==
    /\ wpc' = l
    /\ UNCHANGED <<app, stop, reader, watchVars>>

(* queue_write: nothing is written once the child is known to be gone.     *)
StartWrite ==
    /\ wpc = "loop"
    /\ WriterGoto(IF exited THEN "loop" ELSE "writing")
    /\ UNCHANGED <<pid, target, quitByte, procVars>>

(* write_all_fd: it tries again, without a pause or a look at the stop     *)
(* flag, until the kernel has taken all of it or the pty is gone.          *)
Write ==
    /\ wpc = "writing"
    /\ inputRoom \/ ~SlaveOpen
    /\ inputRoom' \in {FALSE, inputRoom}
    /\ WriterGoto("loop")
    /\ UNCHANGED <<pid, target, quitByte, child, status, hup, helper, stranger,
                   habits>>

LoopEnds ==
    /\ wpc = "loop"
    /\ stop
    /\ WriterGoto("exitCheck")
    /\ UNCHANGED <<pid, target, quitByte, procVars>>

-----------------------------------------------------------------------------
(* io-writer: thread_exit.                                                 *)

(* Do not signal a child the watcher is known to have reaped.              *)
ExitCheck ==
    /\ wpc = "exitCheck"
    /\ pid' = (pid /\ ~exited)
    /\ WriterGoto("stop")
    /\ UNCHANGED <<target, quitByte, procVars>>

(* Mutant of Stop: the quit byte goes out before the child is stopped.     *)
StopAfterQuit ==
    /\ wpc = "stop"
    /\ pid' = FALSE
    /\ quitByte' = TRUE
    /\ WriterGoto(IF pid THEN "getpgid" ELSE "quit")
    /\ UNCHANGED <<target, procVars>>

Stop ==
    /\ wpc = "stop"
    /\ pid' = FALSE
    /\ WriterGoto(IF pid THEN "getpgid" ELSE "quit")
    /\ UNCHANGED <<target, quitByte, procVars>>

(* getpgid_of: it waits for the child's setsid; there is no group to kill  *)
(* when the pid is unused, or the child has been stuck for too long.       *)
FindGroup ==
    /\ wpc = "getpgid"
    /\ child # "forked"
    /\ IF child # "reaped" \/ stranger # NoneYet
         THEN /\ target' = (IF child # "reaped" THEN "child" ELSE "stranger")
              /\ WriterGoto("kill")
         ELSE /\ WriterGoto("quit")
              /\ UNCHANGED target
    /\ UNCHANGED <<pid, quitByte, procVars>>

GiveUpGroup ==
    /\ wpc = "getpgid"
    /\ child = "forked"
    /\ "stuck" \in habits
    /\ WriterGoto("quit")
    /\ UNCHANGED <<pid, target, quitByte, procVars>>

(* Mutant of KillGroup: no signal reaches the group.                       *)
KillNobody ==
    /\ wpc = "kill"
    /\ WriterGoto(IF GroupExists THEN "reap" ELSE "quit")
    /\ UNCHANGED <<pid, target, quitByte, procVars>>

(* killpg(pgid, SIGHUP).  It reaches whoever it may signal, and fails when  *)
(* there is nobody it may signal; on macOS a refusal is ignored, elsewhere *)
(* any error ends the loop, with the child as it is.                       *)
KillGroup ==
    /\ wpc = "kill"
    /\ \/ /\ GroupExists
          /\ hup' \in {TRUE} \cup (IF "changesUid" \in habits THEN {hup} ELSE {})
          /\ helper' \in (IF helper = "group" /\ "helperStays" \notin habits
                            THEN {"gone"} ELSE {helper})
          /\ WriterGoto("reap")
          /\ UNCHANGED stranger
       \/ /\ GroupExists
          /\ "changesUid" \in habits
          /\ WriterGoto(IF Macos THEN "reap" ELSE "quit")
          /\ UNCHANGED <<hup, helper, stranger>>
       \/ /\ ~GroupExists
          /\ stranger # NoneYet
          /\ stranger' = "signalled"
          /\ WriterGoto("reap")
          /\ UNCHANGED <<hup, helper>>
       \/ /\ ~GroupExists
          /\ stranger = NoneYet
          /\ WriterGoto("quit")
          /\ UNCHANGED <<hup, helper, stranger>>
    /\ UNCHANGED <<pid, target, quitByte, child, status, inputRoom, habits>>

(* waitpid(pid, WNOHANG): again while the child is there.                  *)
ReapNoHang ==
    /\ wpc = "reap"
    /\ child' = IF child = "zombie" THEN "reaped" ELSE child
    /\ WriterGoto(IF ChildAlive THEN "kill" ELSE "quit")
    /\ UNCHANGED <<pid, target, quitByte, status, hup, inputRoom, helper,
                   stranger, habits>>

WriteQuit ==
    /\ wpc = "quit"
    /\ quitByte' = TRUE
    /\ WriterGoto("joinReader")
    /\ UNCHANGED <<pid, target, procVars>>

(* Mutant of JoinReader: the watcher is not joined.                        *)
JoinReaderOnly ==
    /\ wpc = "joinReader"
    /\ reader = "done"
    /\ WriterGoto("exited")
    /\ UNCHANGED <<pid, target, quitByte, procVars>>

JoinReader ==
    /\ wpc = "joinReader"
    /\ reader = "done"
    /\ WriterGoto("joinWatcher")
    /\ UNCHANGED <<pid, target, quitByte, procVars>>

JoinWatcher ==
    /\ wpc = "joinWatcher"
    /\ watcher = "done"
    /\ WriterGoto("exited")
    /\ UNCHANGED <<pid, target, quitByte, procVars>>

Writer ==
    \/ Write \/ LoopEnds \/ ExitCheck \/ Stop \/ FindGroup \/ GiveUpGroup
    \/ KillGroup \/ ReapNoHang \/ WriteQuit \/ JoinReader \/ JoinWatcher

-----------------------------------------------------------------------------
(* io-exit.                                                                *)

(* waitpid returns the status, or fails because kill_pid got it: then      *)
(* status is what it was initialized with.                                 *)
WatcherWait ==
    /\ watcher = "waiting"
    /\ child \in {"zombie", "reaped"}
    /\ wstatus' = IF child = "zombie" THEN status ELSE wstatus
    /\ child' = "reaped"
    /\ watcher' = "store"
    /\ UNCHANGED <<app, ioVars, reader, exited, events, status, hup, inputRoom,
                   helper, stranger, habits>>

WatcherStore ==
    /\ watcher = "store"
    /\ exited' = TRUE
    /\ watcher' = "notify"
    /\ UNCHANGED <<app, ioVars, reader, wstatus, events, procVars>>

WatcherNotify ==
    /\ watcher = "notify"
    /\ events' = Append(events, wstatus)
    /\ watcher' = "done"
    /\ UNCHANGED <<app, ioVars, reader, wstatus, exited, procVars>>

Watcher == WatcherWait \/ WatcherStore \/ WatcherNotify

(* The read pipeline ends on the quit byte or on a hangup.                 *)
ReaderEnds ==
    /\ reader = "running"
    /\ quitByte \/ ~SlaveOpen
    /\ reader' = "done"
    /\ UNCHANGED <<app, ioVars, watchVars, procVars>>

-----------------------------------------------------------------------------
LifeNext ==
    \/ Shutdown \/ Joined
    \/ StartWrite \/ Writer
    \/ Watcher \/ ReaderEnds
    \/ Processes

LifeSpec == LifeInit /\ [][LifeNext]_lifeVars

(* The threads keep running; a child that is not stuck gets to setsid, one *)
(* that does not ignore the signal dies of it, one that reads its input    *)
(* goes on reading it, and the processes it leaves behind end some time.   *)
(* The child need not exit, and nobody has to write or to shut down.       *)
(* LoopEnds is strong: the loop looks at the flag between any two drains,  *)
(* however often a drain finds something to write.                         *)
FairLife ==
    /\ LifeSpec
    /\ WF_lifeVars(Writer) /\ SF_lifeVars(LoopEnds)
    /\ WF_lifeVars(Watcher) /\ WF_lifeVars(ReaderEnds) /\ WF_lifeVars(Joined)
    /\ WF_lifeVars("stuck" \notin habits /\ Setsid)
    /\ WF_lifeVars(ChildHangsUp) /\ WF_lifeVars(InputRead)
    /\ WF_lifeVars("helperStays" \notin habits /\ HelperExits)

-----------------------------------------------------------------------------
(* Properties                                                              *)

(* "Stop the child before the quit pipe": when the read pipeline is told   *)
(* to quit, the child has been reaped, by whoever got to it first, unless  *)
(* it is stuck before its setsid or, but on macOS, may not be signalled.   *)
ChildGoneBeforeQuit ==
    quitByte =>
        \/ child = "reaped"
        \/ "stuck" \in habits
        \/ "changesUid" \in habits /\ ~Macos

(* When shutdown returns no thread of the surface is left, the child is no *)
(* zombie, and its exit was reported once.                                 *)
NothingLeftRunning ==
    app = "joined" =>
        /\ reader = "done" /\ watcher = "done" /\ wpc = "exited"
        /\ child = "reaped"
        /\ Len(events) = 1

(* Shutdown returns, whatever io-writer was doing, when the processes      *)
(* behave; and the surface hears of the child's exit, shut down or not.    *)
TeardownCompletes ==
    /\ app = "joining" /\ habits = {} ~> app = "joined"
    /\ child = "zombie" ~> events # <<>>

=============================================================================
