------------------------------ MODULE MCScreen ------------------------------
(* One run for three models that share nothing: model is chosen at the      *)
(* start and says which of them moves, the others stay in one initial       *)
(* state.  Fairness is owed only to the mailbox, and only when it moves.    *)
EXTENDS MCTerminal, MCMailbox, MCPageStyles

VARIABLE model

ScreenInit ==
    /\ model \in {"terminal", "mailbox", "styles"}
    /\ Init /\ (model # "terminal" => modes = {"wraparound"})
    /\ MailboxInit
    /\ StylesInit /\ (model # "styles" => set = EmptySet(0) /\ hash["s4"] = 0)

ScreenNext ==
    \/ model = "terminal" /\ UNCHANGED <<model, mailboxVars, stylesVars>> /\ Next
    \/ model = "mailbox" /\ UNCHANGED <<model, vars, stylesVars>> /\ MailboxNext
    \/ model = "styles" /\ UNCHANGED <<model, vars, mailboxVars>> /\ StylesNext

ScreenSpec ==
    /\ ScreenInit /\ [][ScreenNext]_<<model, vars, mailboxVars, stylesVars>>
    /\ \A p \in Producers : WF_mailboxVars(model = "mailbox" /\ Produce(p) /\ ~Begin(p))
    /\ WF_mailboxVars(model = "mailbox" /\ Consume)
    /\ WF_mailboxVars(model = "mailbox" /\ NotifyStop)
=============================================================================
