--------------------------- MODULE OperationConsole ---------------------------
(***************************************************************************)
(* ui/StatusPanel bound to the operation queue: the panel follows the      *)
(* operationChanged events and owns the only control that cancels          *)
(* operations.  One button serves all operations: it acts on the operation *)
(* the panel calls active.                                                 *)
(*                                                                         *)
(* The queue is OperationQueue; this module gives its environment, so      *)
(* Cancel happens only through the button and Deliver runs the panel's     *)
(* handler.  Labels, progress bar and error text are left out: nothing     *)
(* reads them back.                                                        *)
(***************************************************************************)
EXTENDS OperationQueue

VARIABLE active     \* m_activeOperationId; None is the empty string, and then
                    \* (and only then) the cancel button is disabled

consoleVars == <<vars, active>>

ConsoleInit == Init /\ active = None

\* Mutant: the failure or cancellation of the active operation leaves the
\* button enabled.
UpdateTerminalOperationKeepsFailed(snapshot) ==
  active' = IF snapshot.state = "Completed" THEN None ELSE active

\* A completed operation, whichever it is, and the failure or cancellation of
\* the active one disable the button.
UpdateTerminalOperation(snapshot) ==
  active' = IF active = snapshot.op \/ snapshot.state = "Completed"
            THEN None ELSE active

\* Mutant: terminal events are treated like any other.
HandleOperationChangedAlways(snapshot) == active' = snapshot.op

HandleOperationChanged(snapshot) ==
  IF snapshot.state \in Outcome
  THEN UpdateTerminalOperation(snapshot)
  ELSE active' = snapshot.op

DeliverToPanel == Deliver /\ HandleOperationChanged(Head(posted))

\* The button is enabled exactly when there is an active operation.
CancelActiveOperation ==
  /\ active # None
  /\ Cancel(active)
  /\ UNCHANGED active

ConsoleNext == \/ DeliverToPanel
               \/ CancelActiveOperation
               \/ /\ \/ \E o \in Op : Enqueue(o)
                     \/ Destroy
                     \/ WaitForDone
                     \/ \E w \in Worker : Work(w)
                     \/ Gone
                  /\ UNCHANGED active

ConsoleSpec == ConsoleInit /\ [][ConsoleNext]_consoleVars

\* Pool threads run, the event loop turns and waitForDone wakes up.  Nothing
\* obliges the user to enqueue, cancel or quit.
ConsoleFairSpec == /\ ConsoleSpec
                   /\ \A w \in Worker : WF_consoleVars(Work(w) /\ UNCHANGED active)
                   /\ WF_consoleVars(DeliverToPanel)
                   /\ WF_consoleVars(WaitForDone /\ UNCHANGED active)

-----------------------------------------------------------------------------
\* The button never acts on an operation the panel has already shown as
\* completed, failed or cancelled: late progress of a cancelled operation does
\* not bring it back.
ActiveOperationIsLive ==
  active # None => /\ operations[active] # "Unknown"
                   /\ seen[active] \in {"Queued", "Running"}

\* The button does not stay enabled for an operation that is over.
ButtonIsReleased ==
  \A o \in Op : active = o ~> active # o \/ life # "running"
=============================================================================
