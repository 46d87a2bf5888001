--------------------------- MODULE UndoableAction --------------------------
(***************************************************************************)
(* useUndoableAction, the hook both frontends delay a destructive action   *)
(* with: trigger opens a window in which undo cancels the action, and the  *)
(* timer's end commits it.  The hook's refs and state are one record, its  *)
(* operations functions on it; the countdown itself is left out.           *)
(***************************************************************************)
EXTENDS Naturals

CONSTANT Nobody      \* callbacksRef without callbacks

\* timers: running timeouts that will call the callbacks; action: whose
\* callbacks callbacksRef holds; pending: the state the snackbar shows.
Hook(Actions) == [timers : Nat, action : Actions \cup {Nobody},
                  pending : {"none", "waiting", "committing"}]

InitHook == [timers |-> 0, action |-> Nobody, pending |-> "none"]

clearTimers(h) == [h EXCEPT !.timers = 0]

\* Variant: a running timer is not cleared.
triggerKeepsTimer(h, a) == [timers |-> h.timers + 1, action |-> a, pending |-> "waiting"]

\* A second trigger takes the window over: the callbacks of the first are
\* overwritten and neither of them is called.
trigger(h, a) == [clearTimers(h) EXCEPT !.timers = 1, !.action = a, !.pending = "waiting"]

\* The timeout: what is committed is whatever callbacksRef holds by then.
Expired(h) == h.timers > 0
startCommit(h) ==
    [h EXCEPT !.timers = @ - 1, !.pending = IF @ = "none" THEN "none" ELSE "committing"]

\* Variant: the hook is reset as undo does it.
endCommitClears(h) == [clearTimers(h) EXCEPT !.pending = "none"]

\* onCommit has settled; the snackbar closes, whoever it belongs to by now.
endCommit(h) == [h EXCEPT !.pending = "none"]

\* The UNDO button is there until the commit starts.
CanUndo(h) == h.pending = "waiting"

\* Variant: undo only closes the snackbar.
undoForgetsTimer(h) == [h EXCEPT !.pending = "none"]

undo(h) == [clearTimers(h) EXCEPT !.action = Nobody, !.pending = "none"]
============================================================================
