-------------------------------- MODULE MoshPane --------------------------------
(***************************************************************************)
(* A pane and its Mosh sessions: the client that stands for a session, the *)
(* temporary terminal page its output goes to, what is typed, and who      *)
(* waits for the end (MoshClient.ets, SessionViewModel.ets,                *)
(* TerminalSurfaceController.ets, PaneRuntime.ets, AppViewModel.ets).      *)
(*                                                                         *)
(* The pane runs on one thread.  A session's output and close are one      *)
(* queue, its control events another, in either order.  The prompts of     *)
(* the SSH phases are those of SshPane.                                    *)
(***************************************************************************)
EXTENDS MoshSession

CONSTANT Excluded       \* situations left out of a run, by name

Situation == {"disconnect during bootstrap", "disconnect during reset"}

ASSUME MoshPaneAssumption == Excluded \subseteq Situation

VARIABLES clients, pane

vars == <<native, clients, pane>>

-----------------------------------------------------------------------------
\* Who may await SessionViewModel.disconnect: a closed tab, the closing application.
Caller == {"tab", "application"}

\* disconnecting: the shared promise exists; served: who it will resolve.
\* Ghosts: what was typed and shown, how the user saw the session end.
ClientRecord ==
    [open : BOOLEAN, connected : BOOLEAN, disconnecting : BOOLEAN, served : SUBSET Caller,
     inputError : BOOLEAN, typed : 0..MaxInput, shown : 0..MaxOutput,
     ending : {None, "closed", "rejected", "failed"}]

NoClient == [open |-> FALSE, connected |-> FALSE, disconnecting |-> FALSE, served |-> {},
             inputError |-> FALSE, typed |-> 0, shown |-> 0, ending |-> None]

NoneYet == 0

\* SshSessionState, IDLE being DISCONNECTED; resetting: the page's end is on its way.
PaneRecord ==
    [mode : {"IDLE", "CONNECTING", "CONNECTED"},
     state : {"CONNECTING", "CONNECTED", "INTERRUPTED", "DISCONNECTED", "FAILED"},
     client : {NoneYet} \cup Session, begun : {NoneYet} \cup Session,
     accepting : BOOLEAN, page : BOOLEAN, reach : Reachability,
     resetPending : BOOLEAN, resetting : BOOLEAN, terminalFailed : BOOLEAN,
     calls : [Caller -> {"none", "session", "reset", "done"}]]

Init ==
    /\ native = [s \in Session |-> NoSession]
    /\ clients = [s \in Session |-> NoClient]
    /\ pane = [mode |-> "IDLE", state |-> "DISCONNECTED", client |-> NoneYet, begun |-> NoneYet,
               accepting |-> FALSE, page |-> FALSE, reach |-> "awaiting_peer",
               resetPending |-> FALSE, resetting |-> FALSE,
               terminalFailed |-> FALSE, calls |-> [c \in Caller |-> "none"]]

-----------------------------------------------------------------------------
(* What ends a session in the pane.                                         *)

\* releaseMoshClient.
Release(p) == [p EXCEPT !.client = NoneYet, !.reach = "awaiting_peer"]

\* finishMoshTerminalOwnership: the page ends when the terminal has caught up.
\* MUTANT: the boundary of an SSH session, which knows no page.
FinishAsForSsh(p) ==
    [p EXCEPT !.accepting = FALSE, !.resetPending = TRUE, !.resetting = ~p.terminalFailed]

FinishPage(p) ==
    [p EXCEPT !.accepting = FALSE, !.page = FALSE,
              !.resetPending = TRUE, !.resetting = ~p.terminalFailed]

\* onMoshClose and onMoshError.
Ended(p) == IF p.accepting THEN FinishPage([Release(p) EXCEPT !.mode = "IDLE"]) ELSE p

\* disconnect, once the promise of session s has resolved.
Resumed(p, s, served) ==
    LET released == IF served # {} /\ p.client = s
                    THEN FinishPage([Release(p) EXCEPT !.mode = "IDLE", !.state = "DISCONNECTED"])
                    ELSE p
        next == IF released.resetPending /\ ~released.terminalFailed THEN "reset" ELSE "done"
    IN [released EXCEPT !.calls = [c \in Caller |-> IF c \in served THEN next ELSE @[c]]]

\* clearSession; the ghost remembers what the user was told.
Cleared(c, ending) ==
    [c EXCEPT !.open = FALSE, !.connected = FALSE, !.disconnecting = FALSE, !.served = {},
              !.inputError = FALSE, !.ending = ending]

-----------------------------------------------------------------------------
(* MoshClient.disconnect: one request, one promise, however many ask.       *)

\* MUTANT: a later disconnect replaces who waits.
Replacing(c, callers) ==
    IF ~c.open THEN c
    ELSE [c EXCEPT !.disconnecting = TRUE, !.connected = FALSE,
                   !.served = IF callers = {} THEN @ ELSE callers]

Disconnecting(c, callers) ==
    IF ~c.open THEN c
    ELSE [c EXCEPT !.disconnecting = TRUE, !.connected = FALSE, !.served = @ \cup callers]

\* The native request is made once.
Requested(s) ==
    IF clients[s].open /\ ~clients[s].disconnecting
    THEN [native EXCEPT ![s] = Signalled(@)] ELSE native

\* The promise of a session disconnected while SSH brings it up never resolves.
MayDisconnect ==
    "disconnect during bootstrap" \in Excluded =>
        pane.client \notin {s \in Session : native[s].phase = "ssh"}

TakesInput == ~pane.resetPending /\ pane.calls["tab"] = "none"

-----------------------------------------------------------------------------
(* The user.                                                                *)

\* mosh: connectMoshResolved; the native call may refuse its arguments.
ConnectMosh ==
    LET s == pane.begun + 1 IN
    /\ TakesInput /\ pane.mode = "IDLE" /\ s \in Session
    /\ \/ /\ native' = [native EXCEPT ![s] = [NoSession EXCEPT !.phase = "ssh"]]
          /\ clients' = [clients EXCEPT ![s] = [NoClient EXCEPT !.open = TRUE]]
          /\ pane' = [pane EXCEPT !.mode = "CONNECTING", !.state = "CONNECTING", !.client = s,
                                  !.begun = s, !.accepting = TRUE, !.reach = "awaiting_peer",
                                  !.resetting = FALSE]
       \/ /\ pane' = FinishPage([pane EXCEPT !.state = "FAILED", !.begun = s])
          /\ UNCHANGED <<native, clients>>

\* cancelPendingConnection: nobody waits for the session.
Cancel ==
    LET s == pane.client IN
    /\ TakesInput /\ pane.mode = "CONNECTING"
    /\ native' = Requested(s)
    /\ clients' = [clients EXCEPT ![s] = Disconnecting(@, {})]
    /\ pane' = FinishPage([Release(pane) EXCEPT !.mode = "IDLE", !.state = "DISCONNECTED"])

\* handleConnectedInput and MoshClient.write: one frame more.
\* MUTANT: a rejected frame is only logged.
RejectedQuietly(c) == c

Rejected(c) == [Disconnecting(c, {}) EXCEPT !.inputError = TRUE]

Type ==
    LET s == pane.client
        frame == clients[s].typed + 1
        typed == [clients[s] EXCEPT !.typed = frame]
    IN
    /\ TakesInput /\ pane.mode = "CONNECTED" /\ s # NoneYet /\ frame <= MaxInput
    /\ clients[s].connected \* otherwise nothing happens
    /\ UNCHANGED pane
    /\ \/ /\ Admits(native[s])
          /\ native' = [native EXCEPT ![s].written = Append(@, frame)]
          /\ clients' = [clients EXCEPT ![s] = typed]
       \/ /\ ~Admits(native[s])
          /\ native' = Requested(s)
          /\ clients' = [clients EXCEPT ![s] = Rejected(typed)]

\* The escape that disconnects: the page stays until the session has ended.
EscapeDisconnect ==
    LET s == pane.client IN
    /\ TakesInput /\ pane.mode = "CONNECTED" /\ s # NoneYet
    /\ native' = Requested(s)
    /\ clients' = [clients EXCEPT ![s] = Disconnecting(@, {})]
    /\ UNCHANGED pane

-----------------------------------------------------------------------------
(* disconnect, awaited by its caller.                                       *)

Disconnect(c) ==
    LET s == pane.client IN
    /\ pane.calls[c] = "none" /\ MayDisconnect
    /\ IF s # NoneYet /\ clients[s].open
       THEN /\ native' = Requested(s)
            /\ clients' = [clients EXCEPT ![s] = Disconnecting(@, {c})]
            /\ pane' = [pane EXCEPT !.calls[c] = "session"]
       ELSE /\ UNCHANGED <<native, clients>>
            /\ IF s # NoneYet THEN pane' = Resumed(pane, s, {c})
               ELSE \* no Mosh client: the boundary moves, a page's end is not awaited
                    /\ "disconnect during reset" \in Excluded =>
                          {d \in Caller : pane.calls[d] = "reset"} = {}
                    /\ pane' = [pane EXCEPT !.calls[c] = "done", !.accepting = FALSE,
                                            !.resetPending = FALSE, !.resetting = FALSE,
                                            !.mode = "IDLE", !.state = "DISCONNECTED"]

-----------------------------------------------------------------------------
(* The terminal.                                                            *)

\* The barrier after the page's end; those who waited for it go on.
ResetCompletes ==
    /\ pane.resetting
    /\ pane' = [pane EXCEPT !.resetPending = FALSE, !.resetting = FALSE,
                            !.calls = [c \in Caller |-> IF @[c] = "reset" THEN "done" ELSE @[c]]]
    /\ UNCHANGED <<native, clients>>

\* The surface stops consuming: the pane shows the failure until it is closed.
SurfaceFails ==
    LET s == pane.client IN
    /\ ~pane.terminalFailed /\ MayDisconnect
    /\ s # NoneYet \/ pane.resetting \* at a prompt no session is concerned
    /\ pane' = [pane EXCEPT !.terminalFailed = TRUE, !.accepting = FALSE,
                            !.resetPending = TRUE, !.resetting = FALSE,
                            !.calls = [c \in Caller |-> IF @[c] = "reset" THEN "done" ELSE @[c]]]
    /\ IF s = NoneYet THEN UNCHANGED <<native, clients>>
       ELSE /\ native' = Requested(s)
            /\ clients' = [clients EXCEPT ![s] = Disconnecting(@, {})]

\* The terminal falls behind, or has caught up.
PauseChanges ==
    LET s == pane.client IN
    /\ s # NoneYet /\ clients[s].open
    /\ native' = [native EXCEPT ![s] = OutputPaused(@, ~@.paused)]
    /\ UNCHANGED <<clients, pane>>

-----------------------------------------------------------------------------
(* The events of a session; those of a released client reach no pane.       *)

IsCurrent(s) == pane.client = s

\* handleError, and CLOSE: the client lets go, the pane ends the page, and
\* whoever waited goes on.
SessionOver(s, ending) ==
    LET before == IF IsCurrent(s)
                  THEN Ended([pane EXCEPT !.state = IF ending = "closed" THEN "DISCONNECTED"
                                                    ELSE "FAILED"])
                  ELSE pane
    IN
    /\ clients' = [clients EXCEPT
                     ![s] = Cleared(@, IF IsCurrent(s) /\ pane.accepting THEN ending ELSE None)]
    /\ pane' = Resumed(before, s, clients[s].served)

\* The close after rejected input, a failure, a close.
CloseTaken(s, event) ==
    SessionOver(s, CASE clients[s].inputError -> "rejected"
                     [] ~clients[s].inputError /\ event = "failure" -> "failed"
                     [] OTHER -> "closed")

\* onMoshReachability: a responsive peer ends a warning.
Reached(p, reach) ==
    CASE reach = "interrupted" /\ p.state \in {"CONNECTED", "INTERRUPTED"} ->
            [p EXCEPT !.reach = reach, !.state = "INTERRUPTED"]
      [] reach = "responsive" /\ p.reach = "interrupted" /\ p.state = "INTERRUPTED" ->
            [p EXCEPT !.reach = reach, !.state = "CONNECTED"]
      [] OTHER -> [p EXCEPT !.reach = reach]

TakeTransport(s) ==
    LET event == Head(native[s].transport) IN
    /\ native[s].transport # <<>>
    /\ native' = [native EXCEPT ![s].transport = Tail(@)]
    /\ CASE ~clients[s].open -> UNCHANGED <<clients, pane>>
         [] clients[s].open /\ event \in {"close", "failure"} -> CloseTaken(s, event)
         [] clients[s].open /\ event = "data" ->
              IF IsCurrent(s) /\ pane.accepting
              THEN /\ clients' = [clients EXCEPT ![s].shown = @ + 1]
                   /\ pane' = [pane EXCEPT !.page = TRUE]
              ELSE UNCHANGED <<clients, pane>>
         [] OTHER ->
              /\ pane' = IF IsCurrent(s) /\ pane.accepting THEN Reached(pane, event) ELSE pane
              /\ UNCHANGED clients

\* A session that is being closed does not open again.
Opens(c) == ~c.disconnecting

\* Rejected input is reported by the close, after the last output.
\* MUTANT: a control error is never put off.
ErrorAtOnce(s) == SessionOver(s, IF clients[s].inputError THEN "rejected" ELSE "failed")

ErrorTaken(s) ==
    IF clients[s].inputError THEN UNCHANGED <<clients, pane>> ELSE SessionOver(s, "failed")

\* onMoshConnected: the terminal's pause is passed on, the page begins.
TakeControl(s) ==
    LET n == [native[s] EXCEPT !.control = Tail(@)]
        event == Head(native[s].control)
        shown == IsCurrent(s) /\ pane.state = "CONNECTING"
        opens == clients[s].open /\ Opens(clients[s])
    IN
    /\ native[s].control # <<>>
    /\ \/ /\ event = "connected" /\ opens
          /\ clients' = [clients EXCEPT ![s].connected = TRUE]
          /\ \E paused \in BOOLEAN :
                native' = [native EXCEPT ![s] = IF shown THEN OutputPaused(n, paused) ELSE n]
          /\ pane' = IF shown THEN [pane EXCEPT !.state = "CONNECTED", !.mode = "CONNECTED",
                                                !.page = TRUE] ELSE pane
       \/ /\ event = "error" /\ clients[s].open
          /\ native' = [native EXCEPT ![s] = n] /\ ErrorTaken(s)
       \/ /\ ~(clients[s].open /\ (event = "connected" => opens))
          /\ native' = [native EXCEPT ![s] = n] /\ UNCHANGED <<clients, pane>>

-----------------------------------------------------------------------------
Deliver(s) == TakeTransport(s) \/ TakeControl(s)

NativeStep(s) == Become(s, Steps(native[s])) /\ UNCHANGED <<clients, pane>>
BootstrapStep(s) == Become(s, Bootstrap(native[s])) /\ UNCHANGED <<clients, pane>>
BootstrapStops(s) == Become(s, BootstrapCancelled(native[s])) /\ UNCHANGED <<clients, pane>>
LibraryEnds(s) == Become(s, TaskEndsInTime(native[s])) /\ UNCHANGED <<clients, pane>>
LibraryStep(s) ==
    /\ Become(s, BecomeActive(native[s]) \cup ReachabilityChanges(native[s])
                 \cup Produce(native[s]) \cup TaskEnds(native[s]))
    /\ UNCHANGED <<clients, pane>>

Next ==
    \/ ConnectMosh \/ Cancel \/ Type \/ EscapeDisconnect
    \/ \E c \in Caller : Disconnect(c)
    \/ ResetCompletes \/ SurfaceFails \/ PauseChanges
    \/ \E s \in Session :
         Deliver(s) \/ NativeStep(s) \/ BootstrapStep(s) \/ BootstrapStops(s) \/ LibraryStep(s)

Spec == Init /\ [][Next]_vars

\* What goes on by itself: tasks, the thread and the terminal; a disconnect
\* request is heard during SSH; the library's time limits.  Not a peer that
\* answers, a session that ends by itself, or the user, whom SSH may wait for.
System ==
    \/ ResetCompletes
    \/ \E s \in Session : TakeControl(s) \/ NativeStep(s) \/ BootstrapStops(s) \/ LibraryEnds(s)

\* Observations of the peer may follow one another for ever, and so may their
\* delivery, which is on its own therefore; the rest ends with the bounds.
Fairness == WF_vars(System) /\ \A s \in Session : WF_vars(TakeTransport(s))

FairSpec == Spec /\ Fairness
-----------------------------------------------------------------------------
\* Every variable has its type; no queue grows past its room.
TypeOK ==
    /\ native \in [Session -> Record]
    /\ clients \in [Session -> ClientRecord]
    /\ pane \in PaneRecord
    /\ \A s \in Session :
         Len(native[s].written) <= WriteQueue /\ Len(native[s].transport) <= EventQueue

\* What the remote side is given is what was typed, from the beginning and
\* without a gap: after a frame that was refused no later one is admitted
\* (MoshClient.write, which stops the session so that a later Enter cannot
\* submit a command with a hole in it), and one that is told to close has sent
\* all it had admitted (the disconnect branch of run_mosh_protocol).
InputHasNoGaps ==
    \A s \in Session :
        LET input == native[s].sent \o native[s].written IN
        /\ \A i \in DOMAIN input : input[i] = i
        /\ native[s].graceful => native[s].written = <<>>

\* Of a session whose user sees it closed, or stopped for rejected input, the
\* terminal has shown all the output that was handed over, and if it closed,
\* all there was: whatever was queued, paused, or failed on the way
\* (MoshClient.write and handleNativeControlEvent; the drain after the loop).
FinalOutputShown ==
    \A s \in Session :
        /\ clients[s].ending \in {"closed", "rejected"} => clients[s].shown = native[s].handed
        /\ clients[s].ending = "closed" => native[s].handed = native[s].produced

\* At the local prompt the terminal is back on the original page, no session
\* owns it and none is listened to (finishMoshTerminalOwnership; otherwise
\* requestRuntimeRecoveryBeforeIdleInput withholds the user's input).
PageReleased ==
    pane.mode = "IDLE" => ~pane.page /\ ~pane.accepting /\ pane.client = NoneYet

Waiting == {c \in Caller : pane.calls[c] \in {"session", "reset"}}

\* Whoever disconnects the pane, to dispose of it or to close the application,
\* is not left waiting (MoshClient.disconnect, SessionViewModel.disconnect).
DisconnectCompletes ==
    Waiting # {} ~> Waiting = {}

\* A session that is gone does not stay the pane's: its user gets the prompt
\* back, unless the terminal itself has failed.
EndIsNoticed ==
    \A s \in Session :
        IsCurrent(s) /\ native[s].phase = "ended" ~> ~IsCurrent(s) \/ pane.terminalFailed
=============================================================================
