-------------------------------- MODULE SshPane --------------------------------
(***************************************************************************)
(* One terminal pane and its SSH connections: the line typed at ltty> or   *)
(* at a prompt, the session state, the client that stands for the native   *)
(* session, and the boundary that decides whose output the terminal shows  *)
(* (SessionViewModel.ets, SshSession.ets, SshClient.ets).                  *)
(*                                                                         *)
(* Everything of a pane runs on one thread: an action is a task, or the    *)
(* part of an async function between two awaits.  Native sessions run      *)
(* beside it.  File transfer, Mosh and key installation are left out.      *)
(***************************************************************************)
EXTENDS NativeSsh, FiniteSets

CONSTANTS
    FirstLayers,    \* what connections begin with: a jump host, the target
    Excluded        \* situations left out of a run, by name

Situation == {"late teardown", "pasted commands", "close while preparing"}

ASSUME PaneAssumption == FirstLayers \subseteq Layer /\ Excluded \subseteq Situation

VARIABLES
    pane,
    committed       \* host keys the known_hosts file holds: <<session, layer>>

vars == <<native, pane, committed>>

-----------------------------------------------------------------------------
\* PASSWORD_INPUT stands for the three prompts for a secret.
TerminalMode == {"IDLE", "CONNECTING", "HOST_KEY_INPUT", "PASSWORD_INPUT", "CONNECTED"}

SshSessionState == {"IDLE", "CONNECTING", "HOST_VERIFICATION_REQUIRED", "AUTHENTICATING",
                    "CONNECTED", "DISCONNECTED", "FAILED"}

HostKey == Session \X Layer
NoSession == 0

PaneRecord ==
    [mode : TerminalMode, state : SshSessionState,
     \* the terminal boundary: output accepted, reset waited for, reset under way
     accepting : BOOLEAN, resetPending : BOOLEAN, resetting : BOOLEAN,
     \* SshClient
     id : {NoSession} \cup Session, connected : BOOLEAN, waitingAuth : BOOLEAN,
     pendingLayer : {None} \cup Layer, pendingLine : {None} \cup HostKey,
     \* approved keys being written, and whether the approval still stands
     saving : SUBSET [line : HostKey, current : BOOLEAN],
     \* ssh commands waiting for the SSH environment, and how that ended
     commands : 0..2, environment : {"preparing", "ready", "failed"},
     disposed : BOOLEAN, terminalFailed : BOOLEAN,
     \* ghosts: whose boundary this is, whose output it shows, the secret asked for
     owner : {NoSession} \cup Session, screen : SUBSET Session, asked : {None} \cup Prompt]

Init ==
    /\ NativeInit
    /\ committed = {}
    /\ pane = [mode |-> "IDLE", state |-> "IDLE",
               accepting |-> FALSE, resetPending |-> FALSE, resetting |-> FALSE,
               id |-> NoSession, connected |-> FALSE, waitingAuth |-> FALSE,
               pendingLayer |-> None, pendingLine |-> None,
               saving |-> {}, commands |-> 0, environment |-> "preparing",
               disposed |-> FALSE, terminalFailed |-> FALSE,
               owner |-> NoSession, screen |-> {}, asked |-> None]

-----------------------------------------------------------------------------
(* What the handlers are made of.                                           *)

Over == {"DISCONNECTED", "FAILED"}
BeforeShell == {"CONNECTING", "HOST_VERIFICATION_REQUIRED", "AUTHENTICATING"}

MarkFailed(p) == [p EXCEPT !.state = IF @ \in Over THEN @ ELSE "FAILED"]
MarkDisconnected(p) == [p EXCEPT !.state = "DISCONNECTED"]
ResumeConnection(p) == [p EXCEPT !.state = IF @ \in BeforeShell THEN "CONNECTING" ELSE @]

\* MUTANT: a change of mode leaves the approval standing.
NothingRevoked(saving) == saving

Revoked(saving) == {[d EXCEPT !.current = FALSE] : d \in saving}

\* A change of mode revokes the host-key decision that is being saved.
SetMode(p, m) ==
    [p EXCEPT !.mode = m, !.saving = IF m = p.mode THEN @ ELSE Revoked(@),
              !.asked = IF m = p.mode THEN @ ELSE None]

FinishOwnership(p) ==
    [p EXCEPT !.accepting = FALSE, !.resetPending = TRUE, !.resetting = TRUE,
              !.owner = NoSession, !.screen = {}]

\* handleClose, handleError and disconnect forget the session alike; the
\* known_hosts line stays.
ForgetSession(p) ==
    [p EXCEPT !.id = NoSession, !.connected = FALSE, !.waitingAuth = FALSE,
              !.pendingLayer = None]

ReturnToPrompt(p) == FinishOwnership(SetMode(p, "IDLE"))

EndBoundary(p) == IF p.accepting THEN ReturnToPrompt(p) ELSE p

OnError(p) == IF p.state \in Over THEN p ELSE EndBoundary(MarkFailed(p))
\* MUTANT: a close ends the boundary only.
OnCloseOfBoundary(p) == EndBoundary(p)

OnClose(p) == EndBoundary(MarkDisconnected(p))

\* The pane takes no other task while continuations of one await are left.
Draining == pane.environment # "preparing"

TakesInput == ~Draining /\ ~pane.disposed /\ ~pane.resetPending

Only(p) == pane' = p /\ UNCHANGED <<native, committed>>

-----------------------------------------------------------------------------
(* At ltty>: ssh commands, which first wait for the SSH environment.  The   *)
(* pending command is looked for before a batch of input, not within it.    *)

Unused == {s \in Session : native[s].phase = "none"}

SubmitCommand ==
    /\ TakesInput /\ pane.mode = "IDLE" /\ pane.commands = 0
    /\ Unused # {}                                                   \* bound
    /\ \E pasted \in IF "pasted commands" \in Excluded THEN {1} ELSE 1..2 :
        Only([pane EXCEPT !.commands = pasted])

EnvironmentSettles ==
    /\ pane.commands > 0 /\ ~Draining
    /\ "late teardown" \in Excluded =>
        \A s \in Session \ {pane.id} :
            native[s].phase \in {"none", "ended"} /\ native[s].transport = <<>>
    /\ \E outcome \in {"ready", "failed"} : Only([pane EXCEPT !.environment = outcome])

\* connectResolved up to SshClient.connect.
Begun(p) ==
    SetMode([p EXCEPT !.accepting = TRUE, !.resetPending = FALSE, !.resetting = FALSE,
                      !.owner = NoSession, !.screen = {},
                      !.state = IF @ \in {"IDLE"} \cup Over THEN "CONNECTING" ELSE @],
            "CONNECTING")

Continued ==
    LET left == pane.commands - 1 IN
    [pane EXCEPT !.commands = left, !.environment = IF left = 0 THEN "preparing" ELSE @]

ConnectStarts ==
    /\ pane.environment = "ready" /\ pane.id = NoSession
    /\ \E s \in Unused, first \in FirstLayers :
        /\ \A t \in Unused : s <= t
        /\ native' = Started(s, first)
        /\ pane' = [Begun(Continued) EXCEPT !.id = s, !.owner = s]
    /\ UNCHANGED committed

ConnectThrows ==
    /\ pane.environment = "ready" /\ pane.id = NoSession
    /\ Only(ReturnToPrompt(MarkFailed(Begun(Continued))))

\* 'Session already active'.
ConnectRefused ==
    /\ pane.environment = "ready" /\ pane.id # NoSession
    /\ Only(OnError(Begun(Continued)))

CommandFails ==
    /\ pane.environment = "failed"
    /\ Only(Continued)

-----------------------------------------------------------------------------
(* The host-key prompt.                                                     *)

Decided(accepted) ==
    [native EXCEPT ![pane.id].hostKeyTx = [layer |-> pane.pendingLayer, accepted |-> accepted]]

\* verifyHostKey reaches the native session; otherwise it reports an error.
CanVerify ==
    /\ pane.id # NoSession /\ pane.pendingLayer # None
    /\ Listening(pane.id) /\ native[pane.id].hostKeyTx = None

Verified(p) == [p EXCEPT !.pendingLayer = None, !.pendingLine = None]

AcceptHostKey ==
    /\ TakesInput /\ pane.mode = "HOST_KEY_INPUT"
    /\ LET p == SetMode(pane, "CONNECTING") IN
        Only([p EXCEPT !.saving = @ \cup {[line |-> pane.pendingLine, current |-> TRUE]}])

RejectHostKey ==
    /\ TakesInput /\ pane.mode = "HOST_KEY_INPUT"
    /\ native' = IF CanVerify THEN Decided(FALSE) ELSE native
    /\ pane' = ReturnToPrompt(MarkFailed(IF CanVerify THEN Verified(pane) ELSE pane))
    /\ UNCHANGED committed

\* MUTANT: the line is read again when it has been written.
CommitPendingLine(d) ==
    /\ committed' = committed \cup {pane.pendingLine}
    /\ pane' = [pane EXCEPT !.saving = @ \ {d}]
    /\ UNCHANGED native

\* MUTANT: a write that fails is only logged.
CommitIgnoringFailure(d) ==
    LET p == [pane EXCEPT !.saving = @ \ {d}] IN
    \/ Only(p)
    \/ /\ d.current /\ CanVerify
       /\ committed' = committed \cup {d.line}
       /\ native' = Decided(TRUE)
       /\ pane' = ResumeConnection(Verified(p))

\* commitKnownHostLine returns or throws; a revoked approval goes no further.
CommitSettles(d) ==
    LET p == [pane EXCEPT !.saving = @ \ {d}] IN
    \E stored \in BOOLEAN :
        /\ committed' = IF stored THEN committed \cup {d.line} ELSE committed
        /\ IF ~d.current
           THEN pane' = p /\ UNCHANGED native
           ELSE /\ native' = IF CanVerify THEN Decided(stored) ELSE native
                /\ pane' = IF CanVerify /\ stored
                           THEN ResumeConnection(SetMode(Verified(p), "CONNECTING"))
                           ELSE OnError(IF CanVerify THEN Verified(p) ELSE p)

HostKeySaved == ~Draining /\ \E d \in pane.saving : CommitSettles(d)

-----------------------------------------------------------------------------
(* The prompt for a secret, and the keys that end things.                   *)

SubmitPassword ==
    LET sends == /\ pane.waitingAuth /\ pane.id # NoSession /\ pane.pendingLayer # None
                 /\ Listening(pane.id) /\ native[pane.id].authTx = None
        answer == [layer |-> pane.pendingLayer, typedFor |-> pane.asked]
    IN
    /\ TakesInput /\ pane.mode = "PASSWORD_INPUT"
    /\ native' = IF sends THEN [native EXCEPT ![pane.id].authTx = answer] ELSE native
    /\ pane' = IF sends
               THEN ResumeConnection(SetMode([pane EXCEPT !.waitingAuth = FALSE,
                                                          !.pendingLayer = None], "CONNECTING"))
               ELSE OnError(pane)
    /\ UNCHANGED committed

\* MUTANT: the native session is forgotten, not told.
InterruptLocally ==
    /\ TakesInput /\ pane.mode \in {"CONNECTING", "PASSWORD_INPUT", "HOST_KEY_INPUT"}
    /\ Only(ReturnToPrompt(MarkDisconnected(ForgetSession(pane))))

\* Ctrl-C while a connection is being made.
Interrupt ==
    /\ TakesInput /\ pane.mode \in {"CONNECTING", "PASSWORD_INPUT", "HOST_KEY_INPUT"}
    /\ native' = Signalled(pane.id)
    /\ pane' = ReturnToPrompt(MarkDisconnected(ForgetSession(pane)))
    /\ UNCHANGED committed

\* ~. asks the session to end; the pane leaves its mode when it has.
EscapeDisconnect ==
    /\ TakesInput /\ pane.mode = "CONNECTED" /\ pane.id # NoSession
    /\ native' = Signalled(pane.id)
    /\ pane' = ForgetSession(pane)
    /\ UNCHANGED committed

\* Typing when the client has no session any more.
TypeWithoutSession ==
    /\ TakesInput /\ pane.mode = "CONNECTED" /\ ~pane.connected
    /\ Only(OnError(pane))

-----------------------------------------------------------------------------
(* What arrives from native sessions.  Control and authentication events    *)
(* are checked against the client's session; transport events are not.      *)

IsCurrent(s) == pane.id = s

OnControl(p, s, e) ==
    CASE e.kind = "connected" ->
            LET q == [p EXCEPT !.connected = TRUE, !.waitingAuth = FALSE, !.pendingLayer = None] IN
            IF p.state \in BeforeShell
            THEN SetMode([q EXCEPT !.state = "CONNECTED"], "CONNECTED") ELSE q
      [] e.kind = "host_key_prompt" ->
            LET q == [p EXCEPT !.pendingLayer = e.layer, !.pendingLine = <<s, e.layer>>] IN
            IF p.state \in BeforeShell
            THEN SetMode([q EXCEPT !.state = "HOST_VERIFICATION_REQUIRED"], "HOST_KEY_INPUT")
            ELSE q
      [] e.kind = "host_key_changed" ->     \* the client is replaced by a new one
            IF p.state \in Over THEN p
            ELSE ReturnToPrompt([MarkFailed(ForgetSession(p)) EXCEPT !.pendingLine = None])
      [] e.kind = "error" -> OnError(ForgetSession(p))

\* MUTANT: any session's control event is taken.
AnyControlEventArrives(s) ==
    /\ native[s].control # <<>>
    /\ Become(s, [native[s] EXCEPT !.control = Tail(@)])
    /\ pane' = OnControl(pane, s, Head(native[s].control))
    /\ UNCHANGED committed

ControlEventArrives(s) ==
    /\ native[s].control # <<>>
    /\ Become(s, [native[s] EXCEPT !.control = Tail(@)])
    /\ pane' = IF IsCurrent(s) THEN OnControl(pane, s, Head(native[s].control)) ELSE pane
    /\ UNCHANGED committed

OnAuth(p, s, e) ==
    LET q == IF p.state \in BeforeShell THEN [p EXCEPT !.state = "AUTHENTICATING"] ELSE p
        r == [q EXCEPT !.pendingLayer = e.layer, !.waitingAuth = TRUE]
    IN  CASE e.kind = "banner" -> q
          [] e.kind = "prompt" /\ p.state \in BeforeShell ->
                [SetMode(r, "PASSWORD_INPUT") EXCEPT !.asked = <<s, e.layer, e.round>>]
          [] OTHER -> r

\* MUTANT: any session's prompt is shown.
AnyAuthEventArrives(s) ==
    /\ native[s].auth # <<>>
    /\ Become(s, [native[s] EXCEPT !.auth = Tail(@)])
    /\ pane' = OnAuth(pane, s, Head(native[s].auth))
    /\ UNCHANGED committed

AuthEventArrives(s) ==
    /\ native[s].auth # <<>>
    /\ Become(s, [native[s] EXCEPT !.auth = Tail(@)])
    /\ pane' = IF IsCurrent(s) THEN OnAuth(pane, s, Head(native[s].auth)) ELSE pane
    /\ UNCHANGED committed

OnTransport(p, s, e) ==
    CASE e = "data" -> [p EXCEPT !.screen = IF p.accepting THEN @ \cup {s} ELSE @]
      [] e = "close" -> OnClose(ForgetSession(p))
      [] e = "keepalive_timeout" -> OnError(ForgetSession(p))

\* MUTANT: transport events are checked against the client as it is now, which
\* forgets a session as soon as it asks it to end.
CurrentTransportEventArrives(s) ==
    /\ native[s].transport # <<>>
    /\ Become(s, [native[s] EXCEPT !.transport = Tail(@)])
    /\ pane' = IF IsCurrent(s) THEN OnTransport(pane, s, Head(native[s].transport)) ELSE pane
    /\ UNCHANGED committed

TransportEventArrives(s) ==
    /\ native[s].transport # <<>>
    /\ Become(s, [native[s] EXCEPT !.transport = Tail(@)])
    /\ pane' = OnTransport(pane, s, Head(native[s].transport))
    /\ UNCHANGED committed

EventArrives(s) ==
    ~Draining /\ (ControlEventArrives(s) \/ AuthEventArrives(s) \/ TransportEventArrives(s))

-----------------------------------------------------------------------------
(* The terminal surface, and the end of the pane.                           *)

\* Resets of earlier boundaries complete without effect.
ResetCompletes ==
    /\ ~Draining /\ pane.resetting
    /\ Only([pane EXCEPT !.resetPending = FALSE, !.resetting = FALSE])

MayStop == "close while preparing" \in Excluded => pane.commands = 0

SurfaceFails ==
    /\ ~Draining /\ MayStop /\ ~pane.disposed /\ ~pane.terminalFailed
    /\ native' = Signalled(pane.id)
    /\ pane' = [ForgetSession(pane) EXCEPT !.accepting = FALSE, !.terminalFailed = TRUE,
                                           !.resetPending = TRUE, !.resetting = FALSE,
                                           !.owner = NoSession, !.screen = {}]
    /\ UNCHANGED committed

\* PaneRuntime.dispose, SessionViewModel.disconnect.
Dispose ==
    /\ ~Draining /\ MayStop /\ ~pane.disposed
    /\ native' = Signalled(pane.id)
    /\ pane' = SetMode([MarkDisconnected(ForgetSession(pane)) EXCEPT
                            !.disposed = TRUE, !.accepting = FALSE,
                            !.resetPending = FALSE, !.resetting = FALSE,
                            !.saving = Revoked(@), !.owner = NoSession, !.screen = {}], "IDLE")
    /\ UNCHANGED committed

-----------------------------------------------------------------------------
ResumeCommand == ConnectStarts \/ ConnectThrows \/ ConnectRefused \/ CommandFails

UserActs ==
    \/ SubmitCommand \/ AcceptHostKey \/ RejectHostKey \/ SubmitPassword
    \/ Interrupt \/ EscapeDisconnect \/ TypeWithoutSession

Next ==
    \/ NativeNext /\ UNCHANGED <<pane, committed>>
    \/ UserActs
    \/ EnvironmentSettles \/ ResumeCommand
    \/ HostKeySaved
    \/ \E s \in Session : EventArrives(s)
    \/ ResetCompletes \/ SurfaceFails \/ Dispose

Spec == Init /\ [][Next]_vars

(* Fairness.  Callbacks, continuations and the terminal's reset are run by  *)
(* the event loop; storage answers; a native session meets its deadlines    *)
(* and obeys a disconnect request.  Nobody has to type, no remote shell has *)
(* to end, no surface has to fail.                                          *)

NativeSettles(s) ==
    /\ Advances(s) \/ (Closes(s) /\ native[s].disconnectTx)
    /\ UNCHANGED <<pane, committed>>

FairSpec ==
    /\ Spec
    /\ WF_vars(EnvironmentSettles) /\ WF_vars(ResumeCommand)
    /\ WF_vars(HostKeySaved) /\ WF_vars(ResetCompletes)
    /\ \A s \in Session : WF_vars(NativeSettles(s)) /\ WF_vars(EventArrives(s))

-----------------------------------------------------------------------------
(* Properties.                                                              *)

TypeOK ==
    /\ native \in [Session -> SessionRecord]
    /\ pane \in PaneRecord
    /\ committed \subseteq HostKey

\* An approved key is trusted by the session that asked, for the layer that
\* asked, and only after known_hosts holds it: an approval that was revoked
\* while it was written never reaches a session.
TrustedOnlyOnceStored ==
    \A s \in Session, l \in Layer : l \in native[s].trusted => <<s, l>> \in committed

\* A secret typed at a prompt is sent to the session, the layer and the round
\* that showed this prompt, whatever was cancelled or retried in between.
SecretsReachTheirPrompt ==
    \A s \in Session :
        LET n == native[s] IN
        n.authTx # None => n.authTx.typedFor = <<s, n.layer, n.asks>>

\* A session that is on its way out whatever the user does next.
Leaving(n) ==
    \/ n.phase \in {"none", "refused", "broken", "ending", "ended"}
    \/ n.disconnectTx
    \/ n.hostKeyTx # None /\ ~n.hostKeyTx.accepted

\* Back at ltty>, and once a pane is closed or its terminal has failed, nothing
\* the pane started lives on out of its reach.
NothingLeftBehind ==
    pane.mode = "IDLE" \/ pane.disposed \/ pane.terminalFailed =>
        \A s \in Session : Leaving(native[s])

\* The mode, the session state and the screen tell the same story: the output
\* shown is the boundary's owner's, a prompt on screen can be answered, and
\* input withheld for a reset comes back.
PaneConsistent ==
    \/ pane.terminalFailed
    \/ /\ pane.screen \subseteq {pane.owner}
       /\ pane.mode = "IDLE" => pane.state \in {"IDLE"} \cup Over
       /\ pane.mode = "CONNECTED" => pane.state = "CONNECTED"
       /\ pane.mode \in {"CONNECTING", "HOST_KEY_INPUT", "PASSWORD_INPUT"} =>
            pane.state \in BeforeShell /\ pane.id # NoSession
       /\ pane.mode = "HOST_KEY_INPUT" => pane.pendingLayer # None
       /\ pane.mode = "PASSWORD_INPUT" => pane.pendingLayer # None /\ pane.waitingAuth
       /\ pane.resetPending => pane.resetting

\* While the client stands for one session, no event of another changes the
\* pane.
Arrives(s) ==
    \/ Len(native'[s].control) < Len(native[s].control)
    \/ Len(native'[s].auth) < Len(native[s].auth)
    \/ Len(native'[s].transport) < Len(native[s].transport)

LateEventsIgnored ==
    [][pane' # pane /\ pane.id # NoSession =>
        \A s \in Session \ {pane.id} : ~Arrives(s)]_vars

\* Once the pane is CONNECTING it gets somewhere: a prompt, a shell, ltty>.
EveryAttemptSettles ==
    (pane.mode = "CONNECTING") ~> (pane.mode # "CONNECTING" \/ pane.terminalFailed)

\* A shell that was left with ~. gives the prompt back, ready for input.
DisconnectReturnsToPrompt ==
    (pane.mode = "CONNECTED" /\ pane.id = NoSession)
        ~> ((pane.mode = "IDLE" /\ ~pane.resetPending) \/ pane.terminalFailed)
=============================================================================
