------------------------------- MODULE NativeSsh -------------------------------
(***************************************************************************)
(* One SSH session as the native layer runs it (run_session, lib.rs): the  *)
(* phases of a connection, directly or over a jump host, and the channels  *)
(* that join it to the application.                                        *)
(*                                                                         *)
(* Three threadsafe functions carry events to the application, each in     *)
(* order, none ordered against another; three bounded channels bring back  *)
(* the host-key decision, the authentication answer and the disconnect     *)
(* request.  A wait for the network races the disconnect request.          *)
(***************************************************************************)
EXTENDS Naturals, Sequences

CONSTANTS
    MaxSessions,    \* bound: connections started in a behaviour
    MaxAsks,        \* bound: secrets one session asks for
    MaxData,        \* bound: pieces of output of one session
    None

ASSUME NativeAssumption == MaxSessions \in Nat /\ MaxAsks \in Nat /\ MaxData \in Nat

Session == 1..MaxSessions
Layer == {"jump", "target"}

VARIABLE native

-----------------------------------------------------------------------------
Phase == {"none", "connecting", "hostKey", "refused", "authenticating", "waitingAuth",
          "shell", "connected", "broken", "ending", "ended"}

ControlEvent == [kind : {"host_key_prompt", "host_key_changed", "connected", "error"},
                 layer : Layer]
AuthEvent == [kind : {"banner", "prompt"}, layer : Layer, round : 0..MaxAsks]
TransportEvent == {"data", "close", "keepalive_timeout"}

\* What a session asks its user for: the round distinguishes its prompts.
Prompt == Session \X Layer \X (1..MaxAsks)

HostKeyDecision == [layer : Layer, accepted : BOOLEAN]
AuthAnswer == [layer : Layer, typedFor : {None} \cup Prompt]

\* None stands for an empty field, and is none of what fills one.
ASSUME NoneAssumption ==
    /\ None \notin Layer /\ None \notin Prompt /\ None \notin Session \X Layer
    /\ None \notin HostKeyDecision /\ None \notin AuthAnswer

SessionRecord ==
    [phase : Phase, layer : Layer,
     control : Seq(ControlEvent), auth : Seq(AuthEvent), transport : Seq(TransportEvent),
     hostKeyTx : {None} \cup HostKeyDecision, authTx : {None} \cup AuthAnswer,
     disconnectTx : BOOLEAN,
     trusted : SUBSET Layer,        \* ghost: keys trusted on the user's decision
     asks : 0..MaxAsks, sent : 0..MaxData]

Absent == [phase |-> "none", layer |-> "target",
           control |-> <<>>, auth |-> <<>>, transport |-> <<>>,
           hostKeyTx |-> None, authTx |-> None, disconnectTx |-> FALSE,
           trusted |-> {}, asks |-> 0, sent |-> 0]

NativeInit == native = [s \in Session |-> Absent]

Become(s, n) == native' = [native EXCEPT ![s] = n]

\* The waits during which a disconnect request is heard.
Waiting == {"connecting", "hostKey", "refused", "authenticating", "waitingAuth", "shell"}

\* The session is in the map, and its receivers are alive: a send succeeds
\* while the channel has room.
Listening(s) == native[s].phase \notin {"none", "ended"}

-----------------------------------------------------------------------------
(* What the application calls.                                              *)

\* ssh_connect, with or without a jump host.
Started(s, firstLayer) ==
    [native EXCEPT ![s] = [Absent EXCEPT !.phase = "connecting", !.layer = firstLayer]]

\* ssh_disconnect; nothing when the session is gone.
Signalled(s) ==
    [t \in Session |->
        IF t = s /\ Listening(t) THEN [native[t] EXCEPT !.disconnectTx = TRUE] ELSE native[t]]

-----------------------------------------------------------------------------
(* The host key: known, unknown, or not the one on record.  Nothing limits  *)
(* the time the user takes; the decision for another layer is dropped.      *)

CheckServerKey(s) ==
    LET n == native[s] IN
    /\ n.phase = "connecting"
    /\ \/ Become(s, [n EXCEPT !.phase = "authenticating"])
       \/ Become(s, [n EXCEPT !.phase = "hostKey",
                              !.control = Append(@, [kind |-> "host_key_prompt", layer |-> n.layer])])
       \/ Become(s, [n EXCEPT !.phase = "refused",
                              !.control = Append(@, [kind |-> "host_key_changed", layer |-> n.layer])])

TakeHostKeyDecision(s) ==
    LET n == native[s]
        decision == n.hostKeyTx
        taken == [n EXCEPT !.hostKeyTx = None]
    IN
    /\ n.phase = "hostKey" /\ decision # None
    /\ Become(s, CASE decision.layer # n.layer -> taken
                   [] decision.layer = n.layer /\ decision.accepted ->
                        [taken EXCEPT !.phase = "authenticating", !.trusted = @ \cup {n.layer}]
                   [] OTHER -> [taken EXCEPT !.phase = "refused"])

-----------------------------------------------------------------------------
(* Authentication: by key without a word, or by asking the user.            *)

AskAuth(s) ==
    LET n == native[s] IN
    /\ n.phase = "authenticating" /\ n.asks < MaxAsks
    /\ Become(s, [n EXCEPT !.phase = "waitingAuth", !.asks = @ + 1,
                           !.auth = Append(@, [kind |-> "prompt", layer |-> n.layer,
                                               round |-> n.asks + 1])])

TakeAuthAnswer(s) ==
    LET n == native[s] IN
    /\ n.phase = "waitingAuth" /\ n.authTx # None
    /\ Become(s, [n EXCEPT !.authTx = None,
                           !.phase = IF n.authTx.layer = n.layer THEN "authenticating" ELSE @])

AuthBanner(s) ==
    LET n == native[s] IN
    /\ n.phase = "authenticating"
    /\ \A i \in DOMAIN n.auth : n.auth[i].kind # "banner"         \* bound
    /\ Become(s, [n EXCEPT !.auth = Append(@, [kind |-> "banner", layer |-> n.layer, round |-> 0])])

\* The jump host leads on to the target, the target to its shell.
AuthSucceeds(s) ==
    LET n == native[s] IN
    /\ n.phase = "authenticating"
    /\ Become(s, IF n.layer = "jump"
                 THEN [n EXCEPT !.layer = "target", !.phase = "connecting"]
                 ELSE [n EXCEPT !.phase = "shell"])

ShellOpens(s) ==
    LET n == native[s] IN
    /\ n.phase = "shell"
    /\ Become(s, [n EXCEPT !.phase = "connected",
                           !.control = Append(@, [kind |-> "connected", layer |-> "target"])])

-----------------------------------------------------------------------------
(* How a session ends.                                                      *)

\* A refused key, a failure or a deadline: one control error.
Fails(s) ==
    LET n == native[s] IN
    /\ n.phase \in Waiting \ {"hostKey"}
    /\ Become(s, [n EXCEPT !.phase = "ending",
                           !.control = Append(@, [kind |-> "error", layer |-> n.layer])])

\* The disconnect request wins a wait: the session leaves without an event.
Cancelled(s) ==
    /\ native[s].phase \in Waiting /\ native[s].disconnectTx
    /\ Become(s, [native[s] EXCEPT !.phase = "ending"])

Output(s) ==
    LET n == native[s] IN
    /\ n.phase \in {"connected", "broken"} /\ n.sent < MaxData
    /\ Become(s, [n EXCEPT !.sent = @ + 1, !.transport = Append(@, "data")])

\* The channel writer reports an error and goes on; nothing else stops.
WriteFails(s) ==
    LET n == native[s] IN
    /\ n.phase = "connected"
    /\ Become(s, [n EXCEPT !.phase = "broken",
                           !.control = Append(@, [kind |-> "error", layer |-> "target"])])

\* The local request, the remote side or the network ends the session: the
\* output still held is delivered, then the close.
Closes(s) ==
    LET n == native[s] IN
    /\ n.phase \in {"connected", "broken"}
    /\ \E held \in {<<>>, <<"data">>}, kind \in {"close", "keepalive_timeout"} :
        /\ n.sent + Len(held) <= MaxData
        /\ Become(s, [n EXCEPT !.phase = "ending", !.sent = @ + Len(held),
                               !.transport = @ \o Append(held, kind)])

\* The routes are down; the session leaves the map with all it held.  Only the
\* events it has sent remain.
Ends(s) ==
    LET n == native[s] IN
    /\ n.phase = "ending"
    /\ Become(s, [Absent EXCEPT !.phase = "ended", !.control = n.control, !.auth = n.auth,
                                !.transport = n.transport])

-----------------------------------------------------------------------------
\* What a session does within bounded time, by its deadlines: the user's
\* decision and the remote shell's end are not among them.
Advances(s) ==
    \/ CheckServerKey(s) \/ TakeHostKeyDecision(s)
    \/ AskAuth(s) \/ TakeAuthAnswer(s) \/ AuthSucceeds(s) \/ ShellOpens(s)
    \/ Fails(s) \/ Cancelled(s) \/ Ends(s)

NativeNext ==
    \E s \in Session :
        Advances(s) \/ AuthBanner(s) \/ Output(s) \/ WriteFails(s) \/ Closes(s)
=============================================================================
