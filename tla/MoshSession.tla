------------------------------ MODULE MoshSession ------------------------------
(***************************************************************************)
(* One Mosh session as the native layer runs it (run_mosh_session,         *)
(* lib.rs): SSH brings up mosh-server and goes away, then a loop joins the *)
(* protocol library to the application until the session ends.             *)
(*                                                                         *)
(* The SSH phases are those of NativeSsh; what matters here is how they    *)
(* end.  The library (mosh-client) is external: it becomes active,         *)
(* produces output, loses and regains its peer, and its task ends.  Input  *)
(* and output are numbered in the order they were made.                    *)
(***************************************************************************)
EXTENDS Naturals, Sequences

CONSTANTS
    MaxSessions,    \* bound: sessions in a behaviour
    MaxInput,       \* bound: input frames typed into one session
    MaxOutput,      \* bound: pieces of output of one session
    WriteQueue,     \* input frames write_rx holds
    EventQueue,     \* events a threadsafe function holds
    None

ASSUME MoshAssumption ==
    /\ MaxSessions \in Nat /\ MaxInput \in Nat /\ MaxOutput \in Nat
    /\ WriteQueue \in Nat \ {0} /\ EventQueue \in Nat \ {0}

\* None is no outcome of a session.
ASSUME NoneAssumption == None \notin {"closed", "failed", "rejected"}

Session == 1..MaxSessions

VARIABLE native

-----------------------------------------------------------------------------
\* draining hands over the last output; stopping gives it up.
Phase == {"none", "ssh", "udp", "running", "draining", "stopping", "ended"}
Live == {"ssh", "udp", "running", "draining", "stopping"}

Reachability == {"awaiting_peer", "responsive", "interrupted"}
TransportEvent == {"data", "close", "failure"} \cup Reachability
ControlEvent == {"connected", "error"}

\* The library: active, reach, produced, and its task's result.
\* The loop: reported, handed, paused, graceful, failing.
\* The channels: written, sent (what the library took), disconnect, events.
Record ==
    [phase : Phase,
     active : BOOLEAN, reach : Reachability, produced : 0..MaxOutput,
     result : {None, "closed", "failed"},
     reported : BOOLEAN, handed : 0..MaxOutput,
     paused : BOOLEAN, graceful : BOOLEAN, failing : BOOLEAN,
     written : Seq(1..MaxInput), sent : Seq(1..MaxInput),
     disconnect : BOOLEAN,
     transport : Seq(TransportEvent), control : Seq(ControlEvent)]

NoSession ==
    [phase |-> "none",
     active |-> FALSE, reach |-> "awaiting_peer", produced |-> 0, result |-> None,
     reported |-> FALSE, handed |-> 0,
     paused |-> FALSE, graceful |-> FALSE, failing |-> FALSE,
     written |-> <<>>, sent |-> <<>>, disconnect |-> FALSE,
     transport |-> <<>>, control |-> <<>>]

\* A blocking call of a threadsafe function waits for room.
HasRoom(n) == Len(n.transport) < EventQueue

Tell(n, event) == [n EXCEPT !.transport = Append(@, event)]
TellControl(n, event) == [n EXCEPT !.control = Append(@, event)]

-----------------------------------------------------------------------------
(* What the application calls.  mosh_write fails when the queue is full or  *)
(* the session is gone, the other calls have nothing to tell.               *)

\* MUTANT: the queue takes what it has no room for.
AdmitsAlways(n) == n.phase \in Live

Admits(n) == n.phase \in Live /\ Len(n.written) < WriteQueue

Signalled(n) == IF n.phase \in Live THEN [n EXCEPT !.disconnect = TRUE] ELSE n

\* The session leaves the map; its channels and the library's state are gone.
Gone(n) ==
    [NoSession EXCEPT !.phase = "ended", !.produced = n.produced, !.handed = n.handed,
                      !.sent = n.sent, !.graceful = n.graceful, !.written = n.written,
                      !.transport = n.transport, !.control = n.control]

-----------------------------------------------------------------------------
(* SSH and the start of mosh-server, then the library's connection.         *)

\* Success, a failure reported by a control event, or a disconnect request,
\* which ends the session without a word.
\* MUTANT: the failure of a bootstrap is not reported.
FailsSilently(n) ==
    IF n.phase # "ssh" THEN {} ELSE {[n EXCEPT !.phase = "udp"]} \cup {Gone(n)}

Bootstrap(n) ==
    IF n.phase # "ssh" THEN {}
    ELSE {[n EXCEPT !.phase = "udp"]} \cup {Gone(TellControl(n, "error"))}

BootstrapCancelled(n) ==
    IF n.phase = "ssh" /\ n.disconnect THEN {Gone(n)} ELSE {}

Connect(n) ==
    IF n.phase = "udp" /\ HasRoom(n)
    THEN {[Tell(n, n.reach) EXCEPT !.phase = "running"],
          Gone(Tell(TellControl(n, "error"), "failure"))}
    ELSE {}

-----------------------------------------------------------------------------
(* The branches of the loop, any that is ready may be next.                 *)

ReportConnected(n) ==
    IF n.active /\ n.result = None /\ ~n.reported
    THEN {[TellControl(n, "connected") EXCEPT !.reported = TRUE]} ELSE {}

HandOutput(n) ==
    IF ~n.paused /\ n.handed < n.produced /\ HasRoom(n)
    THEN {[Tell(n, "data") EXCEPT !.handed = @ + 1]} ELSE {}

\* A request to a library whose task has ended fails, and so does the loop.
Failed(n) == [n EXCEPT !.failing = TRUE, !.phase = "stopping"]

TakeInput(n) ==
    CASE n.graceful \/ n.written = <<>> -> {}
      [] ~n.graceful /\ n.written # <<>> /\ n.result # None -> {Failed(n)}
      [] OTHER -> {[n EXCEPT !.sent = Append(@, Head(n.written)), !.written = Tail(@)]}

\* The terminal pauses or resumes; one that resumes asks for a repaint.  That
\* the loop takes a change when the terminal makes it leaves out only changes
\* that are undone, or come too late, before the loop looks.
OutputPaused(n, value) ==
    CASE n.phase # "running" \/ n.graceful \/ n.paused = value -> n
      [] n.phase = "running" /\ ~n.graceful /\ n.paused /\ ~value /\ n.result # None -> Failed(n)
      [] OTHER -> [n EXCEPT !.paused = value]

\* Everything admitted is sent before the session closes, and output resumes.
TakeDisconnect(n) ==
    CASE ~n.disconnect \/ n.graceful -> {}
      [] n.disconnect /\ ~n.graceful /\ n.written # <<>> /\ n.result # None -> {Failed(n)}
      [] OTHER -> {[n EXCEPT !.disconnect = FALSE, !.sent = @ \o n.written, !.written = <<>>,
                             !.paused = FALSE, !.graceful = TRUE]}

\* record_mosh_task_result.
TaskEnded(n) ==
    IF n.result = None THEN {}
    ELSE {[n EXCEPT !.phase = "draining", !.failing = n.result = "failed"]}

Loop(n) ==
    IF n.phase # "running" THEN {}
    ELSE ReportConnected(n) \cup HandOutput(n) \cup TakeInput(n)
         \cup TakeDisconnect(n) \cup TaskEnded(n)

\* After the loop: the last output, an error if there is one, the close.
Drain(n) ==
    IF n.phase = "draining" /\ n.handed < n.produced /\ HasRoom(n)
    THEN {[Tell(n, "data") EXCEPT !.handed = @ + 1]} ELSE {}

Finish(n) ==
    IF HasRoom(n) /\ (n.phase = "stopping" \/ (n.phase = "draining" /\ n.handed = n.produced))
    THEN {Gone(Tell(IF n.failing THEN TellControl(n, "error") ELSE n,
                    IF n.failing THEN "failure" ELSE "close"))}
    ELSE {}

-----------------------------------------------------------------------------
(* The library.                                                             *)

BecomeActive(n) ==
    IF n.phase = "running" /\ n.result = None /\ ~n.active /\ HasRoom(n)
    THEN {[Tell(n, "responsive") EXCEPT !.active = TRUE, !.reach = "responsive"]} ELSE {}

\* The loop reports a change in its turn; one it has no time to report is none.
ReachabilityChanges(n) ==
    LET next == IF n.reach = "responsive" THEN "interrupted" ELSE "responsive" IN
    IF n.phase = "running" /\ n.result = None /\ n.active /\ HasRoom(n)
    THEN {[Tell(n, next) EXCEPT !.reach = next]} ELSE {}

Produce(n) ==
    IF n.phase = "running" /\ n.result = None /\ n.active /\ n.produced < MaxOutput
    THEN {[n EXCEPT !.produced = @ + 1]} ELSE {}

\* It closes when asked to, or when the server has; it may fail at any time.
TaskEnds(n) ==
    IF n.phase = "running" /\ n.result = None
    THEN {[n EXCEPT !.result = "failed"]}
         \cup (IF n.graceful \/ n.active THEN {[n EXCEPT !.result = "closed"]} ELSE {})
    ELSE {}

\* Asked to close, or without a first contact, it ends in bounded time.
TaskEndsInTime(n) == IF n.graceful \/ ~n.active THEN TaskEnds(n) ELSE {}

-----------------------------------------------------------------------------
Steps(n) == Connect(n) \cup Loop(n) \cup Drain(n) \cup Finish(n)

Become(s, successors) ==
    \E n \in successors : native' = [native EXCEPT ![s] = n]
=============================================================================
