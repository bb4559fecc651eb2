---------------------------- MODULE SshPane_proofs ----------------------------
(***************************************************************************)
(* For any number of sessions, prompts and pieces of output: the type      *)
(* invariant of SshPane, that keys are trusted only once stored and that   *)
(* secrets reach their prompt, in every situation; and, in those the runs  *)
(* do not exclude, that late events are ignored, that nothing is left      *)
(* behind and that the pane is consistent.                                 *)
(***************************************************************************)
EXTENDS SshPane, TLAPS

Prompting == {"CONNECTING", "HOST_KEY_INPUT", "PASSWORD_INPUT"}

-----------------------------------------------------------------------------
(* The invariant that holds in every situation.                             *)

\* What the mode says of the rest of the pane, but for the session state.
ModeInv(p) ==
    /\ p \in PaneRecord
    /\ p.environment # "preparing" => p.commands > 0
    /\ p.commands > 0 => p.mode = "IDLE" \/ (p.environment # "preparing" /\ p.id # NoSession)
    /\ p.mode # "IDLE" /\ p.id # NoSession => p.accepting
    /\ p.asked # None <=> p.mode = "PASSWORD_INPUT"
    /\ p.asked # None /\ p.id # NoSession => p.asked[1] = p.id
    /\ p.mode = "HOST_KEY_INPUT" =>
        /\ p.pendingLine # None
        /\ p.id # NoSession /\ p.pendingLayer # None => p.pendingLine = <<p.id, p.pendingLayer>>
    /\ \A d \in p.saving : d.current =>
        /\ p.mode = "CONNECTING"
        /\ p.id # NoSession /\ p.pendingLayer # None => d.line = <<p.id, p.pendingLayer>>

StateInv(p) ==
    /\ p.mode = "IDLE" => p.state \in {"IDLE"} \cup Over
    /\ p.mode \in Prompting /\ p.id # NoSession => p.state \in BeforeShell

PaneInv(p) == ModeInv(p) /\ StateInv(p)

\* A prompt on its way is the one the session waits to have answered.
AuthQueueInv(n) ==
    \A i \in DOMAIN n.auth : n.auth[i].kind = "prompt" =>
        /\ n.phase \in {"waitingAuth", "ending", "ended"}
        /\ n.authTx = None
        /\ n.auth[i].round # 0
        /\ n.phase # "ended" => n.auth[i].layer = n.layer /\ n.auth[i].round = n.asks
        /\ \A j \in DOMAIN n.auth : n.auth[j].kind = "prompt" => j = i

SessionInv(n) ==
    /\ n \in SessionRecord
    /\ AuthQueueInv(n)
    /\ n.authTx # None => n.phase \in {"waitingAuth", "ending"}

\* A prompt on the screen is one the session still waits to have answered.
AskedInv(n, s, asked) ==
    asked # None /\ asked[1] = s =>
        /\ n.phase \in {"waitingAuth", "ending", "ended"}
        /\ n.authTx = None
        /\ n.phase # "ended" => asked = <<s, n.layer, n.asks>>
        /\ \A i \in DOMAIN n.auth : n.auth[i].kind # "prompt"

TrustInv(n, s, stored) ==
    /\ \A l \in n.trusted : <<s, l>> \in stored
    /\ n.hostKeyTx # None /\ n.hostKeyTx.accepted => <<s, n.hostKeyTx.layer>> \in stored

SecretInv(n, s) == n.authTx # None => n.authTx.typedFor = <<s, n.layer, n.asks>>

SessionsInv ==
    \A s \in Session :
        /\ SessionInv(native[s])
        /\ AskedInv(native[s], s, pane.asked)
        /\ TrustInv(native[s], s, committed)
        /\ SecretInv(native[s], s)

IInv ==
    /\ native \in [Session -> SessionRecord]
    /\ committed \subseteq HostKey
    /\ PaneInv(pane)
    /\ SessionsInv

-----------------------------------------------------------------------------
(* What holds besides when the situations of Situation are left out.        *)

KeyPrompt(n, i) == n.control[i].kind = "host_key_prompt"

\* A question about a host key on its way is the one the session waits to have
\* answered, an answer is for the key it asks about, and the last events of a
\* session come last.
KeyQueueInv(n) ==
    /\ \A i \in DOMAIN n.control : KeyPrompt(n, i) =>
        /\ n.phase \in {"hostKey", "ending", "ended"}
        /\ n.hostKeyTx = None
        /\ n.phase # "ended" => n.control[i].layer = n.layer
        /\ \A j \in DOMAIN n.control : KeyPrompt(n, j) => j = i
    /\ n.hostKeyTx # None => n.phase \in {"hostKey", "ending"} /\ n.hostKeyTx.layer = n.layer
    /\ \A i \in DOMAIN n.control : n.control[i].kind \in {"host_key_changed", "error"} =>
        n.phase \in {"refused", "broken", "ending", "ended"}
    /\ \A i \in DOMAIN n.transport : n.transport[i] # "data" => n.phase \in {"ending", "ended"}

\* The host key that is asked about, or whose approval is being stored, is
\* still undecided.
UndecidedInv(p, n) ==
    (p.mode = "HOST_KEY_INPUT" \/ \E d \in p.saving : d.current) =>
        /\ p.pendingLayer # None
        /\ n.phase \in {"hostKey", "ending", "ended"}
        /\ n.hostKeyTx = None
        /\ n.phase # "ended" => p.pendingLayer = n.layer
        /\ \A i \in DOMAIN n.control : ~KeyPrompt(n, i)

Silent(n) == n.phase \in {"none", "ended"} /\ n.transport = <<>>

\* Sessions the pane neither stands for nor listens to have ended.  This part
\* needs only that connections begin after the teardown of the last.
LateInv(p) ==
    /\ p.environment # "preparing" => \A s \in Session \ {p.id} : Silent(native[s])
    /\ p.id # NoSession \/ p.accepting => \A s \in Session \ {p.id, p.owner} : Silent(native[s])
    /\ p.id # NoSession /\ p.owner # NoSession => p.id = p.owner
    /\ p.accepting => p.owner # NoSession

Stopped(p) == p.disposed \/ p.terminalFailed

\* The boundary of the terminal, and what is left of a pane that has stopped.
CoreInv(p) ==
    /\ p.commands \in 0..1 /\ (p.commands > 0 => p.mode = "IDLE")
    /\ p.mode = "IDLE" => ~p.accepting
    /\ ~p.accepting => p.owner = NoSession /\ p.screen = {}
    /\ p.screen \subseteq {p.owner}
    /\ ~p.terminalFailed =>
        /\ p.mode # "IDLE" => p.accepting
        /\ p.resetPending => p.resetting
    /\ Stopped(p) =>
        /\ p.id = NoSession /\ ~p.accepting /\ p.commands = 0
        /\ p.disposed \/ (p.resetPending /\ ~p.resetting)
    /\ p.disposed => p.mode = "IDLE"

\* What is on the screen can be answered.
PromptInv(p) ==
    ~p.terminalFailed =>
        /\ p.mode = "CONNECTED" => p.state = "CONNECTED" /\ (p.id # NoSession => p.connected)
        /\ p.mode \in Prompting => p.id # NoSession
        /\ p.mode = "PASSWORD_INPUT" => p.pendingLayer # None /\ p.waitingAuth

LeavingInv(p) ==
    \A s \in Session : s # p.id \/ p.mode = "IDLE" \/ Stopped(p) => Leaving(native[s])

TidyInv ==
    /\ CoreInv(pane) /\ PromptInv(pane) /\ LeavingInv(pane)
    /\ \A s \in Session : KeyQueueInv(native[s])
    /\ pane.id # NoSession => UndecidedInv(pane, native[pane.id])

EInv == LateInv(pane) /\ TidyInv

-----------------------------------------------------------------------------
(* One session, beside its prompt on the screen and the keys stored.        *)

SessionOK(n, s, asked, stored) ==
    SessionInv(n) /\ AskedInv(n, s, asked) /\ TrustInv(n, s, stored) /\ SecretInv(n, s)

NoPrompt(n) == \A i \in DOMAIN n.auth : n.auth[i].kind # "prompt"

\* Outside these phases no prompt is on its way and none is answered.
AskingPhase == {"waitingAuth", "ending", "ended"}

LEMMA QuietSession ==
    ASSUME NEW n, NEW s \in Session, NEW asked, NEW stored,
           SessionOK(n, s, asked, stored), n.phase \notin AskingPhase
    PROVE  NoPrompt(n) /\ n.authTx = None /\ (asked # None => asked[1] # s)
  BY DEF SessionOK, SessionInv, AuthQueueInv, AskedInv, NoPrompt, AskingPhase

\* What a session does while it asks nothing.
LEMMA QuietStep ==
    ASSUME NEW n, NEW m \in SessionRecord, NEW s \in Session, NEW asked, NEW stored,
           SessionOK(n, s, asked, stored), n.phase \notin AskingPhase,
           m.auth = n.auth \/ (NoPrompt(n) => NoPrompt(m)),
           m.authTx = n.authTx, TrustInv(m, s, stored)
    PROVE  SessionOK(m, s, asked, stored)
  <1>1. NoPrompt(m) /\ m.authTx = None /\ (asked # None => asked[1] # s)
    BY QuietSession DEF NoPrompt
  <1> QED
    BY <1>1 DEF SessionOK, SessionInv, AuthQueueInv, AskedInv, SecretInv, NoPrompt

\* What leaves the question and its answer alone, and the end of a session.
LEMMA SameQuestion ==
    ASSUME NEW n, NEW m \in SessionRecord, NEW s \in Session, NEW asked, NEW stored,
           SessionOK(n, s, asked, stored), m.auth = n.auth, TrustInv(m, s, stored),
           \/ /\ m.layer = n.layer /\ m.asks = n.asks /\ m.authTx = n.authTx
              /\ m.phase = n.phase \/ (m.phase = "ending" /\ n.phase # "ended")
           \/ n.phase = "ending" /\ m.phase = "ended" /\ m.authTx = None
    PROVE  SessionOK(m, s, asked, stored)
  <1>1. SessionInv(m)
    BY DEF SessionOK, SessionInv, AuthQueueInv
  <1>2. AskedInv(m, s, asked)
    BY DEF SessionOK, AskedInv
  <1> QED
    BY <1>1, <1>2 DEF SessionOK, SecretInv

\* A prompt that leaves the screen, and keys that are added to those stored.
LEMMA MoreStored ==
    ASSUME NEW n, NEW s \in Session, NEW asked, NEW stored, NEW after,
           SessionOK(n, s, asked, stored), stored \subseteq after
    PROVE  SessionOK(n, s, asked, after) /\ SessionOK(n, s, None, after)
  BY DEF SessionOK, AskedInv, TrustInv

-----------------------------------------------------------------------------
(* What the native session does on its own.                                 *)

\* A step of the session s from n to m, in whatever pane p it happens.
NativeStepOK(n, m, s) ==
    /\ m \in SessionRecord
    /\ \A asked, stored : SessionOK(n, s, asked, stored) => SessionOK(m, s, asked, stored)
    /\ n.phase \notin {"none", "ended"}
    /\ KeyQueueInv(n) =>
        /\ KeyQueueInv(m)
        /\ Leaving(n) => Leaving(m)
        /\ \A p : UndecidedInv(p, n) => UndecidedInv(p, m)

LEMMA AppendTyped ==
    ASSUME NEW n \in SessionRecord
    PROVE  /\ \A e \in ControlEvent : Append(n.control, e) \in Seq(ControlEvent)
           /\ \A e \in AuthEvent : Append(n.auth, e) \in Seq(AuthEvent)
           /\ \A e \in TransportEvent : Append(n.transport, e) \in Seq(TransportEvent)
  BY DEF SessionRecord

LEMMA AppendElements ==
    ASSUME NEW S, NEW q \in Seq(S), NEW e \in S
    PROVE  /\ DOMAIN Append(q, e) = DOMAIN q \cup {Len(q) + 1} /\ Len(q) + 1 \notin DOMAIN q
           /\ \A i \in DOMAIN q : Append(q, e)[i] = q[i]
           /\ Append(q, e)[Len(q) + 1] = e
  OBVIOUS

\* A control event that is sent: a question about a host key is the only one on
\* its way, and the last events come in their phases.
LEMMA ControlSent ==
    ASSUME NEW n \in SessionRecord, NEW m, NEW e \in ControlEvent, KeyQueueInv(n),
           n.phase \notin {"hostKey", "ending", "ended"},
           m.control = Append(n.control, e), m.transport = n.transport,
           m.hostKeyTx = n.hostKeyTx,
           e.kind = "host_key_prompt" => m.phase = "hostKey" /\ e.layer = m.layer,
           \/ m.phase \in {"refused", "broken", "ending"}
           \/ n.phase \notin {"refused", "broken"} /\ e.kind \notin {"host_key_changed", "error"}
    PROVE  KeyQueueInv(m)
  <1> DEFINE last == Len(n.control) + 1
  <1>1. /\ DOMAIN m.control = DOMAIN n.control \cup {last}
        /\ \A i \in DOMAIN n.control : m.control[i] = n.control[i]
        /\ m.control[last] = e
    BY AppendElements DEF SessionRecord
  <1> HIDE DEF last
  <1>2. /\ \A i \in DOMAIN n.control : ~KeyPrompt(n, i)
        /\ n.hostKeyTx = None
        /\ \A i \in DOMAIN n.transport : n.transport[i] = "data"
    BY DEF KeyQueueInv, SessionRecord
  <1>3. \A i \in DOMAIN m.control : KeyPrompt(m, i) => i = last /\ e.kind = "host_key_prompt"
    BY <1>1, <1>2 DEF KeyPrompt
  <1> QED
    BY <1>1, <1>2, <1>3 DEF KeyQueueInv, KeyPrompt

LEMMA CheckServerKeyOK ==
    ASSUME NEW s \in Session, native[s] \in SessionRecord, CheckServerKey(s)
    PROVE  \E m : Become(s, m) /\ NativeStepOK(native[s], m, s)
  <1> DEFINE n == native[s]
             event(kind) == [kind |-> kind, layer |-> n.layer]
  <1>1. n.phase = "connecting" /\ n.layer \in Layer
    BY DEF CheckServerKey, SessionRecord
  <1>2. PICK m : /\ Become(s, m)
                 /\ \/ m = [n EXCEPT !.phase = "authenticating"]
                    \/ m = [n EXCEPT !.phase = "hostKey",
                                     !.control = Append(@, event("host_key_prompt"))]
                    \/ m = [n EXCEPT !.phase = "refused",
                                     !.control = Append(@, event("host_key_changed"))]
    BY DEF CheckServerKey
  <1>3. event("host_key_prompt") \in ControlEvent /\ event("host_key_changed") \in ControlEvent
    BY <1>1 DEF ControlEvent
  <1>4. /\ Append(n.control, event("host_key_prompt")) \in Seq(ControlEvent)
        /\ Append(n.control, event("host_key_changed")) \in Seq(ControlEvent)
    BY <1>3, AppendTyped
  <1>5. /\ m \in SessionRecord /\ m.auth = n.auth /\ m.authTx = n.authTx
        /\ m.hostKeyTx = n.hostKeyTx /\ m.trusted = n.trusted /\ m.layer = n.layer
        /\ m.transport = n.transport /\ m.disconnectTx = n.disconnectTx
        /\ \/ m.phase = "authenticating" /\ m.control = n.control
           \/ m.phase = "hostKey" /\ m.control = Append(n.control, event("host_key_prompt"))
           \/ m.phase = "refused" /\ m.control = Append(n.control, event("host_key_changed"))
    BY <1>2, <1>4, ZenonT(60) DEF SessionRecord, Phase
  <1>6. ASSUME NEW asked, NEW stored, SessionOK(n, s, asked, stored)
        PROVE  SessionOK(m, s, asked, stored)
    <2>1. n.phase \notin AskingPhase
      BY <1>1 DEF AskingPhase
    <2>2. TrustInv(m, s, stored)
      BY <1>5, <1>6 DEF SessionOK, TrustInv
    <2> QED
      BY <1>5, <1>6, <2>1, <2>2, QuietStep
  <1>7. ASSUME KeyQueueInv(n)
        PROVE  /\ KeyQueueInv(m)
               /\ Leaving(n) => Leaving(m)
               /\ \A p : UndecidedInv(p, n) => UndecidedInv(p, m)
    <2>1. KeyQueueInv(m)
      <3>1. CASE m.phase = "authenticating"
        BY <1>1, <1>5, <1>7, <3>1 DEF KeyQueueInv, KeyPrompt
      <3>2. CASE m.phase = "hostKey"
        BY <1>1, <1>3, <1>5, <1>7, <3>2, ControlSent
      <3>3. CASE m.phase = "refused"
        BY <1>1, <1>3, <1>5, <1>7, <3>3, ControlSent
      <3> QED
        BY <1>5, <3>1, <3>2, <3>3
    <2>2. Leaving(n) => Leaving(m)
      BY <1>1, <1>5, <1>7 DEF KeyQueueInv, Leaving
    <2>3. ASSUME NEW p, UndecidedInv(p, n) PROVE UndecidedInv(p, m)
      BY <1>1, <2>3 DEF UndecidedInv
    <2> QED
      BY <2>1, <2>2, <2>3
  <1> QED
    BY <1>1, <1>2, <1>5, <1>6, <1>7 DEF NativeStepOK

\* A session whose control queue and host-key decision stay as they are.
LEMMA ControlKept ==
    ASSUME NEW n \in SessionRecord, NEW m, KeyQueueInv(n),
           m.control = n.control, m.hostKeyTx = n.hostKeyTx, m.transport = n.transport,
           m.disconnectTx = n.disconnectTx, n.phase \notin {"refused", "broken", "ended"},
           \/ n.phase \notin {"hostKey", "ending"}
           \/ m.phase = "ending" /\ m.layer = n.layer
    PROVE  /\ KeyQueueInv(m)
           /\ n.phase \notin {"hostKey", "ending", "none"} => (Leaving(n) => Leaving(m))
           /\ \A p : UndecidedInv(p, n) => UndecidedInv(p, m)
  <1>1. KeyQueueInv(m)
    BY DEF KeyQueueInv, KeyPrompt
  <1>2. ASSUME NEW p, UndecidedInv(p, n) PROVE UndecidedInv(p, m)
    BY <1>2 DEF UndecidedInv, KeyPrompt
  <1>3. n.phase \notin {"hostKey", "ending", "none"} => (Leaving(n) => Leaving(m))
    BY DEF Leaving, KeyQueueInv
  <1> QED
    BY <1>1, <1>2, <1>3

LEMMA TakeHostKeyDecisionOK ==
    ASSUME NEW s \in Session, native[s] \in SessionRecord, TakeHostKeyDecision(s)
    PROVE  \E m : Become(s, m) /\ NativeStepOK(native[s], m, s)
  <1> DEFINE n == native[s]
             taken == [n EXCEPT !.hostKeyTx = None]
  <1>1. /\ n.phase = "hostKey" /\ n.hostKeyTx # None /\ n.layer \in Layer
        /\ n.hostKeyTx.accepted \in BOOLEAN /\ n.hostKeyTx.layer \in Layer
    BY DEF TakeHostKeyDecision, SessionRecord, HostKeyDecision
  <1>2. taken \in SessionRecord /\ taken.trusted = n.trusted
    BY DEF SessionRecord
  <1>3. PICK m : /\ Become(s, m)
                 /\ \/ n.hostKeyTx.layer # n.layer /\ m = taken
                    \/ /\ n.hostKeyTx.layer = n.layer /\ n.hostKeyTx.accepted
                       /\ m = [taken EXCEPT !.phase = "authenticating", !.trusted = @ \cup {n.layer}]
                    \/ /\ n.hostKeyTx.layer = n.layer /\ ~n.hostKeyTx.accepted
                       /\ m = [taken EXCEPT !.phase = "refused"]
    <2>1. CASE n.hostKeyTx.layer # n.layer
      BY <1>1, <2>1 DEF TakeHostKeyDecision
    <2>2. CASE n.hostKeyTx.layer = n.layer /\ n.hostKeyTx.accepted
      BY <1>1, <2>2 DEF TakeHostKeyDecision
    <2>3. CASE n.hostKeyTx.layer = n.layer /\ ~n.hostKeyTx.accepted
      BY <1>1, <2>3 DEF TakeHostKeyDecision
    <2> QED
      BY <1>1, <2>1, <2>2, <2>3
  <1>4. taken.auth = n.auth /\ taken.authTx = n.authTx /\ taken.hostKeyTx = None
        /\ taken.layer = n.layer /\ taken.transport = n.transport
        /\ taken.disconnectTx = n.disconnectTx /\ taken.control = n.control
        /\ taken.phase = n.phase
    BY DEF SessionRecord
  <1> HIDE DEF taken
  <1>5. /\ m \in SessionRecord /\ m.auth = n.auth /\ m.authTx = n.authTx
        /\ m.hostKeyTx = None /\ m.layer = n.layer /\ m.transport = n.transport
        /\ m.disconnectTx = n.disconnectTx /\ m.control = n.control
        /\ \/ n.hostKeyTx.layer # n.layer /\ m.phase = "hostKey" /\ m.trusted = n.trusted
           \/ /\ n.hostKeyTx.layer = n.layer /\ n.hostKeyTx.accepted
              /\ m.phase = "authenticating" /\ m.trusted = n.trusted \cup {n.layer}
           \/ /\ n.hostKeyTx.layer = n.layer /\ ~n.hostKeyTx.accepted
              /\ m.phase = "refused" /\ m.trusted = n.trusted
    <2>1. CASE n.hostKeyTx.layer # n.layer /\ m = taken
      BY <1>1, <1>2, <1>4, <2>1
    <2>2. CASE /\ n.hostKeyTx.layer = n.layer /\ n.hostKeyTx.accepted
               /\ m = [taken EXCEPT !.phase = "authenticating", !.trusted = @ \cup {n.layer}]
      BY <1>1, <1>2, <1>4, <2>2 DEF SessionRecord, Phase
    <2>3. CASE /\ n.hostKeyTx.layer = n.layer /\ ~n.hostKeyTx.accepted
               /\ m = [taken EXCEPT !.phase = "refused"]
      BY <1>1, <1>2, <1>4, <2>3 DEF SessionRecord, Phase
    <2> QED
      BY <1>3, <2>1, <2>2, <2>3
  <1>6. \A l \in m.trusted : l \in n.trusted \/ (l = n.hostKeyTx.layer /\ n.hostKeyTx.accepted)
    BY <1>5
  <1>7. ASSUME NEW asked, NEW stored, SessionOK(n, s, asked, stored)
        PROVE  SessionOK(m, s, asked, stored)
    <2>1. n.phase \notin AskingPhase
      BY <1>1 DEF AskingPhase
    <2>2. TrustInv(m, s, stored)
      BY <1>1, <1>5, <1>6, <1>7 DEF SessionOK, TrustInv
    <2> QED
      BY <1>5, <1>7, <2>1, <2>2, QuietStep
  <1>8. ASSUME KeyQueueInv(n)
        PROVE  /\ KeyQueueInv(m)
               /\ Leaving(n) => Leaving(m)
               /\ \A p : UndecidedInv(p, n) => UndecidedInv(p, m)
    <2>1. n.hostKeyTx.layer = n.layer /\ \A i \in DOMAIN n.control : ~KeyPrompt(n, i)
      BY <1>1, <1>8 DEF KeyQueueInv
    <2>2. KeyQueueInv(m)
      BY <1>1, <1>5, <1>8, <2>1 DEF KeyQueueInv, KeyPrompt
    <2>3. Leaving(n) => Leaving(m)
      BY <1>1, <1>5, <2>1 DEF Leaving
    <2>4. ASSUME NEW p, UndecidedInv(p, n) PROVE UndecidedInv(p, m)
      BY <1>1, <2>4 DEF UndecidedInv
    <2> QED
      BY <2>2, <2>3, <2>4
  <1> QED
    BY <1>1, <1>3, <1>5, <1>7, <1>8 DEF NativeStepOK

LEMMA AskAuthOK ==
    ASSUME NEW s \in Session, native[s] \in SessionRecord, AskAuth(s)
    PROVE  \E m : Become(s, m) /\ NativeStepOK(native[s], m, s)
  <1> DEFINE n == native[s]
             prompt == [kind |-> "prompt", layer |-> n.layer, round |-> n.asks + 1]
             m == [n EXCEPT !.phase = "waitingAuth", !.asks = @ + 1,
                            !.auth = Append(@, prompt)]
             last == Len(n.auth) + 1
  <1>1. /\ n.phase = "authenticating" /\ n.layer \in Layer /\ Become(s, m)
        /\ n.asks + 1 \in 0..MaxAsks /\ n.asks + 1 # 0
    BY NativeAssumption DEF AskAuth, SessionRecord
  <1>2. prompt \in AuthEvent
    BY <1>1 DEF AuthEvent
  <1>3. /\ Append(n.auth, prompt) \in Seq(AuthEvent)
        /\ DOMAIN Append(n.auth, prompt) = DOMAIN n.auth \cup {last} /\ last \notin DOMAIN n.auth
        /\ \A i \in DOMAIN n.auth : Append(n.auth, prompt)[i] = n.auth[i]
        /\ Append(n.auth, prompt)[last] = prompt
    BY <1>2, AppendTyped, AppendElements DEF SessionRecord
  <1>4. /\ m \in SessionRecord /\ m.phase = "waitingAuth" /\ m.asks = n.asks + 1
        /\ m.auth = Append(n.auth, prompt)
    BY <1>1, <1>3 DEF SessionRecord, Phase
  <1>5. /\ m.authTx = n.authTx /\ m.hostKeyTx = n.hostKeyTx /\ m.trusted = n.trusted
        /\ m.layer = n.layer /\ m.transport = n.transport /\ m.control = n.control
        /\ m.disconnectTx = n.disconnectTx
    BY DEF SessionRecord
  <1>6. prompt.kind = "prompt" /\ prompt.layer = n.layer /\ prompt.round = n.asks + 1
    OBVIOUS
  <1> HIDE DEF prompt, m, last
  <1>7. ASSUME NEW asked, NEW stored, SessionOK(n, s, asked, stored)
        PROVE  SessionOK(m, s, asked, stored)
    <2>1. NoPrompt(n) /\ n.authTx = None /\ (asked # None => asked[1] # s)
      BY <1>1, <1>7, QuietSession DEF AskingPhase
    <2>2. AuthQueueInv(m)
      <3>1. \A i \in DOMAIN m.auth : m.auth[i].kind = "prompt" => i = last
        BY <1>3, <1>4, <2>1 DEF NoPrompt
      <3>2. m.auth[last].round = m.asks /\ m.auth[last].layer = m.layer /\ m.asks # 0
        BY <1>1, <1>3, <1>4, <1>5, <1>6
      <3> QED
        BY <1>4, <1>5, <2>1, <3>1, <3>2 DEF AuthQueueInv
    <2>3. SessionInv(m)
      BY <1>4, <1>5, <2>1, <2>2 DEF SessionInv
    <2> QED
      BY <1>5, <1>7, <2>1, <2>3 DEF SessionOK, AskedInv, TrustInv, SecretInv
  <1>8. ASSUME KeyQueueInv(n)
        PROVE  /\ KeyQueueInv(m)
               /\ Leaving(n) => Leaving(m)
               /\ \A p : UndecidedInv(p, n) => UndecidedInv(p, m)
    BY <1>1, <1>5, <1>8, ControlKept
  <1> QED
    BY <1>1, <1>4, <1>7, <1>8 DEF NativeStepOK

LEMMA TakeAuthAnswerOK ==
    ASSUME NEW s \in Session, native[s] \in SessionRecord, TakeAuthAnswer(s)
    PROVE  \E m : Become(s, m) /\ NativeStepOK(native[s], m, s)
  <1> DEFINE n == native[s]
  <1>1. n.phase = "waitingAuth" /\ n.authTx # None
    BY DEF TakeAuthAnswer
  <1>2. PICK m : /\ Become(s, m)
                 /\ m = [n EXCEPT !.authTx = None,
                                  !.phase = IF n.authTx.layer = n.layer THEN "authenticating" ELSE @]
    BY DEF TakeAuthAnswer
  <1>3. /\ m \in SessionRecord /\ m.phase \in {"authenticating", "waitingAuth"}
        /\ m.authTx = None /\ m.auth = n.auth /\ m.hostKeyTx = n.hostKeyTx
        /\ m.trusted = n.trusted /\ m.layer = n.layer /\ m.asks = n.asks
        /\ m.transport = n.transport /\ m.control = n.control /\ m.disconnectTx = n.disconnectTx
    BY <1>1, <1>2 DEF SessionRecord, Phase
  <1>4. ASSUME NEW asked, NEW stored, SessionOK(n, s, asked, stored)
        PROVE  SessionOK(m, s, asked, stored)
    <2>1. NoPrompt(n) /\ (asked # None => asked[1] # s)
      BY <1>1, <1>4 DEF SessionOK, SessionInv, AuthQueueInv, AskedInv, NoPrompt
    <2>2. SessionInv(m)
      BY <1>3, <2>1 DEF SessionInv, AuthQueueInv, NoPrompt
    <2> QED
      BY <1>3, <1>4, <2>1, <2>2 DEF SessionOK, AskedInv, TrustInv, SecretInv
  <1>5. ASSUME KeyQueueInv(n)
        PROVE  /\ KeyQueueInv(m)
               /\ Leaving(n) => Leaving(m)
               /\ \A p : UndecidedInv(p, n) => UndecidedInv(p, m)
    BY <1>1, <1>3, <1>5, ControlKept
  <1> QED
    BY <1>1, <1>2, <1>3, <1>4, <1>5 DEF NativeStepOK

LEMMA AuthBannerOK ==
    ASSUME NEW s \in Session, native[s] \in SessionRecord, AuthBanner(s)
    PROVE  \E m : Become(s, m) /\ NativeStepOK(native[s], m, s)
  <1> DEFINE n == native[s]
             banner == [kind |-> "banner", layer |-> n.layer, round |-> 0]
             m == [n EXCEPT !.auth = Append(@, banner)]
             last == Len(n.auth) + 1
  <1>1. n.phase = "authenticating" /\ n.layer \in Layer /\ Become(s, m)
    BY DEF AuthBanner, SessionRecord
  <1>2. banner \in AuthEvent /\ banner.kind = "banner"
    BY <1>1, NativeAssumption DEF AuthEvent
  <1>3. /\ Append(n.auth, banner) \in Seq(AuthEvent)
        /\ DOMAIN Append(n.auth, banner) = DOMAIN n.auth \cup {last}
        /\ \A i \in DOMAIN n.auth : Append(n.auth, banner)[i] = n.auth[i]
        /\ Append(n.auth, banner)[last] = banner
    BY <1>2, AppendTyped, AppendElements DEF SessionRecord
  <1>4. m \in SessionRecord /\ m.auth = Append(n.auth, banner)
    BY <1>3 DEF SessionRecord
  <1>5. /\ m.authTx = n.authTx /\ m.hostKeyTx = n.hostKeyTx /\ m.trusted = n.trusted
        /\ m.phase = n.phase /\ m.transport = n.transport /\ m.control = n.control
        /\ m.disconnectTx = n.disconnectTx
    BY DEF SessionRecord
  <1> HIDE DEF banner, m, last
  <1>6. ASSUME NEW asked, NEW stored, SessionOK(n, s, asked, stored)
        PROVE  SessionOK(m, s, asked, stored)
    <2>1. n.phase \notin AskingPhase
      BY <1>1 DEF AskingPhase
    <2>2. NoPrompt(n) => NoPrompt(m)
      BY <1>2, <1>3, <1>4 DEF NoPrompt
    <2>3. TrustInv(m, s, stored)
      BY <1>5, <1>6 DEF SessionOK, TrustInv
    <2> QED
      BY <1>4, <1>5, <1>6, <2>1, <2>2, <2>3, QuietStep
  <1>7. ASSUME KeyQueueInv(n)
        PROVE  /\ KeyQueueInv(m)
               /\ Leaving(n) => Leaving(m)
               /\ \A p : UndecidedInv(p, n) => UndecidedInv(p, m)
    BY <1>1, <1>5, <1>7, ControlKept
  <1> QED
    BY <1>1, <1>4, <1>6, <1>7 DEF NativeStepOK

LEMMA AuthSucceedsOK ==
    ASSUME NEW s \in Session, native[s] \in SessionRecord, AuthSucceeds(s)
    PROVE  \E m : Become(s, m) /\ NativeStepOK(native[s], m, s)
  <1> DEFINE n == native[s]
  <1>1. n.phase = "authenticating"
    BY DEF AuthSucceeds
  <1>2. PICK m : /\ Become(s, m)
                 /\ \/ m = [n EXCEPT !.layer = "target", !.phase = "connecting"]
                    \/ m = [n EXCEPT !.phase = "shell"]
    BY DEF AuthSucceeds
  <1>3. /\ m \in SessionRecord
        /\ m.authTx = n.authTx /\ m.auth = n.auth /\ m.hostKeyTx = n.hostKeyTx
        /\ m.trusted = n.trusted /\ m.transport = n.transport /\ m.control = n.control
        /\ m.disconnectTx = n.disconnectTx
    <2>1. CASE m = [n EXCEPT !.layer = "target", !.phase = "connecting"]
      BY <2>1 DEF SessionRecord, Phase, Layer
    <2>2. CASE m = [n EXCEPT !.phase = "shell"]
      BY <2>2 DEF SessionRecord, Phase
    <2> QED
      BY <1>2, <2>1, <2>2
  <1>4. ASSUME NEW asked, NEW stored, SessionOK(n, s, asked, stored)
        PROVE  SessionOK(m, s, asked, stored)
    <2>1. n.phase \notin AskingPhase
      BY <1>1 DEF AskingPhase
    <2>2. TrustInv(m, s, stored)
      BY <1>3, <1>4 DEF SessionOK, TrustInv
    <2> QED
      BY <1>3, <1>4, <2>1, <2>2, QuietStep
  <1>5. ASSUME KeyQueueInv(n)
        PROVE  /\ KeyQueueInv(m)
               /\ Leaving(n) => Leaving(m)
               /\ \A p : UndecidedInv(p, n) => UndecidedInv(p, m)
    BY <1>1, <1>3, <1>5, ControlKept
  <1> QED
    BY <1>1, <1>2, <1>3, <1>4, <1>5 DEF NativeStepOK

\* A control event sent on the way forward or on the way out.
LEMMA ControlStepOK ==
    ASSUME NEW n \in SessionRecord, NEW m \in SessionRecord, NEW s \in Session,
           NEW e \in ControlEvent, e.kind \in {"connected", "error"},
           n.phase \notin {"none", "hostKey", "ending", "ended"},
           m.control = Append(n.control, e),
           \/ n.phase \notin AskingPhase \cup {"refused", "broken"} /\ e.kind = "connected"
           \/ m.phase = "ending"
           \/ n.phase = "connected" /\ m.phase = "broken",
           m.auth = n.auth, m.authTx = n.authTx, m.hostKeyTx = n.hostKeyTx,
           m.trusted = n.trusted, m.layer = n.layer, m.asks = n.asks,
           m.transport = n.transport, m.disconnectTx = n.disconnectTx
    PROVE  NativeStepOK(n, m, s)
  <1>1. ASSUME NEW asked, NEW stored, SessionOK(n, s, asked, stored)
        PROVE  SessionOK(m, s, asked, stored)
    <2>1. TrustInv(m, s, stored)
      BY <1>1 DEF SessionOK, TrustInv
    <2>2. CASE n.phase \notin AskingPhase
      BY <1>1, <2>1, <2>2, QuietStep
    <2>3. CASE n.phase \in AskingPhase
      BY <1>1, <2>1, <2>3, SameQuestion DEF AskingPhase
    <2> QED
      BY <2>2, <2>3
  <1>2. ASSUME KeyQueueInv(n)
        PROVE  /\ KeyQueueInv(m)
               /\ Leaving(n) => Leaving(m)
               /\ \A p : UndecidedInv(p, n) => UndecidedInv(p, m)
    <2>1. KeyQueueInv(m)
      BY <1>2, ControlSent
    <2>2. Leaving(n) => Leaving(m)
      BY <1>2 DEF Leaving, KeyQueueInv
    <2>3. ASSUME NEW p, UndecidedInv(p, n) PROVE UndecidedInv(p, m)
      BY <2>3 DEF UndecidedInv
    <2> QED
      BY <2>1, <2>2, <2>3
  <1> QED
    BY <1>1, <1>2 DEF NativeStepOK

LEMMA ShellOpensOK ==
    ASSUME NEW s \in Session, native[s] \in SessionRecord, ShellOpens(s)
    PROVE  \E m : Become(s, m) /\ NativeStepOK(native[s], m, s)
  <1> DEFINE n == native[s]
             event == [kind |-> "connected", layer |-> "target"]
             m == [n EXCEPT !.phase = "connected", !.control = Append(@, event)]
  <1>1. n.phase = "shell" /\ Become(s, m)
    BY DEF ShellOpens
  <1>2. event \in ControlEvent /\ event.kind = "connected"
    BY DEF ControlEvent, SessionRecord, Layer
  <1>3. Append(n.control, event) \in Seq(ControlEvent)
    BY <1>2, AppendTyped
  <1>4. /\ m \in SessionRecord /\ m.control = Append(n.control, event) /\ m.phase = "connected"
        /\ m.auth = n.auth /\ m.authTx = n.authTx /\ m.hostKeyTx = n.hostKeyTx
        /\ m.trusted = n.trusted /\ m.layer = n.layer /\ m.asks = n.asks
        /\ m.transport = n.transport /\ m.disconnectTx = n.disconnectTx
    BY <1>3 DEF SessionRecord, Phase
  <1> HIDE DEF m, event
  <1>5. NativeStepOK(n, m, s)
    BY <1>1, <1>2, <1>4, ControlStepOK DEF AskingPhase
  <1> QED
    BY <1>1, <1>5

LEMMA FailsOK ==
    ASSUME NEW s \in Session, native[s] \in SessionRecord, Fails(s)
    PROVE  \E m : Become(s, m) /\ NativeStepOK(native[s], m, s)
  <1> DEFINE n == native[s]
             event == [kind |-> "error", layer |-> n.layer]
             m == [n EXCEPT !.phase = "ending", !.control = Append(@, event)]
  <1>1. n.phase \notin {"none", "hostKey", "ending", "ended"} /\ Become(s, m)
    BY DEF Fails, Waiting
  <1>2. event \in ControlEvent /\ event.kind = "error"
    BY DEF ControlEvent, SessionRecord, Layer
  <1>3. Append(n.control, event) \in Seq(ControlEvent)
    BY <1>2, AppendTyped
  <1>4. /\ m \in SessionRecord /\ m.control = Append(n.control, event) /\ m.phase = "ending"
        /\ m.auth = n.auth /\ m.authTx = n.authTx /\ m.hostKeyTx = n.hostKeyTx
        /\ m.trusted = n.trusted /\ m.layer = n.layer /\ m.asks = n.asks
        /\ m.transport = n.transport /\ m.disconnectTx = n.disconnectTx
    BY <1>3 DEF SessionRecord, Phase
  <1> HIDE DEF m, event
  <1>5. NativeStepOK(n, m, s)
    BY <1>1, <1>2, <1>4, ControlStepOK DEF AskingPhase
  <1> QED
    BY <1>1, <1>5

LEMMA WriteFailsOK ==
    ASSUME NEW s \in Session, native[s] \in SessionRecord, WriteFails(s)
    PROVE  \E m : Become(s, m) /\ NativeStepOK(native[s], m, s)
  <1> DEFINE n == native[s]
             event == [kind |-> "error", layer |-> "target"]
             m == [n EXCEPT !.phase = "broken", !.control = Append(@, event)]
  <1>1. n.phase = "connected" /\ Become(s, m)
    BY DEF WriteFails
  <1>2. event \in ControlEvent /\ event.kind = "error"
    BY DEF ControlEvent, SessionRecord, Layer
  <1>3. Append(n.control, event) \in Seq(ControlEvent)
    BY <1>2, AppendTyped
  <1>4. /\ m \in SessionRecord /\ m.control = Append(n.control, event) /\ m.phase = "broken"
        /\ m.auth = n.auth /\ m.authTx = n.authTx /\ m.hostKeyTx = n.hostKeyTx
        /\ m.trusted = n.trusted /\ m.layer = n.layer /\ m.asks = n.asks
        /\ m.transport = n.transport /\ m.disconnectTx = n.disconnectTx
    BY <1>3 DEF SessionRecord, Phase
  <1> HIDE DEF m, event
  <1>5. NativeStepOK(n, m, s)
    BY <1>1, <1>2, <1>4, ControlStepOK DEF AskingPhase
  <1> QED
    BY <1>1, <1>5

LEMMA CancelledOK ==
    ASSUME NEW s \in Session, native[s] \in SessionRecord, Cancelled(s)
    PROVE  \E m : Become(s, m) /\ NativeStepOK(native[s], m, s)
  <1> DEFINE n == native[s]
             m == [n EXCEPT !.phase = "ending"]
  <1>1. n.phase \notin {"none", "connected", "broken", "ending", "ended"} /\ Become(s, m)
    BY DEF Cancelled, Waiting
  <1>2. /\ m \in SessionRecord /\ m.control = n.control /\ m.phase = "ending"
        /\ m.auth = n.auth /\ m.authTx = n.authTx /\ m.hostKeyTx = n.hostKeyTx
        /\ m.trusted = n.trusted /\ m.layer = n.layer /\ m.asks = n.asks
        /\ m.transport = n.transport /\ m.disconnectTx = n.disconnectTx
    BY DEF SessionRecord, Phase
  <1> HIDE DEF m
  <1>3. ASSUME NEW asked, NEW stored, SessionOK(n, s, asked, stored)
        PROVE  SessionOK(m, s, asked, stored)
    <2>1. TrustInv(m, s, stored)
      BY <1>2, <1>3 DEF SessionOK, TrustInv
    <2> QED
      BY <1>1, <1>2, <1>3, <2>1, SameQuestion
  <1>4. ASSUME KeyQueueInv(n)
        PROVE  /\ KeyQueueInv(m)
               /\ Leaving(n) => Leaving(m)
               /\ \A p : UndecidedInv(p, n) => UndecidedInv(p, m)
    <2>1. KeyQueueInv(m)
      BY <1>1, <1>2, <1>4 DEF KeyQueueInv, KeyPrompt
    <2>2. ASSUME NEW p, UndecidedInv(p, n) PROVE UndecidedInv(p, m)
      BY <1>1, <1>2, <2>2 DEF UndecidedInv, KeyPrompt
    <2> QED
      BY <1>2, <2>1, <2>2 DEF Leaving
  <1> QED
    BY <1>1, <1>2, <1>3, <1>4 DEF NativeStepOK

\* Output and the close at its end, in the phases that have them.
LEMMA TransportStepOK ==
    ASSUME NEW n \in SessionRecord, NEW m \in SessionRecord, NEW s \in Session,
           n.phase \in {"connected", "broken"},
           \/ m.phase = "ending"
           \/ /\ m.phase = n.phase
              /\ (\A i \in DOMAIN n.transport : n.transport[i] = "data") =>
                    \A i \in DOMAIN m.transport : m.transport[i] = "data",
           m.control = n.control, m.auth = n.auth, m.authTx = n.authTx,
           m.hostKeyTx = n.hostKeyTx, m.trusted = n.trusted, m.layer = n.layer,
           m.asks = n.asks, m.disconnectTx = n.disconnectTx
    PROVE  NativeStepOK(n, m, s)
  <1>1. ASSUME NEW asked, NEW stored, SessionOK(n, s, asked, stored)
        PROVE  SessionOK(m, s, asked, stored)
    <2>1. TrustInv(m, s, stored)
      BY <1>1 DEF SessionOK, TrustInv
    <2> QED
      BY <1>1, <2>1, QuietStep DEF AskingPhase
  <1>2. ASSUME KeyQueueInv(n)
        PROVE  /\ KeyQueueInv(m)
               /\ Leaving(n) => Leaving(m)
               /\ \A p : UndecidedInv(p, n) => UndecidedInv(p, m)
    <2>1. KeyQueueInv(m)
      BY <1>2 DEF KeyQueueInv, KeyPrompt
    <2>2. Leaving(n) => Leaving(m)
      BY DEF Leaving
    <2>3. ASSUME NEW p, UndecidedInv(p, n) PROVE UndecidedInv(p, m)
      BY <2>3 DEF UndecidedInv
    <2> QED
      BY <2>1, <2>2, <2>3
  <1> QED
    BY <1>1, <1>2 DEF NativeStepOK

LEMMA OutputOK ==
    ASSUME NEW s \in Session, native[s] \in SessionRecord, Output(s)
    PROVE  \E m : Become(s, m) /\ NativeStepOK(native[s], m, s)
  <1> DEFINE n == native[s]
             m == [n EXCEPT !.sent = @ + 1, !.transport = Append(@, "data")]
  <1>1. /\ n.phase \in {"connected", "broken"} /\ Become(s, m)
        /\ n.sent + 1 \in 0..MaxData
    BY NativeAssumption DEF Output, SessionRecord
  <1>2. /\ Append(n.transport, "data") \in Seq(TransportEvent)
        /\ (\A i \in DOMAIN n.transport : n.transport[i] = "data") =>
              \A i \in DOMAIN Append(n.transport, "data") : Append(n.transport, "data")[i] = "data"
    BY AppendTyped, AppendElements DEF SessionRecord, TransportEvent
  <1>3. /\ m \in SessionRecord /\ m.transport = Append(n.transport, "data")
        /\ m.control = n.control /\ m.phase = n.phase
        /\ m.auth = n.auth /\ m.authTx = n.authTx /\ m.hostKeyTx = n.hostKeyTx
        /\ m.trusted = n.trusted /\ m.layer = n.layer /\ m.asks = n.asks
        /\ m.disconnectTx = n.disconnectTx
    BY <1>1, <1>2 DEF SessionRecord
  <1> HIDE DEF m
  <1> QED
    BY <1>1, <1>2, <1>3, TransportStepOK

LEMMA ClosesOK ==
    ASSUME NEW s \in Session, native[s] \in SessionRecord, Closes(s)
    PROVE  \E m : Become(s, m) /\ NativeStepOK(native[s], m, s)
  <1> DEFINE n == native[s]
  <1>1. PICK held \in {<<>>, <<"data">>}, kind \in {"close", "keepalive_timeout"} :
            /\ n.sent + Len(held) <= MaxData
            /\ Become(s, [n EXCEPT !.phase = "ending", !.sent = @ + Len(held),
                                   !.transport = @ \o Append(held, kind)])
    BY DEF Closes
  <1> DEFINE rest == Append(held, kind)
             sent == n.sent + Len(held)
             transport == n.transport \o rest
             m == [n EXCEPT !.phase = "ending", !.sent = sent, !.transport = transport]
  <1>2. n.phase \in {"connected", "broken"} /\ Become(s, m)
    BY <1>1 DEF Closes
  <1>3. held \in Seq(TransportEvent) /\ kind \in TransportEvent
    <2>1. "data" \in TransportEvent /\ kind \in TransportEvent
      BY DEF TransportEvent
    <2>2. <<>> \in Seq(TransportEvent) /\ <<"data">> \in Seq(TransportEvent)
      BY <2>1
    <2> QED
      BY <2>1, <2>2
  <1>4. Len(held) \in Nat /\ rest \in Seq(TransportEvent)
    BY <1>3
  <1> HIDE DEF rest
  <1>5. sent \in 0..MaxData /\ transport \in Seq(TransportEvent)
    BY <1>1, <1>4, NativeAssumption DEF SessionRecord
  <1> HIDE DEF sent, transport
  <1>6. /\ m \in SessionRecord /\ m.phase = "ending" /\ m.control = n.control
        /\ m.auth = n.auth /\ m.authTx = n.authTx /\ m.hostKeyTx = n.hostKeyTx
        /\ m.trusted = n.trusted /\ m.layer = n.layer /\ m.asks = n.asks
        /\ m.disconnectTx = n.disconnectTx
    BY <1>5 DEF SessionRecord, Phase
  <1> HIDE DEF m
  <1> QED
    BY <1>2, <1>6, TransportStepOK

LEMMA EndsOK ==
    ASSUME NEW s \in Session, native[s] \in SessionRecord, Ends(s)
    PROVE  \E m : Become(s, m) /\ NativeStepOK(native[s], m, s)
  <1> DEFINE n == native[s]
             m == [Absent EXCEPT !.phase = "ended", !.control = n.control, !.auth = n.auth,
                                 !.transport = n.transport]
  <1>1. n.phase = "ending" /\ Become(s, m)
    BY DEF Ends
  <1>2. Absent \in SessionRecord
    BY NativeAssumption DEF SessionRecord, Absent, Phase, Layer
  <1>3. /\ m \in SessionRecord /\ m.phase = "ended" /\ m.control = n.control
        /\ m.auth = n.auth /\ m.transport = n.transport
        /\ m.authTx = Absent.authTx /\ m.hostKeyTx = Absent.hostKeyTx
        /\ m.trusted = Absent.trusted
    BY <1>2 DEF SessionRecord, Phase
  <1>4. m.authTx = None /\ m.hostKeyTx = None /\ m.trusted = {}
    BY <1>3 DEF Absent
  <1> HIDE DEF m
  <1>5. ASSUME NEW asked, NEW stored, SessionOK(n, s, asked, stored)
        PROVE  SessionOK(m, s, asked, stored)
    <2>1. TrustInv(m, s, stored)
      BY <1>4 DEF TrustInv
    <2> QED
      BY <1>1, <1>3, <1>4, <1>5, <2>1, SameQuestion
  <1>6. ASSUME KeyQueueInv(n)
        PROVE  /\ KeyQueueInv(m)
               /\ Leaving(n) => Leaving(m)
               /\ \A p : UndecidedInv(p, n) => UndecidedInv(p, m)
    <2>1. KeyQueueInv(m)
      BY <1>1, <1>3, <1>4, <1>6 DEF KeyQueueInv, KeyPrompt
    <2>2. ASSUME NEW p, UndecidedInv(p, n) PROVE UndecidedInv(p, m)
      BY <1>1, <1>3, <1>4, <2>2 DEF UndecidedInv, KeyPrompt
    <2> QED
      BY <1>3, <2>1, <2>2 DEF Leaving
  <1> QED
    BY <1>1, <1>3, <1>5, <1>6 DEF NativeStepOK

LEMMA NativeSteps ==
    ASSUME native \in [Session -> SessionRecord], NativeNext
    PROVE  \E s \in Session : \E m : Become(s, m) /\ NativeStepOK(native[s], m, s)
  <1>1. PICK s \in Session :
            Advances(s) \/ AuthBanner(s) \/ Output(s) \/ WriteFails(s) \/ Closes(s)
    BY DEF NativeNext
  <1>2. native[s] \in SessionRecord
    OBVIOUS
  <1> QED
    BY <1>1, <1>2, CheckServerKeyOK, TakeHostKeyDecisionOK, AskAuthOK, TakeAuthAnswerOK,
       AuthBannerOK, AuthSucceedsOK, ShellOpensOK, FailsOK, WriteFailsOK, CancelledOK,
       OutputOK, ClosesOK, EndsOK, Zenon DEF Advances

\* The invariants over a step of one session in an unchanged pane.
LEMMA NativeNextKeeps ==
    ASSUME IInv, NativeNext, UNCHANGED <<pane, committed>>
    PROVE  /\ IInv'
           /\ LateInv(pane) => LateInv(pane)'
           /\ EInv => EInv'
  <1>0. PICK s \in Session : \E m : Become(s, m) /\ NativeStepOK(native[s], m, s)
    BY NativeSteps DEF IInv
  <1>1. PICK m : Become(s, m) /\ NativeStepOK(native[s], m, s)
    BY <1>0
  <1>2. /\ native \in [Session -> SessionRecord] /\ m \in SessionRecord
        /\ native' = [native EXCEPT ![s] = m]
    BY <1>1 DEF IInv, Become, NativeStepOK
  <1>3. native' \in [Session -> SessionRecord] /\ native'[s] = m
    BY <1>2
  <1>4. \A t \in Session : t # s => native'[t] = native[t]
    BY <1>2
  <1>5. \A t \in Session : SessionOK(native[t], t, pane.asked, committed)
    BY DEF IInv, SessionsInv, SessionOK
  <1>6. SessionOK(m, s, pane.asked, committed)
    BY <1>1, <1>5 DEF NativeStepOK
  <1>7. SessionsInv'
    BY <1>3, <1>4, <1>5, <1>6 DEF SessionsInv, SessionOK
  <1>8. IInv'
    BY <1>3, <1>7 DEF IInv
  <1>9. native[s].phase \notin {"none", "ended"}
    BY <1>1 DEF NativeStepOK
  <1>10. ASSUME LateInv(pane) PROVE LateInv(pane)'
    <2>1. \A t \in Session : Silent(native[t]) => Silent(native'[t])
      BY <1>4, <1>9 DEF Silent
    <2> QED
      BY <1>10, <2>1 DEF LateInv
  <1>11. ASSUME EInv PROVE EInv'
    <2>1. /\ KeyQueueInv(m)
          /\ Leaving(native[s]) => Leaving(m)
          /\ \A p : UndecidedInv(p, native[s]) => UndecidedInv(p, m)
      BY <1>1, <1>11 DEF EInv, TidyInv, NativeStepOK
    <2>2. \A t \in Session : KeyQueueInv(native'[t])
      BY <1>3, <1>4, <1>11, <2>1 DEF EInv, TidyInv
    <2>3. pane.id # NoSession => UndecidedInv(pane, native'[pane.id])
      <3>1. pane.id \in {NoSession} \cup Session
        BY DEF IInv, PaneInv, ModeInv, PaneRecord
      <3> QED
        BY <1>3, <1>4, <1>11, <2>1, <3>1 DEF EInv, TidyInv
    <2>4. LeavingInv(pane)'
      BY <1>3, <1>4, <1>11, <2>1 DEF EInv, TidyInv, LeavingInv, Stopped
    <2> QED
      BY <1>10, <1>11, <2>2, <2>3, <2>4 DEF EInv, TidyInv, CoreInv, PromptInv, Stopped
  <1> QED
    BY <1>8, <1>10, <1>11

-----------------------------------------------------------------------------
(* What the handlers of the pane are made of: which fields they leave as    *)
(* they are, and what they make of the others.                              *)

SameMode(p, q) == q.mode = p.mode /\ q.saving = p.saving /\ q.asked = p.asked

SameClient(p, q) ==
    /\ q.id = p.id /\ q.connected = p.connected /\ q.waitingAuth = p.waitingAuth
    /\ q.pendingLayer = p.pendingLayer

SameBoundary(p, q) ==
    /\ q.accepting = p.accepting /\ q.resetPending = p.resetPending
    /\ q.resetting = p.resetting /\ q.owner = p.owner /\ q.screen = p.screen

SameCommands(p, q) == q.commands = p.commands /\ q.environment = p.environment

SameLife(p, q) == q.disposed = p.disposed /\ q.terminalFailed = p.terminalFailed

SameButMode(p, q) ==
    SameClient(p, q) /\ SameBoundary(p, q) /\ SameCommands(p, q) /\ SameLife(p, q)

LEMMA MarkFields ==
    ASSUME NEW p \in PaneRecord, NEW q \in {MarkFailed(p), MarkDisconnected(p), ResumeConnection(p)}
    PROVE  /\ q \in PaneRecord /\ SameMode(p, q) /\ SameButMode(p, q)
           /\ q.pendingLine = p.pendingLine
  <1> USE DEF SameMode, SameButMode, SameClient, SameBoundary, SameCommands, SameLife
  <1>1. CASE q = MarkFailed(p)
    BY <1>1 DEF MarkFailed, PaneRecord, SshSessionState
  <1>2. CASE q = MarkDisconnected(p)
    BY <1>2 DEF MarkDisconnected, PaneRecord, SshSessionState
  <1>3. CASE q = ResumeConnection(p)
    BY <1>3 DEF ResumeConnection, PaneRecord, SshSessionState
  <1> QED
    BY <1>1, <1>2, <1>3

LEMMA MarkStates ==
    ASSUME NEW p \in PaneRecord
    PROVE  /\ MarkFailed(p).state \in Over /\ MarkDisconnected(p).state \in Over
           /\ ResumeConnection(p).state = IF p.state \in BeforeShell THEN "CONNECTING" ELSE p.state
  BY DEF MarkFailed, MarkDisconnected, ResumeConnection, PaneRecord, Over

LEMMA RevokedApprovals ==
    ASSUME NEW saving \in SUBSET [line : HostKey, current : BOOLEAN]
    PROVE  /\ Revoked(saving) \in SUBSET [line : HostKey, current : BOOLEAN]
           /\ \A d \in Revoked(saving) : ~d.current
  BY DEF Revoked

LEMMA SetModeFields ==
    ASSUME NEW p \in PaneRecord, NEW m \in TerminalMode
    PROVE  LET q == SetMode(p, m) IN
           /\ q \in PaneRecord /\ SameButMode(p, q) /\ q.pendingLine = p.pendingLine
           /\ q.state = p.state /\ q.mode = m
           /\ m = p.mode => SameMode(p, q)
           /\ m # p.mode => q.asked = None /\ \A d \in q.saving : ~d.current
  <1> DEFINE saving == IF m = p.mode THEN p.saving ELSE Revoked(p.saving)
             asked == IF m = p.mode THEN p.asked ELSE None
             q == [p EXCEPT !.mode = m, !.saving = saving, !.asked = asked]
  <1>1. /\ saving \in SUBSET [line : HostKey, current : BOOLEAN]
        /\ asked \in {None} \cup Prompt
        /\ m # p.mode => asked = None /\ \A d \in saving : ~d.current
        /\ m = p.mode => saving = p.saving /\ asked = p.asked
    BY RevokedApprovals DEF PaneRecord
  <1> HIDE DEF saving, asked
  <1>2. q \in PaneRecord /\ q.saving = saving /\ q.asked = asked /\ q.mode = m
    BY <1>1, ZenonT(60) DEF PaneRecord
  <1>3. SameButMode(p, q) /\ q.pendingLine = p.pendingLine /\ q.state = p.state
    BY DEF PaneRecord, SameButMode, SameClient, SameBoundary, SameCommands, SameLife
  <1>4. q = SetMode(p, m)
    BY DEF SetMode, saving, asked
  <1> HIDE DEF q
  <1> QED
    BY <1>1, <1>2, <1>3, <1>4 DEF SameMode

LEMMA FinishFields ==
    ASSUME NEW p \in PaneRecord
    PROVE  LET q == FinishOwnership(p) IN
           /\ q \in PaneRecord /\ SameMode(p, q) /\ SameClient(p, q) /\ SameCommands(p, q)
           /\ SameLife(p, q) /\ q.pendingLine = p.pendingLine /\ q.state = p.state
           /\ ~q.accepting /\ q.resetPending /\ q.resetting
           /\ q.owner = NoSession /\ q.screen = {}
  BY ZenonT(60) DEF FinishOwnership, PaneRecord, NoSession, SameMode, SameClient, SameCommands, SameLife

LEMMA ForgetFields ==
    ASSUME NEW p \in PaneRecord
    PROVE  LET q == ForgetSession(p) IN
           /\ q \in PaneRecord /\ SameMode(p, q) /\ SameBoundary(p, q) /\ SameCommands(p, q)
           /\ SameLife(p, q) /\ q.pendingLine = p.pendingLine /\ q.state = p.state
           /\ q.id = NoSession /\ ~q.connected /\ ~q.waitingAuth /\ q.pendingLayer = None
  BY ZenonT(60) DEF ForgetSession, PaneRecord, NoSession, SameMode, SameBoundary, SameCommands, SameLife

LEMMA VerifiedFields ==
    ASSUME NEW p \in PaneRecord
    PROVE  LET q == Verified(p) IN
           /\ q \in PaneRecord /\ SameMode(p, q) /\ SameBoundary(p, q) /\ SameCommands(p, q)
           /\ SameLife(p, q) /\ q.state = p.state
           /\ q.id = p.id /\ q.connected = p.connected /\ q.waitingAuth = p.waitingAuth
           /\ q.pendingLayer = None /\ q.pendingLine = None
  BY DEF Verified, PaneRecord, SameMode, SameBoundary, SameCommands, SameLife

LEMMA ReturnFields ==
    ASSUME NEW p \in PaneRecord
    PROVE  LET q == ReturnToPrompt(p) IN
           /\ q \in PaneRecord /\ SameClient(p, q) /\ SameCommands(p, q) /\ SameLife(p, q)
           /\ q.pendingLine = p.pendingLine /\ q.state = p.state /\ q.mode = "IDLE"
           /\ p.mode = "IDLE" => SameMode(p, q)
           /\ p.mode # "IDLE" => q.asked = None /\ \A d \in q.saving : ~d.current
           /\ ~q.accepting /\ q.resetPending /\ q.resetting
           /\ q.owner = NoSession /\ q.screen = {}
  <1> DEFINE r == SetMode(p, "IDLE")
  <1>1. "IDLE" \in TerminalMode
    BY DEF TerminalMode
  <1>2. /\ r \in PaneRecord /\ SameButMode(p, r) /\ r.pendingLine = p.pendingLine
        /\ r.state = p.state /\ r.mode = "IDLE"
        /\ p.mode = "IDLE" => SameMode(p, r)
        /\ p.mode # "IDLE" => r.asked = None /\ \A d \in r.saving : ~d.current
    BY <1>1, SetModeFields
  <1>3. ReturnToPrompt(p) = FinishOwnership(r)
    BY DEF ReturnToPrompt
  <1> HIDE DEF r
  <1> QED
    BY <1>2, <1>3, FinishFields
       DEF SameMode, SameButMode, SameClient, SameCommands, SameLife

-----------------------------------------------------------------------------
(* What the handlers' parts keep of PaneInv.                                *)

\* All that going back to ltty> needs of the rest.
MayReturn(p) ==
    /\ p \in PaneRecord
    /\ p.environment # "preparing" => p.commands > 0
    /\ p.mode = "IDLE" => p.asked = None /\ \A d \in p.saving : ~d.current

LEMMA ModeInvMayReturn == ASSUME NEW p, ModeInv(p) PROVE MayReturn(p)
  BY DEF ModeInv, MayReturn

LEMMA ReturnKeeps ==
    ASSUME NEW p, MayReturn(p), p.state \in {"IDLE"} \cup Over
    PROVE  PaneInv(ReturnToPrompt(p))
  <1> DEFINE q == ReturnToPrompt(p)
  <1>1. /\ q \in PaneRecord /\ SameCommands(p, q) /\ q.state = p.state /\ q.mode = "IDLE"
        /\ p.mode = "IDLE" => SameMode(p, q)
        /\ p.mode # "IDLE" => q.asked = None /\ \A d \in q.saving : ~d.current
    BY ReturnFields DEF MayReturn
  <1> HIDE DEF q
  <1>2. q.asked = None /\ \A d \in q.saving : ~d.current
    BY <1>1 DEF MayReturn, SameMode
  <1>3. ModeInv(q)
    BY <1>1, <1>2 DEF ModeInv, MayReturn, SameCommands
  <1>4. StateInv(q)
    BY <1>1 DEF StateInv, Prompting
  <1> QED
    BY <1>3, <1>4 DEF PaneInv, q

\* The session state alone.
LEMMA OtherState ==
    ASSUME NEW p, ModeInv(p), NEW q \in PaneRecord, SameMode(p, q), SameButMode(p, q),
           q.pendingLine = p.pendingLine
    PROVE  ModeInv(q)
  BY DEF ModeInv, SameMode, SameButMode, SameClient, SameBoundary, SameCommands

LEMMA EndBoundaryKeeps ==
    ASSUME NEW p, ModeInv(p), p.state \in {"IDLE"} \cup Over
    PROVE  PaneInv(EndBoundary(p))
  <1>1. CASE p.accepting
    BY <1>1, ReturnKeeps, ModeInvMayReturn DEF EndBoundary
  <1>2. CASE ~p.accepting
    BY <1>2 DEF EndBoundary, PaneInv, ModeInv, StateInv, Prompting
  <1> QED
    BY <1>1, <1>2

LEMMA MarkedEndKeeps ==
    ASSUME NEW p, ModeInv(p)
    PROVE  PaneInv(EndBoundary(MarkFailed(p))) /\ PaneInv(EndBoundary(MarkDisconnected(p)))
  <1>1. p \in PaneRecord
    BY DEF ModeInv
  <1>2. ModeInv(MarkFailed(p)) /\ ModeInv(MarkDisconnected(p))
    BY <1>1, MarkFields, OtherState
  <1> QED
    BY <1>1, <1>2, MarkStates, EndBoundaryKeeps

LEMMA OnErrorKeeps ==
    ASSUME NEW p, ModeInv(p), p.state \in Over => StateInv(p)
    PROVE  PaneInv(OnError(p))
  BY MarkedEndKeeps DEF OnError, PaneInv

\* Forgetting the session, while the pane takes tasks.
LEMMA ForgetKeeps ==
    ASSUME NEW p, PaneInv(p), p.environment = "preparing"
    PROVE  PaneInv(ForgetSession(p))
  <1> DEFINE q == ForgetSession(p)
  <1>1. /\ q \in PaneRecord /\ SameMode(p, q) /\ SameBoundary(p, q) /\ SameCommands(p, q)
        /\ q.pendingLine = p.pendingLine /\ q.state = p.state /\ q.id = NoSession
    BY ForgetFields DEF PaneInv, ModeInv
  <1> HIDE DEF q
  <1>2. ModeInv(q)
    BY <1>1 DEF PaneInv, ModeInv, SameMode, SameBoundary, SameCommands
  <1>3. StateInv(q)
    BY <1>1 DEF PaneInv, StateInv, SameMode
  <1> QED
    BY <1>2, <1>3 DEF PaneInv, q

\* Going back to ltty> with the session forgotten or not, and marked.
LEMMA MarkedReturnKeeps ==
    ASSUME NEW p, MayReturn(p)
    PROVE  /\ PaneInv(ReturnToPrompt(MarkFailed(p)))
           /\ PaneInv(ReturnToPrompt(MarkDisconnected(p)))
  <1>1. p \in PaneRecord
    BY DEF MayReturn
  <1>2. MayReturn(MarkFailed(p)) /\ MayReturn(MarkDisconnected(p))
    BY <1>1, MarkFields DEF MayReturn, SameMode, SameButMode, SameCommands
  <1> QED
    BY <1>1, <1>2, MarkStates, ReturnKeeps

\* A prompt leaves the screen, or stays.
NoNewPrompt(p, q) == q.asked = p.asked \/ q.asked = None

LEMMA EndAsks ==
    ASSUME NEW p \in PaneRecord
    PROVE  /\ NoNewPrompt(p, ReturnToPrompt(p)) /\ NoNewPrompt(p, EndBoundary(p))
           /\ NoNewPrompt(p, MarkFailed(p)) /\ NoNewPrompt(p, MarkDisconnected(p))
           /\ NoNewPrompt(p, OnError(p)) /\ NoNewPrompt(p, OnClose(p))
           /\ NoNewPrompt(p, ForgetSession(p))
  <1> USE DEF NoNewPrompt
  <1>1. \A r \in PaneRecord : NoNewPrompt(r, ReturnToPrompt(r)) /\ NoNewPrompt(r, EndBoundary(r))
    BY ReturnFields DEF SameMode, EndBoundary
  <1>2. /\ MarkFailed(p) \in PaneRecord /\ MarkFailed(p).asked = p.asked
        /\ MarkDisconnected(p) \in PaneRecord /\ MarkDisconnected(p).asked = p.asked
    BY MarkFields DEF SameMode
  <1>3. NoNewPrompt(p, ForgetSession(p))
    BY ForgetFields DEF SameMode
  <1> QED
    BY <1>1, <1>2, <1>3 DEF OnError, OnClose

-----------------------------------------------------------------------------
(* The actions of the pane, and IInv.                                       *)

LEMMA Unfold ==
    ASSUME IInv
    PROVE  /\ native \in [Session -> SessionRecord] /\ committed \subseteq HostKey
           /\ pane \in PaneRecord /\ PaneInv(pane) /\ ModeInv(pane) /\ StateInv(pane)
           /\ \A t \in Session : SessionOK(native[t], t, pane.asked, committed)
           /\ NoSession \notin Session /\ pane.id \in {NoSession} \cup Session
  BY NativeAssumption
     DEF IInv, SessionsInv, SessionOK, PaneInv, ModeInv, PaneRecord, NoSession, Session

LEMMA Fold ==
    ASSUME native' \in [Session -> SessionRecord], committed' \subseteq HostKey, PaneInv(pane)',
           \A t \in Session : SessionOK(native'[t], t, pane'.asked, committed')
    PROVE  IInv'
  BY DEF IInv, SessionsInv, SessionOK

LEMMA PaneAlone ==
    ASSUME IInv, UNCHANGED <<native, committed>>, PaneInv(pane)', NoNewPrompt(pane, pane')
    PROVE  IInv'
  BY Unfold, Fold, MoreStored DEF NoNewPrompt

\* The invariant of the session s alone has to be shown again.
LEMMA OneSession ==
    ASSUME IInv, NEW s \in Session, NEW m \in SessionRecord, Become(s, m),
           committed \subseteq committed', committed' \subseteq HostKey, PaneInv(pane)',
           NoNewPrompt(pane, pane') \/ (pane'.asked # None /\ pane'.asked[1] = s),
           SessionOK(m, s, pane'.asked, committed')
    PROVE  IInv'
  <1>1. /\ native' \in [Session -> SessionRecord] /\ native'[s] = m
        /\ \A t \in Session : t # s => native'[t] = native[t]
    BY Unfold DEF Become
  <1>2. ASSUME NEW t \in Session, t # s
        PROVE  SessionOK(native'[t], t, pane'.asked, committed')
    <2>1. SessionOK(native[t], t, pane.asked, committed)
      BY Unfold
    <2>2. SessionOK(native[t], t, pane.asked, committed') /\ SessionOK(native[t], t, None, committed')
      BY <2>1, MoreStored
    <2> QED
      BY <1>1, <1>2, <2>2 DEF NoNewPrompt, SessionOK, AskedInv
  <1> QED
    BY <1>1, <1>2, Fold

\* Asking a session to end.
LEMMA SignalledFields ==
    ASSUME NEW s, NEW t \in Session, native[t] \in SessionRecord
    PROVE  LET n == native[t]  m == Signalled(s)[t] IN
           /\ m \in SessionRecord
           /\ m.phase = n.phase /\ m.layer = n.layer /\ m.control = n.control
           /\ m.auth = n.auth /\ m.transport = n.transport /\ m.hostKeyTx = n.hostKeyTx
           /\ m.authTx = n.authTx /\ m.trusted = n.trusted /\ m.asks = n.asks
           /\ n.disconnectTx => m.disconnectTx
           /\ t = s => m.disconnectTx \/ m.phase \in {"none", "ended"}
  <1> DEFINE n == native[t]
             m == IF t = s /\ Listening(t) THEN [n EXCEPT !.disconnectTx = TRUE] ELSE n
  <1>1. Signalled(s)[t] = m
    BY DEF Signalled
  <1>2. /\ m \in SessionRecord
        /\ m.phase = n.phase /\ m.layer = n.layer /\ m.control = n.control
        /\ m.auth = n.auth /\ m.transport = n.transport /\ m.hostKeyTx = n.hostKeyTx
        /\ m.authTx = n.authTx /\ m.trusted = n.trusted /\ m.asks = n.asks
        /\ n.disconnectTx => m.disconnectTx
        /\ t = s /\ Listening(t) => m.disconnectTx
    BY DEF SessionRecord
  <1> HIDE DEF m
  <1> QED
    BY <1>1, <1>2 DEF Listening

LEMMA SignalledKeeps ==
    ASSUME IInv, NEW s, native' = Signalled(s), UNCHANGED committed, PaneInv(pane)',
           NoNewPrompt(pane, pane')
    PROVE  IInv'
  <1>1. native' \in [Session -> SessionRecord]
    <2>1. \A t \in Session : Signalled(s)[t] \in SessionRecord
      BY Unfold, SignalledFields
    <2> QED
      BY <2>1 DEF Signalled
  <1>2. ASSUME NEW t \in Session PROVE SessionOK(native'[t], t, pane'.asked, committed')
    <2> DEFINE n == native[t]
               m == native'[t]
    <2>1. /\ m \in SessionRecord /\ m.auth = n.auth /\ m.layer = n.layer /\ m.asks = n.asks
          /\ m.authTx = n.authTx /\ m.phase = n.phase /\ m.hostKeyTx = n.hostKeyTx
          /\ m.trusted = n.trusted
      BY Unfold, SignalledFields
    <2> HIDE DEF n, m
    <2>2. SessionOK(n, t, pane.asked, committed)
      BY Unfold DEF n
    <2>3. TrustInv(m, t, committed)
      BY <2>1, <2>2 DEF SessionOK, TrustInv
    <2>4. SessionOK(m, t, pane.asked, committed)
      BY <2>1, <2>2, <2>3, SameQuestion
    <2> QED
      BY <2>4, MoreStored DEF NoNewPrompt, m
  <1> QED
    BY <1>1, <1>2, Unfold, Fold

LEMMA SubmitCommandKeeps == ASSUME IInv, SubmitCommand PROVE IInv'
  <1> DEFINE Pasted == IF "pasted commands" \in Excluded THEN {1} ELSE 1..2
  <1>0. Pasted \subseteq 1..2
    <2>1. {1} \subseteq 1..2
      OBVIOUS
    <2> QED
      BY <2>1, Zenon
  <1> HIDE DEF Pasted
  <1>1. PICK pasted \in 1..2 :
            pane' = [pane EXCEPT !.commands = pasted] /\ UNCHANGED <<native, committed>>
    <2>1. PICK pasted \in Pasted : Only([pane EXCEPT !.commands = pasted])
      BY DEF SubmitCommand, Pasted
    <2> QED
      BY <1>0, <2>1 DEF Only
  <1>2. pane.mode = "IDLE" /\ pane.environment = "preparing"
    BY DEF SubmitCommand, TakesInput, Draining
  <1>3. /\ pane' \in PaneRecord /\ SameMode(pane, pane') /\ SameClient(pane, pane')
        /\ SameBoundary(pane, pane') /\ pane'.pendingLine = pane.pendingLine
        /\ pane'.state = pane.state /\ pane'.environment = pane.environment
    BY <1>1, Unfold DEF PaneRecord, SameMode, SameClient, SameBoundary
  <1>4. PaneInv(pane')
    BY <1>2, <1>3, Unfold DEF PaneInv, ModeInv, StateInv, SameMode, SameClient, SameBoundary
  <1> QED
    BY <1>1, <1>3, <1>4, PaneAlone DEF NoNewPrompt, SameMode

LEMMA EnvironmentSettlesKeeps == ASSUME IInv, EnvironmentSettles PROVE IInv'
  <1>1. PICK outcome \in {"ready", "failed"} :
            pane' = [pane EXCEPT !.environment = outcome] /\ UNCHANGED <<native, committed>>
    BY DEF EnvironmentSettles, Only
  <1>2. pane.commands > 0 /\ pane.environment = "preparing"
    BY DEF EnvironmentSettles, Draining
  <1>3. /\ pane' \in PaneRecord /\ SameMode(pane, pane') /\ SameClient(pane, pane')
        /\ SameBoundary(pane, pane') /\ pane'.pendingLine = pane.pendingLine
        /\ pane'.state = pane.state /\ pane'.commands = pane.commands
    BY <1>1, Unfold DEF PaneRecord, SameMode, SameClient, SameBoundary
  <1>4. PaneInv(pane')
    BY <1>2, <1>3, Unfold DEF PaneInv, ModeInv, StateInv, SameMode, SameClient, SameBoundary
  <1> QED
    BY <1>1, <1>3, <1>4, PaneAlone DEF NoNewPrompt, SameMode

LEMMA InterruptKeeps == ASSUME IInv, Interrupt PROVE IInv'
  <1>1. /\ native' = Signalled(pane.id) /\ UNCHANGED committed
        /\ pane' = ReturnToPrompt(MarkDisconnected(ForgetSession(pane)))
        /\ pane.environment = "preparing"
    BY DEF Interrupt, TakesInput, Draining
  <1>2. PaneInv(ForgetSession(pane))
    BY <1>1, Unfold, ForgetKeeps
  <1>3. PaneInv(pane')
    BY <1>1, <1>2, ModeInvMayReturn, MarkedReturnKeeps DEF PaneInv
  <1>4. pane' \in PaneRecord /\ NoNewPrompt(pane, pane')
    <2>1. /\ ForgetSession(pane) \in PaneRecord
          /\ MarkDisconnected(ForgetSession(pane)) \in PaneRecord
      BY Unfold, ForgetFields, MarkFields
    <2> QED
      BY <1>1, <1>3, <2>1, Unfold, EndAsks DEF NoNewPrompt, PaneInv, ModeInv
  <1> QED
    BY <1>1, <1>3, <1>4, SignalledKeeps

LEMMA EscapeDisconnectKeeps == ASSUME IInv, EscapeDisconnect PROVE IInv'
  <1>1. /\ native' = Signalled(pane.id) /\ UNCHANGED committed
        /\ pane' = ForgetSession(pane) /\ pane.environment = "preparing"
    BY DEF EscapeDisconnect, TakesInput, Draining
  <1>2. PaneInv(pane')
    BY <1>1, Unfold, ForgetKeeps
  <1> QED
    BY <1>1, <1>2, Unfold, EndAsks, SignalledKeeps

LEMMA TypeWithoutSessionKeeps == ASSUME IInv, TypeWithoutSession PROVE IInv'
  <1>1. pane' = OnError(pane) /\ UNCHANGED <<native, committed>>
    BY DEF TypeWithoutSession, Only
  <1>2. PaneInv(pane')
    BY <1>1, Unfold, OnErrorKeeps
  <1> QED
    BY <1>1, <1>2, Unfold, EndAsks, PaneAlone

LEMMA AcceptHostKeyKeeps == ASSUME IInv, AcceptHostKey PROVE IInv'
  <1> DEFINE p == SetMode(pane, "CONNECTING")
             approval == [line |-> pane.pendingLine, current |-> TRUE]
  <1>1. /\ pane.mode = "HOST_KEY_INPUT" /\ pane.environment = "preparing"
        /\ pane' = [p EXCEPT !.saving = @ \cup {approval}] /\ UNCHANGED <<native, committed>>
    BY DEF AcceptHostKey, TakesInput, Draining, Only
  <1>2. approval \in [line : HostKey, current : BOOLEAN] /\ approval.line = pane.pendingLine
    BY <1>1, Unfold DEF ModeInv, PaneRecord
  <1>3. /\ p \in PaneRecord /\ SameButMode(pane, p) /\ p.pendingLine = pane.pendingLine
        /\ p.state = pane.state /\ p.mode = "CONNECTING"
        /\ p.asked = None /\ \A d \in p.saving : ~d.current
    BY <1>1, Unfold, SetModeFields DEF TerminalMode
  <1> HIDE DEF p, approval
  <1>4. /\ pane' \in PaneRecord /\ SameButMode(p, pane') /\ pane'.pendingLine = p.pendingLine
        /\ pane'.state = p.state /\ pane'.mode = p.mode /\ pane'.asked = p.asked
        /\ pane'.saving = p.saving \cup {approval}
    BY <1>1, <1>2, <1>3
       DEF PaneRecord, SameButMode, SameClient, SameBoundary, SameCommands, SameLife
  <1>5. /\ SameButMode(pane, pane') /\ pane'.pendingLine = pane.pendingLine
        /\ pane'.state = pane.state /\ pane'.mode = "CONNECTING" /\ pane'.asked = None
        /\ \A d \in pane'.saving : d.current => d.line = pane.pendingLine
    BY <1>2, <1>3, <1>4 DEF SameButMode, SameClient, SameBoundary, SameCommands, SameLife
  <1>6. ModeInv(pane')
    BY <1>1, <1>4, <1>5, Unfold DEF ModeInv, SameButMode, SameClient, SameBoundary, SameCommands
  <1>7. StateInv(pane')
    BY <1>1, <1>5, Unfold DEF StateInv, Prompting, SameButMode, SameClient
  <1> QED
    BY <1>1, <1>5, <1>6, <1>7, PaneAlone DEF PaneInv, NoNewPrompt

\* The decision that is sent: what it does to the session that waits for it.
LEMMA DecidedFields ==
    ASSUME NEW accepted \in BOOLEAN, IInv, CanVerify
    PROVE  \E m \in SessionRecord :
              LET n == native[pane.id] IN
              /\ pane.id \in Session /\ Decided(accepted) = [native EXCEPT ![pane.id] = m]
              /\ n.hostKeyTx = None /\ n.phase \notin {"none", "ended"}
              /\ m.hostKeyTx # None /\ m.hostKeyTx.layer = pane.pendingLayer
              /\ m.hostKeyTx.accepted = accepted
              /\ m.phase = n.phase /\ m.layer = n.layer /\ m.control = n.control
              /\ m.auth = n.auth /\ m.transport = n.transport /\ m.authTx = n.authTx
              /\ m.trusted = n.trusted /\ m.asks = n.asks /\ m.disconnectTx = n.disconnectTx
  <1> DEFINE n == native[pane.id]
             decision == [layer |-> pane.pendingLayer, accepted |-> accepted]
             m == [n EXCEPT !.hostKeyTx = decision]
  <1>1. /\ pane.id \in Session /\ n \in SessionRecord /\ n.hostKeyTx = None
        /\ n.phase \notin {"none", "ended"} /\ pane.pendingLayer \in Layer
    BY Unfold DEF CanVerify, Listening, PaneRecord
  <1>2. /\ decision \in HostKeyDecision /\ decision.layer = pane.pendingLayer
        /\ decision.accepted = accepted
    BY <1>1 DEF HostKeyDecision
  <1>3. decision # None
    BY <1>2, NoneAssumption
  <1>4. Decided(accepted) = [native EXCEPT ![pane.id] = m]
    BY <1>1, Unfold DEF Decided
  <1> HIDE DEF decision
  <1>5. /\ m \in SessionRecord /\ m.hostKeyTx = decision
        /\ m.phase = n.phase /\ m.layer = n.layer /\ m.control = n.control
        /\ m.auth = n.auth /\ m.transport = n.transport /\ m.authTx = n.authTx
        /\ m.trusted = n.trusted /\ m.asks = n.asks /\ m.disconnectTx = n.disconnectTx
    BY <1>1, <1>2 DEF SessionRecord
  <1> HIDE DEF m
  <1> QED
    BY <1>1, <1>2, <1>3, <1>4, <1>5

LEMMA DecidedKeeps ==
    ASSUME IInv, NEW accepted \in BOOLEAN, CanVerify, native' = Decided(accepted),
           committed \subseteq committed', committed' \subseteq HostKey,
           accepted => <<pane.id, pane.pendingLayer>> \in committed',
           PaneInv(pane)', NoNewPrompt(pane, pane')
    PROVE  IInv'
  <1> DEFINE s == pane.id
             n == native[s]
  <1>1. PICK m \in SessionRecord :
            /\ s \in Session /\ Become(s, m)
            /\ m.hostKeyTx # None /\ m.hostKeyTx.layer = pane.pendingLayer
            /\ m.hostKeyTx.accepted = accepted
            /\ m.phase = n.phase /\ m.layer = n.layer
            /\ m.auth = n.auth /\ m.authTx = n.authTx
            /\ m.trusted = n.trusted /\ m.asks = n.asks
    BY DecidedFields DEF Become
  <1>2. SessionOK(n, s, pane.asked, committed') /\ SessionOK(n, s, None, committed')
    BY <1>1, Unfold, MoreStored
  <1>3. TrustInv(m, s, committed')
    BY <1>1, <1>2 DEF SessionOK, TrustInv
  <1>4. SessionOK(m, s, pane'.asked, committed')
    BY <1>1, <1>2, <1>3, SameQuestion DEF NoNewPrompt
  <1> QED
    BY <1>1, <1>4, OneSession

LEMMA RejectHostKeyKeeps == ASSUME IInv, RejectHostKey PROVE IInv'
  <1> DEFINE p == IF CanVerify THEN Verified(pane) ELSE pane
  <1>1. /\ pane.mode = "HOST_KEY_INPUT" /\ pane.environment = "preparing"
        /\ native' = IF CanVerify THEN Decided(FALSE) ELSE native
        /\ pane' = ReturnToPrompt(MarkFailed(p)) /\ UNCHANGED committed
    BY DEF RejectHostKey, TakesInput, Draining
  <1>2. p \in PaneRecord /\ SameMode(pane, p) /\ SameCommands(pane, p)
    BY Unfold, VerifiedFields DEF SameMode, SameCommands
  <1> HIDE DEF p
  <1>3. MayReturn(p)
    BY <1>1, <1>2, Unfold DEF ModeInv, MayReturn, SameMode, SameCommands
  <1>4. PaneInv(pane')
    BY <1>1, <1>3, MarkedReturnKeeps
  <1>5. NoNewPrompt(pane, pane')
    <2>1. MarkFailed(p) \in PaneRecord
      BY <1>2, MarkFields
    <2> QED
      BY <1>1, <1>2, <2>1, EndAsks DEF NoNewPrompt, SameMode
  <1>6. CASE CanVerify
    BY <1>1, <1>4, <1>5, <1>6, Unfold, DecidedKeeps
  <1>7. CASE ~CanVerify
    BY <1>1, <1>4, <1>5, <1>7, PaneAlone
  <1> QED
    BY <1>6, <1>7

LEMMA CommitSettlesKeeps ==
    ASSUME IInv, NEW d \in pane.saving, CommitSettles(d), pane.environment = "preparing"
    PROVE  IInv'
  <1> DEFINE p == [pane EXCEPT !.saving = @ \ {d}]
             v == IF CanVerify THEN Verified(p) ELSE p
  <1>1. /\ p \in PaneRecord /\ SameButMode(pane, p) /\ p.pendingLine = pane.pendingLine
        /\ p.state = pane.state /\ p.mode = pane.mode /\ p.asked = pane.asked
        /\ p.saving \subseteq pane.saving
    BY Unfold DEF PaneRecord, SameButMode, SameClient, SameBoundary, SameCommands, SameLife
  <1>2. d \in [line : HostKey, current : BOOLEAN]
    BY Unfold DEF PaneRecord
  <1>3. PICK stored \in BOOLEAN :
            /\ committed' = IF stored THEN committed \cup {d.line} ELSE committed
            /\ \/ ~d.current /\ pane' = p /\ UNCHANGED native
               \/ /\ d.current
                  /\ native' = IF CanVerify THEN Decided(stored) ELSE native
                  /\ pane' = IF CanVerify /\ stored
                             THEN ResumeConnection(SetMode(v, "CONNECTING"))
                             ELSE OnError(v)
    <2>1. PICK stored \in BOOLEAN :
            /\ committed' = IF stored THEN committed \cup {d.line} ELSE committed
            /\ IF ~d.current
               THEN pane' = p /\ UNCHANGED native
               ELSE /\ native' = IF CanVerify THEN Decided(stored) ELSE native
                    /\ pane' = IF CanVerify /\ stored
                               THEN ResumeConnection(SetMode(Verified(p), "CONNECTING"))
                               ELSE OnError(IF CanVerify THEN Verified(p) ELSE p)
      BY DEF CommitSettles
    <2>2. CASE ~d.current
      BY <2>1, <2>2
    <2>3. CASE d.current /\ CanVerify /\ stored
      BY <2>1, <2>3, Zenon
    <2>4. CASE d.current /\ ~(CanVerify /\ stored)
      BY <2>1, <2>4, Zenon
    <2> QED
      BY <1>2, <2>2, <2>3, <2>4
  <1>4. committed \subseteq committed' /\ committed' \subseteq HostKey
    BY <1>2, <1>3, Unfold
  <1>5. PaneInv(p)
    BY <1>1, Unfold
       DEF PaneInv, ModeInv, StateInv, SameButMode, SameClient, SameBoundary, SameCommands
  <1>6. CASE ~d.current
    <2>1. pane' = p /\ native' = native
      BY <1>3, <1>6
    <2>2. \A t \in Session : SessionOK(native[t], t, pane.asked, committed')
      BY <1>4, Unfold, MoreStored
    <2> QED
      BY <1>1, <1>4, <1>5, <2>1, <2>2, Unfold, Fold
  <1>7. CASE d.current
    <2>1. /\ pane.mode = "CONNECTING"
          /\ pane.id # NoSession /\ pane.pendingLayer # None =>
                d.line = <<pane.id, pane.pendingLayer>>
      BY <1>7, Unfold DEF ModeInv
    <2>2. v \in PaneRecord /\ SameMode(p, v) /\ v.state = p.state /\ PaneInv(v)
      <3>1. CASE CanVerify
        <4>1. /\ v = Verified(p)
              /\ Verified(p) \in PaneRecord /\ SameMode(p, Verified(p))
              /\ SameBoundary(p, Verified(p)) /\ SameCommands(p, Verified(p))
              /\ Verified(p).id = p.id /\ Verified(p).state = p.state
              /\ Verified(p).pendingLayer = None
          BY <1>1, <3>1, VerifiedFields
        <4> HIDE DEF v, p
        <4>2. PaneInv(v)
          BY <1>1, <1>5, <2>1, <4>1
             DEF PaneInv, ModeInv, StateInv, SameMode, SameBoundary, SameCommands
        <4> QED
          BY <4>1, <4>2
      <3>2. CASE ~CanVerify
        BY <1>1, <1>5, <3>2 DEF SameMode
      <3> QED
        BY <3>1, <3>2
    <2> HIDE DEF v, p
    <2> DEFINE w == SetMode(v, "CONNECTING")
               u == ResumeConnection(w)
    <2>3. /\ w \in PaneRecord /\ SameButMode(v, w) /\ w.pendingLine = v.pendingLine
          /\ w.state = v.state /\ SameMode(v, w)
      BY <1>1, <2>1, <2>2, SetModeFields DEF TerminalMode, SameMode
    <2>4. /\ u \in PaneRecord /\ SameMode(w, u) /\ SameButMode(w, u)
          /\ u.pendingLine = w.pendingLine
          /\ u.state = IF w.state \in BeforeShell THEN "CONNECTING" ELSE w.state
      BY <2>3, MarkFields, MarkStates
    <2> HIDE DEF w, u
    <2>5. PaneInv(u) /\ u.asked = pane.asked
      <3>1. ModeInv(w)
        BY <2>2, <2>3, OtherState DEF PaneInv
      <3>2. ModeInv(u)
        BY <2>4, <3>1, OtherState
      <3>3. u.mode = "CONNECTING" /\ u.asked = pane.asked /\ u.id = v.id
        BY <1>1, <2>1, <2>2, <2>3, <2>4 DEF SameMode, SameButMode, SameClient
      <3>4. StateInv(u)
        BY <1>1, <2>1, <2>2, <2>3, <2>4, <3>3 DEF PaneInv, StateInv, BeforeShell, Prompting, SameMode
      <3> QED
        BY <3>2, <3>3, <3>4 DEF PaneInv
    <2>6. PaneInv(OnError(v)) /\ NoNewPrompt(pane, OnError(v))
      BY <1>1, <2>2, OnErrorKeeps, EndAsks DEF PaneInv, NoNewPrompt, SameMode
    <2>7. PaneInv(pane') /\ NoNewPrompt(pane, pane')
      BY <1>3, <1>7, <2>5, <2>6, Zenon DEF NoNewPrompt, w, u
    <2>8. CASE CanVerify
      <3>1. native' = Decided(stored)
        BY <1>3, <1>7, <2>8
      <3>2. stored => <<pane.id, pane.pendingLayer>> \in committed'
        BY <1>3, <2>1, <2>8 DEF CanVerify
      <3> QED
        BY <1>4, <2>7, <2>8, <3>1, <3>2, DecidedKeeps
    <2>9. CASE ~CanVerify
      <3>1. native' = native
        BY <1>3, <1>7, <2>9
      <3>2. \A t \in Session : SessionOK(native[t], t, pane'.asked, committed')
        BY <1>4, <2>7, Unfold, MoreStored DEF NoNewPrompt
      <3> QED
        BY <1>4, <2>7, <3>1, <3>2, Unfold, Fold
    <2> QED
      BY <2>8, <2>9
  <1> QED
    BY <1>6, <1>7

LEMMA SubmitPasswordKeeps == ASSUME IInv, SubmitPassword PROVE IInv'
  <1> DEFINE s == pane.id
             n == native[s]
             answer == [layer |-> pane.pendingLayer, typedFor |-> pane.asked]
             m == [n EXCEPT !.authTx = answer]
             sends == /\ pane.waitingAuth /\ pane.id # NoSession /\ pane.pendingLayer # None
                      /\ Listening(pane.id) /\ native[pane.id].authTx = None
             p == [pane EXCEPT !.waitingAuth = FALSE, !.pendingLayer = None]
             w == SetMode(p, "CONNECTING")
  <1>1. /\ pane.mode = "PASSWORD_INPUT" /\ pane.environment = "preparing"
        /\ native' = IF sends THEN [native EXCEPT ![s] = m] ELSE native
        /\ pane' = IF sends THEN ResumeConnection(w) ELSE OnError(pane)
        /\ UNCHANGED committed
    BY DEF SubmitPassword, TakesInput, Draining
  <1> HIDE DEF p, w, m, answer
  <1>2. CASE ~sends
    <2>1. native' = native /\ pane' = OnError(pane) /\ UNCHANGED committed
      BY <1>1, <1>2
    <2> QED
      BY <2>1, Unfold, OnErrorKeeps, EndAsks, PaneAlone
  <1>3. CASE sends
    <2>1. /\ s \in Session /\ n \in SessionRecord /\ n.authTx = None
          /\ n.phase \notin {"none", "ended"} /\ pane.pendingLayer \in Layer
          /\ pane.asked \in Prompt /\ pane.asked # None /\ pane.asked[1] = s
      BY <1>1, <1>3, Unfold DEF Listening, PaneRecord, ModeInv
    <2>2. answer \in AuthAnswer /\ answer.typedFor = pane.asked
      BY <2>1 DEF AuthAnswer, answer
    <2>3. answer # None
      BY <2>2, NoneAssumption
    <2>4. /\ m \in SessionRecord /\ m.authTx = answer /\ m.phase = n.phase /\ m.layer = n.layer
          /\ m.auth = n.auth /\ m.asks = n.asks /\ m.hostKeyTx = n.hostKeyTx
          /\ m.trusted = n.trusted
      BY <2>1, <2>2 DEF SessionRecord, m
    <2>5. SessionOK(n, s, pane.asked, committed)
      BY <2>1, Unfold
    <2>6. /\ n.phase \in {"waitingAuth", "ending"} /\ pane.asked = <<s, n.layer, n.asks>>
          /\ NoPrompt(n)
      BY <2>1, <2>5 DEF SessionOK, AskedInv, NoPrompt
    <2>7. SessionOK(m, s, None, committed)
      <3>1. SessionInv(m)
        BY <2>4, <2>6 DEF SessionInv, AuthQueueInv, NoPrompt
      <3>2. TrustInv(m, s, committed)
        BY <2>4, <2>5 DEF SessionOK, TrustInv
      <3>3. SecretInv(m, s)
        BY <2>2, <2>4, <2>6 DEF SecretInv
      <3> QED
        BY <3>1, <3>2, <3>3 DEF SessionOK, AskedInv
    <2>8. /\ p \in PaneRecord /\ SameMode(pane, p) /\ SameBoundary(pane, p)
          /\ SameCommands(pane, p) /\ p.pendingLine = pane.pendingLine
          /\ p.state = pane.state /\ p.id = pane.id /\ p.pendingLayer = None
      BY Unfold, ZenonT(60) DEF PaneRecord, SameMode, SameBoundary, SameCommands, p
    <2>9. /\ w \in PaneRecord /\ SameButMode(p, w) /\ w.pendingLine = p.pendingLine
          /\ w.state = p.state /\ w.mode = "CONNECTING"
          /\ w.asked = None /\ \A d \in w.saving : ~d.current
      BY <1>1, <2>8, SetModeFields DEF TerminalMode, SameMode, w
    <2>10. ModeInv(w)
      BY <1>1, <2>8, <2>9, Unfold
         DEF ModeInv, SameMode, SameButMode, SameClient, SameBoundary, SameCommands
    <2>11. /\ pane' \in PaneRecord /\ SameMode(w, pane') /\ SameButMode(w, pane')
           /\ pane'.pendingLine = w.pendingLine
           /\ pane'.state = IF w.state \in BeforeShell THEN "CONNECTING" ELSE w.state
      BY <1>1, <1>3, <2>9, MarkFields, MarkStates
    <2>12. StateInv(pane')
      BY <1>1, <2>8, <2>9, <2>11, Unfold
         DEF StateInv, Prompting, BeforeShell, SameMode, SameButMode, SameClient
    <2>13. PaneInv(pane') /\ pane'.asked = None
      BY <2>9, <2>10, <2>11, <2>12, OtherState DEF PaneInv, SameMode
    <2> QED
      BY <1>1, <1>3, <2>1, <2>4, <2>7, <2>13, Unfold, OneSession DEF NoNewPrompt, Become
  <1> QED
    BY <1>2, <1>3

\* A connection begins: the pane as it is before a session is chosen.
LEMMA BegunFields ==
    ASSUME NEW p \in PaneRecord
    PROVE  LET q == Begun(p) IN
           /\ q \in PaneRecord /\ SameClient(p, q) /\ SameCommands(p, q) /\ SameLife(p, q)
           /\ q.pendingLine = p.pendingLine /\ q.mode = "CONNECTING"
           /\ q.state = IF p.state \in {"IDLE"} \cup Over THEN "CONNECTING" ELSE p.state
           /\ p.mode = "CONNECTING" => SameMode(p, q)
           /\ p.mode # "CONNECTING" => q.asked = None /\ \A d \in q.saving : ~d.current
           /\ q.accepting /\ ~q.resetPending /\ ~q.resetting
           /\ q.owner = NoSession /\ q.screen = {}
  <1> DEFINE state == IF p.state \in {"IDLE"} \cup Over THEN "CONNECTING" ELSE p.state
             r == [p EXCEPT !.accepting = TRUE, !.resetPending = FALSE, !.resetting = FALSE,
                            !.owner = NoSession, !.screen = {}, !.state = state]
  <1>0. state \in SshSessionState
    BY DEF PaneRecord, SshSessionState
  <1> HIDE DEF state
  <1>1. /\ r \in PaneRecord /\ SameMode(p, r) /\ SameClient(p, r) /\ SameCommands(p, r)
        /\ SameLife(p, r) /\ r.pendingLine = p.pendingLine /\ r.state = state
        /\ r.accepting /\ ~r.resetPending /\ ~r.resetting
        /\ r.owner = NoSession /\ r.screen = {}
    BY <1>0, ZenonT(60) DEF PaneRecord, NoSession, SameMode, SameClient, SameCommands, SameLife
  <1>2. Begun(p) = SetMode(r, "CONNECTING")
    BY DEF Begun, state
  <1>3. "CONNECTING" \in TerminalMode
    BY DEF TerminalMode
  <1> HIDE DEF r
  <1>4. LET q == SetMode(r, "CONNECTING") IN
        /\ q \in PaneRecord /\ SameButMode(r, q) /\ q.pendingLine = r.pendingLine
        /\ q.state = r.state /\ q.mode = "CONNECTING"
        /\ "CONNECTING" = r.mode => SameMode(r, q)
        /\ "CONNECTING" # r.mode => q.asked = None /\ \A d \in q.saving : ~d.current
    BY <1>1, <1>3, SetModeFields
  <1> QED
    BY <1>1, <1>2, <1>4
       DEF SameMode, SameButMode, SameClient, SameBoundary, SameCommands, SameLife, state

LEMMA ContinuedFields ==
    ASSUME IInv, pane.environment # "preparing"
    PROVE  /\ Continued \in PaneRecord /\ SameMode(pane, Continued)
           /\ SameClient(pane, Continued) /\ SameBoundary(pane, Continued)
           /\ SameLife(pane, Continued) /\ Continued.pendingLine = pane.pendingLine
           /\ Continued.state = pane.state /\ Continued.commands = pane.commands - 1
           /\ Continued.environment = IF pane.commands = 1 THEN "preparing" ELSE pane.environment
           /\ pane.commands \in 1..2
  <1> DEFINE left == pane.commands - 1
             environment == IF left = 0 THEN "preparing" ELSE pane.environment
             q == [pane EXCEPT !.commands = left, !.environment = environment]
  <1>1. /\ pane.commands \in 1..2 /\ left \in 0..2 /\ (left = 0 <=> pane.commands = 1)
        /\ environment \in {"preparing", "ready", "failed"}
    BY Unfold DEF ModeInv, PaneRecord
  <1> HIDE DEF left, environment
  <1>2. /\ q \in PaneRecord /\ SameMode(pane, q) /\ SameClient(pane, q) /\ SameBoundary(pane, q)
        /\ SameLife(pane, q) /\ q.pendingLine = pane.pendingLine /\ q.state = pane.state
        /\ q.commands = left /\ q.environment = environment
    BY <1>1, Unfold, ZenonT(60) DEF PaneRecord, SameMode, SameClient, SameBoundary, SameLife
  <1>3. q = Continued
    BY DEF Continued, left, environment
  <1> QED
    BY <1>1, <1>2, <1>3 DEF left, environment

LEMMA ConnectStartsKeeps == ASSUME IInv, ConnectStarts PROVE IInv'
  <1> DEFINE q == Begun(Continued)
             New(first) == [Absent EXCEPT !.phase = "connecting", !.layer = first]
  <1>1. PICK s \in Unused, first \in FirstLayers :
            native' = Started(s, first) /\ pane' = [q EXCEPT !.id = s, !.owner = s]
    BY DEF ConnectStarts
  <1>2. /\ pane.environment = "ready" /\ pane.id = NoSession /\ UNCHANGED committed
        /\ s \in Session /\ first \in Layer
    BY <1>1, PaneAssumption DEF ConnectStarts, Unused
  <1>3. /\ pane.mode = "IDLE" /\ pane.commands > 0
        /\ pane.asked = None /\ \A d \in pane.saving : ~d.current
    BY <1>2, Unfold DEF ModeInv
  <1>4. /\ q \in PaneRecord /\ q.mode = "CONNECTING"
        /\ q.asked = None /\ \A d \in q.saving : ~d.current
        /\ q.state = "CONNECTING" /\ q.accepting
        /\ q.commands = pane.commands - 1 /\ pane.commands \in 1..2
        /\ q.environment = IF pane.commands = 1 THEN "preparing" ELSE pane.environment
    BY <1>2, <1>3, Unfold, ContinuedFields, BegunFields
       DEF StateInv, SameMode, SameCommands
  <1> HIDE DEF q
  <1>5. /\ pane' \in PaneRecord /\ SameMode(q, pane') /\ SameCommands(q, pane')
        /\ pane'.state = q.state /\ pane'.accepting = q.accepting /\ pane'.id = s
    BY <1>1, <1>2, <1>4, ZenonT(60) DEF PaneRecord, SameMode, SameCommands
  <1>6. ModeInv(pane')
    BY <1>2, <1>4, <1>5, Unfold DEF ModeInv, SameMode, SameCommands
  <1>7. PaneInv(pane') /\ pane'.asked = None
    BY <1>4, <1>5, <1>6 DEF PaneInv, StateInv, BeforeShell, SameMode
  <1>8. Absent \in SessionRecord
    BY NativeAssumption DEF SessionRecord, Absent, Phase, Layer
  <1>9. /\ New(first) \in SessionRecord /\ New(first).auth = Absent.auth
        /\ New(first).authTx = Absent.authTx /\ New(first).hostKeyTx = Absent.hostKeyTx
        /\ New(first).trusted = Absent.trusted
    BY <1>2, <1>8 DEF SessionRecord, Phase
  <1>10. New(first).auth = <<>> /\ New(first).authTx = None /\ New(first).hostKeyTx = None
         /\ New(first).trusted = {}
    BY <1>9 DEF Absent
  <1>11. Become(s, New(first))
    BY <1>1 DEF Become, Started
  <1> HIDE DEF New
  <1>12. SessionOK(New(first), s, None, committed)
    BY <1>9, <1>10 DEF SessionOK, SessionInv, AuthQueueInv, AskedInv, TrustInv, SecretInv
  <1> QED
    BY <1>2, <1>7, <1>9, <1>11, <1>12, Unfold, OneSession DEF NoNewPrompt

LEMMA BegunAgain ==
    ASSUME IInv, pane.environment # "preparing"
    PROVE  LET q == Begun(Continued) IN
           /\ MayReturn(q)
           /\ q \in PaneRecord /\ q.mode = "CONNECTING" /\ q.state \notin Over
           /\ NoNewPrompt(pane, q)
           /\ pane.id # NoSession => ModeInv(q)
  <1> DEFINE q == Begun(Continued)
  <1>1. /\ q \in PaneRecord /\ SameClient(pane, q) /\ q.pendingLine = pane.pendingLine
        /\ q.mode = "CONNECTING" /\ q.accepting /\ q.state \notin Over
        /\ pane.mode = "CONNECTING" => SameMode(pane, q)
        /\ pane.mode # "CONNECTING" => q.asked = None /\ \A d \in q.saving : ~d.current
        /\ q.commands = pane.commands - 1 /\ pane.commands \in 1..2
        /\ q.environment = IF pane.commands = 1 THEN "preparing" ELSE pane.environment
    BY Unfold, ContinuedFields, BegunFields DEF Over, SameMode, SameClient, SameCommands
  <1> HIDE DEF q
  <1>2. q.asked = None /\ NoNewPrompt(pane, q)
    BY <1>1, Unfold DEF ModeInv, SameMode, NoNewPrompt
  <1>3. MayReturn(q)
    BY <1>1 DEF MayReturn
  <1>4. ASSUME pane.id # NoSession PROVE ModeInv(q)
    BY <1>1, <1>2, <1>4, Unfold DEF ModeInv, SameMode, SameClient
  <1> QED
    BY <1>1, <1>2, <1>3, <1>4 DEF q

LEMMA ConnectThrowsKeeps == ASSUME IInv, ConnectThrows PROVE IInv'
  <1> DEFINE q == Begun(Continued)
  <1>1. /\ pane.environment = "ready" /\ pane' = ReturnToPrompt(MarkFailed(q))
        /\ UNCHANGED <<native, committed>>
    BY DEF ConnectThrows, Only
  <1>2. MayReturn(q) /\ NoNewPrompt(pane, q) /\ q \in PaneRecord
    BY <1>1, BegunAgain
  <1> HIDE DEF q
  <1>3. PaneInv(pane')
    BY <1>1, <1>2, MarkedReturnKeeps
  <1>4. NoNewPrompt(pane, pane')
    BY <1>1, <1>2, MarkFields, EndAsks DEF NoNewPrompt
  <1> QED
    BY <1>1, <1>3, <1>4, PaneAlone

LEMMA ConnectRefusedKeeps == ASSUME IInv, ConnectRefused PROVE IInv'
  <1> DEFINE q == Begun(Continued)
  <1>1. /\ pane.environment = "ready" /\ pane.id # NoSession /\ pane' = OnError(q)
        /\ UNCHANGED <<native, committed>>
    BY DEF ConnectRefused, Only
  <1>2. ModeInv(q) /\ NoNewPrompt(pane, q) /\ q \in PaneRecord /\ q.state \notin Over
    BY <1>1, BegunAgain
  <1> HIDE DEF q
  <1>3. PaneInv(pane') /\ NoNewPrompt(pane, pane')
    BY <1>1, <1>2, OnErrorKeeps, EndAsks DEF NoNewPrompt
  <1> QED
    BY <1>1, <1>3, PaneAlone

LEMMA CommandFailsKeeps == ASSUME IInv, CommandFails PROVE IInv'
  <1>1. pane.environment = "failed" /\ pane' = Continued /\ UNCHANGED <<native, committed>>
    BY DEF CommandFails, Only
  <1>2. /\ pane' \in PaneRecord /\ SameMode(pane, pane')
        /\ SameClient(pane, pane') /\ SameBoundary(pane, pane')
        /\ pane'.pendingLine = pane.pendingLine
        /\ pane'.state = pane.state /\ pane'.commands = pane.commands - 1
        /\ pane'.environment = IF pane.commands = 1 THEN "preparing" ELSE pane.environment
        /\ pane.commands \in 1..2
    BY <1>1, ContinuedFields
  <1>3. ModeInv(pane')
    BY <1>1, <1>2, Unfold DEF ModeInv, SameMode, SameClient, SameBoundary
  <1>4. PaneInv(pane')
    BY <1>2, <1>3, Unfold DEF PaneInv, StateInv, SameMode, SameClient
  <1> QED
    BY <1>1, <1>2, <1>4, PaneAlone DEF NoNewPrompt, SameMode

LEMMA ResetCompletesKeeps == ASSUME IInv, ResetCompletes PROVE IInv'
  <1>1. pane' = [pane EXCEPT !.resetPending = FALSE, !.resetting = FALSE]
        /\ UNCHANGED <<native, committed>>
    BY DEF ResetCompletes, Only
  <1>2. /\ pane' \in PaneRecord /\ SameMode(pane, pane') /\ SameClient(pane, pane')
        /\ SameCommands(pane, pane') /\ pane'.pendingLine = pane.pendingLine
        /\ pane'.state = pane.state /\ pane'.accepting = pane.accepting
    BY <1>1, Unfold DEF PaneRecord, SameMode, SameClient, SameCommands
  <1>3. PaneInv(pane')
    BY <1>2, Unfold DEF PaneInv, ModeInv, StateInv, SameMode, SameClient, SameCommands
  <1> QED
    BY <1>1, <1>2, <1>3, PaneAlone DEF NoNewPrompt, SameMode

LEMMA SurfaceFailsKeeps == ASSUME IInv, SurfaceFails PROVE IInv'
  <1> DEFINE p == ForgetSession(pane)
             q == [p EXCEPT !.accepting = FALSE, !.terminalFailed = TRUE,
                            !.resetPending = TRUE, !.resetting = FALSE,
                            !.owner = NoSession, !.screen = {}]
  <1>1. /\ pane.environment = "preparing" /\ native' = Signalled(pane.id) /\ UNCHANGED committed
        /\ pane' = q
    BY DEF SurfaceFails, Draining
  <1>2. PaneInv(p) /\ p \in PaneRecord /\ p.id = NoSession /\ NoNewPrompt(pane, p)
    BY <1>1, Unfold, ForgetKeeps, ForgetFields, EndAsks
  <1> HIDE DEF p
  <1>3. /\ pane' \in PaneRecord /\ SameMode(p, pane') /\ SameClient(p, pane')
        /\ SameCommands(p, pane') /\ pane'.pendingLine = p.pendingLine
        /\ pane'.state = p.state
    <2>0. p \in PaneRecord /\ NoSession \in {NoSession} \cup Session
      BY <1>2
    <2>1. q \in PaneRecord
      BY <2>0, ZenonT(60) DEF PaneRecord
    <2>2. SameMode(p, q) /\ SameClient(p, q)
      BY <1>2 DEF PaneRecord, SameMode, SameClient
    <2>3. SameCommands(p, q) /\ q.pendingLine = p.pendingLine /\ q.state = p.state
      BY <1>2 DEF PaneRecord, SameCommands
    <2> QED
      BY <1>1, <2>1, <2>2, <2>3
  <1>4. PaneInv(pane')
    BY <1>2, <1>3 DEF PaneInv, ModeInv, StateInv, SameMode, SameClient, SameCommands
  <1> QED
    BY <1>1, <1>2, <1>3, <1>4, SignalledKeeps DEF NoNewPrompt, SameMode

LEMMA DisposeKeeps == ASSUME IInv, Dispose PROVE IInv'
  <1> DEFINE p == MarkDisconnected(ForgetSession(pane))
             revoked == Revoked(p.saving)
             q == [p EXCEPT !.disposed = TRUE, !.accepting = FALSE,
                            !.resetPending = FALSE, !.resetting = FALSE,
                            !.saving = revoked, !.owner = NoSession, !.screen = {}]
  <1>1. /\ pane.environment = "preparing" /\ native' = Signalled(pane.id) /\ UNCHANGED committed
        /\ pane' = SetMode(q, "IDLE")
    BY DEF Dispose, Draining
  <1>2. /\ p \in PaneRecord /\ p.environment = "preparing" /\ p.state \in Over
        /\ p.mode = pane.mode /\ p.asked = pane.asked
    <2> DEFINE r == ForgetSession(pane)
    <2>1. /\ r \in PaneRecord /\ r.environment = "preparing"
          /\ r.mode = pane.mode /\ r.asked = pane.asked
      BY <1>1, Unfold, ForgetFields DEF SameMode, SameCommands
    <2> HIDE DEF r
    <2>2. LET d == MarkDisconnected(r) IN
          d \in PaneRecord /\ SameMode(r, d) /\ SameButMode(r, d) /\ d.state \in Over
      BY <2>1, MarkFields, MarkStates
    <2> QED
      BY <2>1, <2>2 DEF r, SameMode, SameButMode, SameCommands
  <1> HIDE DEF p
  <1>3. /\ revoked \in SUBSET [line : HostKey, current : BOOLEAN]
        /\ \A d \in revoked : ~d.current
    BY <1>2, RevokedApprovals DEF PaneRecord
  <1> HIDE DEF revoked
  <1>4. /\ q \in PaneRecord /\ SameCommands(p, q) /\ q.mode = p.mode /\ q.asked = p.asked
        /\ q.state = p.state /\ q.saving = revoked
    <2>1. q \in PaneRecord /\ q.saving = revoked
      BY <1>2, <1>3, ZenonT(60) DEF PaneRecord, NoSession
    <2>2. SameCommands(p, q) /\ q.mode = p.mode /\ q.asked = p.asked /\ q.state = p.state
      BY <1>2 DEF PaneRecord, SameCommands
    <2> QED
      BY <2>1, <2>2
  <1> HIDE DEF q
  <1>5. /\ pane' \in PaneRecord /\ SameCommands(q, pane') /\ pane'.state = q.state
        /\ pane'.mode = "IDLE"
        /\ "IDLE" = q.mode => SameMode(q, pane')
        /\ "IDLE" # q.mode => pane'.asked = None /\ \A d \in pane'.saving : ~d.current
    BY <1>1, <1>4, SetModeFields DEF TerminalMode, SameButMode
  <1>6. pane'.asked = None /\ \A d \in pane'.saving : ~d.current
    BY <1>2, <1>3, <1>4, <1>5, Unfold DEF ModeInv, SameMode
  <1>7. PaneInv(pane')
    BY <1>2, <1>4, <1>5, <1>6 DEF PaneInv, ModeInv, StateInv, Prompting, SameCommands
  <1> QED
    BY <1>1, <1>6, <1>7, SignalledKeeps DEF NoNewPrompt

LEMMA TailElements ==
    ASSUME NEW S, NEW q \in Seq(S), q # <<>>
    PROVE  /\ Head(q) \in S /\ Tail(q) \in Seq(S) /\ 1 \in DOMAIN q /\ Head(q) = q[1]
           /\ \A i \in DOMAIN Tail(q) :
                /\ i + 1 \in DOMAIN q /\ Tail(q)[i] = q[i + 1]
                /\ i \in Nat /\ i # 0
           /\ \A i, j \in DOMAIN Tail(q) : i # j => i + 1 # j + 1
  OBVIOUS

\* An event that leaves its queue.
LEMMA ControlTaken ==
    ASSUME NEW n \in SessionRecord, n.control # <<>>
    PROVE  LET m == [n EXCEPT !.control = Tail(@)] IN
           /\ m \in SessionRecord /\ m.control = Tail(n.control)
           /\ m.phase = n.phase /\ m.layer = n.layer /\ m.auth = n.auth
           /\ m.transport = n.transport /\ m.hostKeyTx = n.hostKeyTx /\ m.authTx = n.authTx
           /\ m.disconnectTx = n.disconnectTx /\ m.trusted = n.trusted /\ m.asks = n.asks
  <1> DEFINE rest == Tail(n.control)
  <1>1. rest \in Seq(ControlEvent)
    BY TailElements DEF SessionRecord
  <1> HIDE DEF rest
  <1>2. LET m == [n EXCEPT !.control = rest] IN
           /\ m \in SessionRecord /\ m.control = rest
           /\ m.phase = n.phase /\ m.layer = n.layer /\ m.auth = n.auth
           /\ m.transport = n.transport /\ m.hostKeyTx = n.hostKeyTx /\ m.authTx = n.authTx
           /\ m.disconnectTx = n.disconnectTx /\ m.trusted = n.trusted /\ m.asks = n.asks
    BY <1>1 DEF SessionRecord
  <1> QED
    BY <1>2 DEF rest

LEMMA AuthTaken ==
    ASSUME NEW n \in SessionRecord, n.auth # <<>>
    PROVE  LET m == [n EXCEPT !.auth = Tail(@)] IN
           /\ m \in SessionRecord /\ m.auth = Tail(n.auth)
           /\ m.phase = n.phase /\ m.layer = n.layer /\ m.control = n.control
           /\ m.transport = n.transport /\ m.hostKeyTx = n.hostKeyTx /\ m.authTx = n.authTx
           /\ m.disconnectTx = n.disconnectTx /\ m.trusted = n.trusted /\ m.asks = n.asks
  <1> DEFINE rest == Tail(n.auth)
  <1>1. rest \in Seq(AuthEvent)
    BY TailElements DEF SessionRecord
  <1> HIDE DEF rest
  <1>2. LET m == [n EXCEPT !.auth = rest] IN
           /\ m \in SessionRecord /\ m.auth = rest
           /\ m.phase = n.phase /\ m.layer = n.layer /\ m.control = n.control
           /\ m.transport = n.transport /\ m.hostKeyTx = n.hostKeyTx /\ m.authTx = n.authTx
           /\ m.disconnectTx = n.disconnectTx /\ m.trusted = n.trusted /\ m.asks = n.asks
    BY <1>1 DEF SessionRecord
  <1> QED
    BY <1>2 DEF rest

LEMMA TransportTaken ==
    ASSUME NEW n \in SessionRecord, n.transport # <<>>
    PROVE  LET m == [n EXCEPT !.transport = Tail(@)] IN
           /\ m \in SessionRecord /\ m.transport = Tail(n.transport)
           /\ m.phase = n.phase /\ m.layer = n.layer /\ m.control = n.control
           /\ m.auth = n.auth /\ m.hostKeyTx = n.hostKeyTx /\ m.authTx = n.authTx
           /\ m.disconnectTx = n.disconnectTx /\ m.trusted = n.trusted /\ m.asks = n.asks
  <1> DEFINE rest == Tail(n.transport)
  <1>1. rest \in Seq(TransportEvent)
    BY TailElements DEF SessionRecord
  <1> HIDE DEF rest
  <1>2. LET m == [n EXCEPT !.transport = rest] IN
           /\ m \in SessionRecord /\ m.transport = rest
           /\ m.phase = n.phase /\ m.layer = n.layer /\ m.control = n.control
           /\ m.auth = n.auth /\ m.hostKeyTx = n.hostKeyTx /\ m.authTx = n.authTx
           /\ m.disconnectTx = n.disconnectTx /\ m.trusted = n.trusted /\ m.asks = n.asks
    BY <1>1 DEF SessionRecord
  <1> QED
    BY <1>2 DEF rest

\* The prompt that is taken is the session's question, and the only one.
LEMMA PromptTaken ==
    ASSUME NEW n \in SessionRecord, n.auth # <<>>, AuthQueueInv(n)
    PROVE  LET m == [n EXCEPT !.auth = Tail(@)]
               e == Head(n.auth)
           IN  /\ AuthQueueInv(m)
               /\ NoPrompt(n) => NoPrompt(m)
               /\ e \in AuthEvent
               /\ e.kind = "prompt" =>
                    /\ NoPrompt(m) /\ n.phase \in AskingPhase /\ n.authTx = None /\ e.round # 0
                    /\ n.phase # "ended" => e.layer = n.layer /\ e.round = n.asks
  <1> DEFINE m == [n EXCEPT !.auth = Tail(@)]
             e == Head(n.auth)
  <1>1. /\ m \in SessionRecord /\ m.auth = Tail(n.auth) /\ m.phase = n.phase
        /\ m.layer = n.layer /\ m.authTx = n.authTx /\ m.asks = n.asks
    BY AuthTaken
  <1>2. /\ e \in AuthEvent /\ 1 \in DOMAIN n.auth /\ e = n.auth[1]
        /\ \A i \in DOMAIN m.auth :
             /\ i + 1 \in DOMAIN n.auth /\ m.auth[i] = n.auth[i + 1]
             /\ i \in Nat /\ i # 0
        /\ \A i, j \in DOMAIN m.auth : i # j => i + 1 # j + 1
    BY <1>1, TailElements DEF SessionRecord
  <1> HIDE DEF m, e
  <1>3. AuthQueueInv(m)
    BY <1>1, <1>2 DEF AuthQueueInv
  <1>4. NoPrompt(n) => NoPrompt(m)
    BY <1>2 DEF NoPrompt
  <1>5. ASSUME e.kind = "prompt"
        PROVE  /\ NoPrompt(m) /\ n.phase \in AskingPhase /\ n.authTx = None /\ e.round # 0
               /\ n.phase # "ended" => e.layer = n.layer /\ e.round = n.asks
    <2>1. \A i \in DOMAIN n.auth : n.auth[i].kind = "prompt" => i = 1
      BY <1>2, <1>5 DEF AuthQueueInv
    <2>2. \A i \in DOMAIN m.auth : i + 1 # 1
      BY <1>2
    <2>3. NoPrompt(m)
      BY <1>2, <2>1, <2>2 DEF NoPrompt
    <2> QED
      BY <1>2, <1>5, <2>3 DEF AuthQueueInv, AskingPhase
  <1> QED
    BY <1>2, <1>3, <1>4, <1>5 DEF m, e

\* Outside BeforeShell the pane of a session is at ltty> or in its shell.
LEMMA NotPrompting ==
    ASSUME NEW p, PaneInv(p), p.id # NoSession, p.state \notin BeforeShell
    PROVE  p.mode \notin Prompting /\ p.asked = None /\ \A d \in p.saving : ~d.current
  BY DEF PaneInv, ModeInv, StateInv, Prompting

\* Before the shell a pane that takes tasks has a session or has begun one.
LEMMA AtWork ==
    ASSUME NEW p, PaneInv(p), p.environment = "preparing", p.state \in BeforeShell
    PROVE  p.mode # "IDLE" /\ p.commands = 0
  BY DEF PaneInv, ModeInv, StateInv, BeforeShell, Over, PaneRecord

LEMMA OnAuthKeeps ==
    ASSUME NEW p, PaneInv(p), p.environment = "preparing", NEW s \in Session, p.id = s,
           NEW e \in AuthEvent, e.kind = "prompt" => e.round # 0
    PROVE  LET q == OnAuth(p, s, e) IN
           /\ PaneInv(q)
           /\ \/ q.asked = p.asked
              \/ e.kind = "prompt" /\ q.asked = <<s, e.layer, e.round>>
  <1> DEFINE started == [p EXCEPT !.state = "AUTHENTICATING"]
             q == IF p.state \in BeforeShell THEN started ELSE p
             r == [q EXCEPT !.pendingLayer = e.layer, !.waitingAuth = TRUE]
             prompt == <<s, e.layer, e.round>>
             w == SetMode(r, "PASSWORD_INPUT")
  <1>1. /\ p \in PaneRecord /\ e.layer \in Layer /\ e.kind \in {"banner", "prompt"}
        /\ e.kind = "prompt" => prompt \in Prompt
    <2>1. e.layer \in Layer /\ e.kind \in {"banner", "prompt"} /\ e.round \in 0..MaxAsks
      BY DEF AuthEvent
    <2>2. e.kind = "prompt" => e.round \in 1..MaxAsks
      BY <2>1, NativeAssumption
    <2> QED
      BY <2>1, <2>2 DEF Prompt, PaneInv, ModeInv
  <1>2. \/ e.kind = "banner" /\ OnAuth(p, s, e) = q
        \/ /\ e.kind = "prompt" /\ p.state \in BeforeShell
           /\ OnAuth(p, s, e) = [w EXCEPT !.asked = prompt]
        \/ /\ e.kind = "prompt" /\ p.state \notin BeforeShell
           /\ OnAuth(p, s, e) = r
    <2>1. CASE e.kind = "banner"
      BY <2>1 DEF OnAuth
    <2>2. CASE e.kind = "prompt" /\ p.state \in BeforeShell
      BY <2>2, Zenon DEF OnAuth
    <2>3. CASE e.kind = "prompt" /\ p.state \notin BeforeShell
      BY <2>3, Zenon DEF OnAuth
    <2> QED
      BY <1>1, <2>1, <2>2, <2>3
  <1>3. /\ q \in PaneRecord /\ SameMode(p, q) /\ SameButMode(p, q)
        /\ q.pendingLine = p.pendingLine
        /\ IF p.state \in BeforeShell THEN q.state = "AUTHENTICATING" ELSE q.state = p.state
    <2>1. /\ started \in PaneRecord /\ SameMode(p, started) /\ SameButMode(p, started)
          /\ started.pendingLine = p.pendingLine /\ started.state = "AUTHENTICATING"
      BY <1>1 DEF PaneRecord, SshSessionState, SameMode, SameButMode, SameClient, SameBoundary,
                  SameCommands, SameLife
    <2>2. SameMode(p, p) /\ SameButMode(p, p)
      BY DEF SameMode, SameButMode, SameClient, SameBoundary, SameCommands, SameLife
    <2> HIDE DEF started
    <2> QED
      BY <1>1, <2>1, <2>2
  <1>4. PaneInv(q)
    BY <1>3, OtherState, AtWork
       DEF PaneInv, StateInv, BeforeShell, SameMode, SameButMode, SameClient
  <1> HIDE DEF q
  <1>5. /\ r \in PaneRecord /\ SameMode(q, r) /\ SameBoundary(q, r) /\ SameCommands(q, r)
        /\ r.pendingLine = q.pendingLine /\ r.state = q.state /\ r.id = q.id
    BY <1>1, <1>3, ZenonT(60) DEF PaneRecord, SameMode, SameBoundary, SameCommands
  <1> HIDE DEF r
  <1>6. CASE e.kind = "banner"
    BY <1>2, <1>3, <1>4, <1>6 DEF SameMode
  <1>7. CASE e.kind = "prompt" /\ p.state \notin BeforeShell
    <2>1. p.mode \notin Prompting /\ p.asked = None /\ \A d \in p.saving : ~d.current
      BY <1>7, NotPrompting, NativeAssumption DEF NoSession, Session
    <2>2. PaneInv(r)
      BY <1>3, <1>4, <1>5, <2>1
         DEF PaneInv, ModeInv, StateInv, Prompting, SameMode, SameBoundary, SameCommands
    <2> QED
      BY <1>2, <1>3, <1>5, <1>7, <2>2 DEF SameMode
  <1>8. CASE e.kind = "prompt" /\ p.state \in BeforeShell
    <2> DEFINE u == [w EXCEPT !.asked = prompt]
    <2>1. /\ w \in PaneRecord /\ SameButMode(r, w) /\ w.pendingLine = r.pendingLine
          /\ w.state = r.state /\ w.mode = "PASSWORD_INPUT"
          /\ "PASSWORD_INPUT" = r.mode => SameMode(r, w)
          /\ "PASSWORD_INPUT" # r.mode => w.asked = None /\ \A d \in w.saving : ~d.current
      BY <1>5, SetModeFields DEF TerminalMode
    <2> HIDE DEF w
    <2>2. \A d \in w.saving : ~d.current
      BY <1>3, <1>5, <2>1 DEF SameMode, PaneInv, ModeInv
    <2>3. prompt \in Prompt /\ prompt # None /\ prompt[1] = s
      BY <1>1, <1>8, NoneAssumption
    <2> HIDE DEF prompt
    <2>4. /\ u \in PaneRecord /\ SameButMode(w, u) /\ u.state = w.state
          /\ u.mode = w.mode /\ u.saving = w.saving /\ u.asked = prompt
      BY <2>1, <2>3
         DEF PaneRecord, SameButMode, SameClient, SameBoundary, SameCommands, SameLife
    <2> HIDE DEF u
    <2>5. /\ p.mode # "IDLE" /\ p.commands = 0 /\ p.accepting
      BY <1>8, AtWork, NativeAssumption DEF PaneInv, ModeInv, NoSession, Session
    <2>6. /\ u.mode = "PASSWORD_INPUT" /\ u.accepting /\ u.commands = 0
          /\ u.environment = "preparing" /\ u.id = s /\ u.state = "AUTHENTICATING"
      BY <1>3, <1>5, <1>8, <2>1, <2>4, <2>5
         DEF SameButMode, SameClient, SameBoundary, SameCommands
    <2>7. PaneInv(u)
      BY <2>2, <2>3, <2>4, <2>6 DEF PaneInv, ModeInv, StateInv, BeforeShell
    <2> QED
      BY <1>2, <1>8, <2>4, <2>7 DEF u, prompt
  <1> QED
    BY <1>1, <1>6, <1>7, <1>8

LEMMA AuthEventKeeps ==
    ASSUME IInv, NEW s \in Session, AuthEventArrives(s), pane.environment = "preparing"
    PROVE  IInv'
  <1> DEFINE n == native[s]
             m == [n EXCEPT !.auth = Tail(@)]
             e == Head(n.auth)
  <1>1. /\ n \in SessionRecord /\ n.auth # <<>> /\ Become(s, m) /\ UNCHANGED committed
        /\ pane' = IF IsCurrent(s) THEN OnAuth(pane, s, e) ELSE pane
        /\ SessionOK(n, s, pane.asked, committed)
    BY Unfold DEF AuthEventArrives
  <1>2. /\ AuthQueueInv(m)
        /\ NoPrompt(n) => NoPrompt(m)
        /\ e \in AuthEvent
        /\ e.kind = "prompt" =>
             /\ NoPrompt(m) /\ n.phase \in AskingPhase /\ n.authTx = None /\ e.round # 0
             /\ n.phase # "ended" => e.layer = n.layer /\ e.round = n.asks
    BY <1>1, PromptTaken DEF SessionOK, SessionInv
  <1>3. /\ m \in SessionRecord /\ m.phase = n.phase /\ m.layer = n.layer
        /\ m.hostKeyTx = n.hostKeyTx /\ m.authTx = n.authTx
        /\ m.trusted = n.trusted /\ m.asks = n.asks
    BY <1>1, AuthTaken
  <1> HIDE DEF m, e, n
  <1>4. SessionOK(m, s, pane.asked, committed)
    <2>1. SessionInv(m)
      BY <1>1, <1>2, <1>3 DEF SessionOK, SessionInv
    <2>2. AskedInv(m, s, pane.asked)
      BY <1>1, <1>2, <1>3 DEF SessionOK, AskedInv, NoPrompt
    <2> QED
      BY <1>1, <1>3, <2>1, <2>2 DEF SessionOK, TrustInv, SecretInv
  <1>5. CASE ~IsCurrent(s)
    BY <1>1, <1>3, <1>4, <1>5, Unfold, OneSession DEF NoNewPrompt
  <1>6. CASE IsCurrent(s)
    <2>1. pane' = OnAuth(pane, s, e) /\ pane.id = s
      BY <1>1, <1>6 DEF IsCurrent
    <2>2. /\ PaneInv(pane')
          /\ \/ pane'.asked = pane.asked
             \/ e.kind = "prompt" /\ pane'.asked = <<s, e.layer, e.round>>
      BY <1>2, <2>1, Unfold, OnAuthKeeps
    <2>3. CASE pane'.asked = pane.asked
      BY <1>1, <1>3, <1>4, <2>2, <2>3, Unfold, OneSession DEF NoNewPrompt
    <2>4. CASE e.kind = "prompt" /\ pane'.asked = <<s, e.layer, e.round>>
      <3>1. AskedInv(m, s, pane'.asked)
        BY <1>2, <1>3, <2>4 DEF AskedInv, NoPrompt, AskingPhase
      <3>2. SessionOK(m, s, pane'.asked, committed)
        BY <1>4, <3>1 DEF SessionOK
      <3>3. pane'.asked # None
        BY <1>2, <2>4, NoneAssumption, NativeAssumption DEF Prompt, AuthEvent
      <3> QED
        BY <1>1, <1>3, <2>2, <2>4, <3>2, <3>3, Unfold, OneSession
    <2> QED
      BY <2>2, <2>3, <2>4
  <1> QED
    BY <1>5, <1>6

\* The host key of the layer l is asked about.
Keyed(p, s, l) == [p EXCEPT !.pendingLayer = l, !.pendingLine = <<s, l>>]

\* What a control event makes of the pane, by its kind.
LEMMA OnControlCases ==
    ASSUME NEW p, NEW s, NEW e \in ControlEvent
    PROVE  LET shell == [p EXCEPT !.connected = TRUE, !.waitingAuth = FALSE, !.pendingLayer = None]
               key == Keyed(p, s, e.layer)
               q == OnControl(p, s, e)
           IN
           \/ /\ e.kind = "connected" /\ p.state \in BeforeShell
              /\ q = SetMode([shell EXCEPT !.state = "CONNECTED"], "CONNECTED")
           \/ e.kind = "connected" /\ p.state \notin BeforeShell /\ q = shell
           \/ /\ e.kind = "host_key_prompt" /\ p.state \in BeforeShell
              /\ q = SetMode([key EXCEPT !.state = "HOST_VERIFICATION_REQUIRED"], "HOST_KEY_INPUT")
           \/ e.kind = "host_key_prompt" /\ p.state \notin BeforeShell /\ q = key
           \/ e.kind = "host_key_changed" /\ p.state \in Over /\ q = p
           \/ /\ e.kind = "host_key_changed" /\ p.state \notin Over
              /\ q = ReturnToPrompt([MarkFailed(ForgetSession(p)) EXCEPT !.pendingLine = None])
           \/ e.kind = "error" /\ q = OnError(ForgetSession(p))
  <1>1. e.kind \in {"host_key_prompt", "host_key_changed", "connected", "error"}
    BY DEF ControlEvent
  <1>2. CASE e.kind = "connected" /\ p.state \in BeforeShell
    BY <1>2, Zenon DEF OnControl
  <1>3. CASE e.kind = "connected" /\ p.state \notin BeforeShell
    BY <1>3, Zenon DEF OnControl
  <1>4. CASE e.kind = "host_key_prompt" /\ p.state \in BeforeShell
    BY <1>4, Zenon DEF OnControl, Keyed
  <1>5. CASE e.kind = "host_key_prompt" /\ p.state \notin BeforeShell
    BY <1>5, Zenon DEF OnControl, Keyed
  <1>6. CASE e.kind = "host_key_changed" /\ p.state \in Over
    BY <1>6, Zenon DEF OnControl
  <1>7. CASE e.kind = "host_key_changed" /\ p.state \notin Over
    BY <1>7, Zenon DEF OnControl
  <1>8. CASE e.kind = "error"
    BY <1>8, Zenon DEF OnControl
  <1> QED
    BY <1>1, <1>2, <1>3, <1>4, <1>5, <1>6, <1>7, <1>8

LEMMA ShellFields ==
    ASSUME NEW p \in PaneRecord
    PROVE  LET q == [p EXCEPT !.connected = TRUE, !.waitingAuth = FALSE, !.pendingLayer = None]
           IN
           /\ q \in PaneRecord /\ SameMode(p, q) /\ SameBoundary(p, q) /\ SameCommands(p, q)
           /\ SameLife(p, q) /\ q.pendingLine = p.pendingLine /\ q.state = p.state
           /\ q.id = p.id /\ q.connected /\ ~q.waitingAuth /\ q.pendingLayer = None
  BY ZenonT(60) DEF PaneRecord, SameMode, SameBoundary, SameCommands, SameLife

LEMMA KeyFields ==
    ASSUME NEW p \in PaneRecord, NEW s \in Session, NEW l \in Layer
    PROVE  LET q == Keyed(p, s, l) IN
           /\ q \in PaneRecord /\ SameMode(p, q) /\ SameBoundary(p, q) /\ SameCommands(p, q)
           /\ SameLife(p, q) /\ q.state = p.state
           /\ q.id = p.id /\ q.connected = p.connected /\ q.waitingAuth = p.waitingAuth
           /\ q.pendingLayer = l /\ q.pendingLine = <<s, l>>
  <1> DEFINE line == <<s, l>>
  <1>1. line \in HostKey
    BY DEF HostKey
  <1> HIDE DEF line
  <1>2. LET q == [p EXCEPT !.pendingLayer = l, !.pendingLine = line] IN
           /\ q \in PaneRecord /\ SameMode(p, q) /\ SameBoundary(p, q) /\ SameCommands(p, q)
           /\ SameLife(p, q) /\ q.state = p.state
           /\ q.id = p.id /\ q.connected = p.connected /\ q.waitingAuth = p.waitingAuth
           /\ q.pendingLayer = l /\ q.pendingLine = line
    BY <1>1 DEF PaneRecord, SameMode, SameBoundary, SameCommands, SameLife
  <1> QED
    BY <1>2 DEF line, Keyed

LEMMA StateFields ==
    ASSUME NEW p \in PaneRecord, NEW state \in SshSessionState
    PROVE  LET q == [p EXCEPT !.state = state] IN
           /\ q \in PaneRecord /\ SameMode(p, q) /\ SameButMode(p, q)
           /\ q.pendingLine = p.pendingLine /\ q.state = state
  BY DEF PaneRecord, SameMode, SameButMode, SameClient, SameBoundary, SameCommands, SameLife

LEMMA OnControlKeeps ==
    ASSUME NEW p, PaneInv(p), p.environment = "preparing", NEW s \in Session, p.id = s,
           NEW e \in ControlEvent
    PROVE  PaneInv(OnControl(p, s, e)) /\ NoNewPrompt(p, OnControl(p, s, e))
  <1> DEFINE q == OnControl(p, s, e)
             shell == [p EXCEPT !.connected = TRUE, !.waitingAuth = FALSE, !.pendingLayer = None]
             key == Keyed(p, s, e.layer)
             opened == [shell EXCEPT !.state = "CONNECTED"]
             asking == [key EXCEPT !.state = "HOST_VERIFICATION_REQUIRED"]
             forgotten == ForgetSession(p)
             failed == MarkFailed(forgotten)
             changed == [failed EXCEPT !.pendingLine = None]
  <1>1. /\ p \in PaneRecord /\ e.layer \in Layer /\ p.id # NoSession /\ s # NoSession
        /\ e.layer # None
    BY NativeAssumption, NoneAssumption
       DEF ControlEvent, PaneInv, ModeInv, NoSession, Session
  <1>2. /\ shell \in PaneRecord /\ SameMode(p, shell) /\ SameBoundary(p, shell)
        /\ SameCommands(p, shell) /\ shell.pendingLine = p.pendingLine
        /\ shell.state = p.state /\ shell.id = p.id /\ shell.pendingLayer = None
    BY <1>1, ShellFields
  <1>3. /\ key \in PaneRecord /\ SameMode(p, key) /\ SameBoundary(p, key)
        /\ SameCommands(p, key) /\ key.state = p.state /\ key.id = p.id
        /\ key.pendingLayer = e.layer /\ key.pendingLine = <<s, e.layer>>
    BY <1>1, KeyFields
  <1>4. forgotten \in PaneRecord /\ PaneInv(forgotten) /\ NoNewPrompt(p, forgotten)
    BY <1>1, ForgetFields, ForgetKeeps, EndAsks
  <1> HIDE DEF shell, key, forgotten
  <1>5. CASE e.kind = "connected" /\ p.state \in BeforeShell
    <2>1. q = SetMode(opened, "CONNECTED")
      BY <1>5, OnControlCases, Zenon DEF shell
    <2>2. /\ opened \in PaneRecord /\ SameMode(shell, opened) /\ SameButMode(shell, opened)
          /\ opened.state = "CONNECTED"
      BY <1>2, StateFields DEF SshSessionState
    <2> HIDE DEF opened, q
    <2>3. /\ q \in PaneRecord /\ SameButMode(opened, q) /\ q.state = opened.state
          /\ q.mode = "CONNECTED"
          /\ "CONNECTED" = opened.mode => SameMode(opened, q)
          /\ "CONNECTED" # opened.mode => q.asked = None /\ \A d \in q.saving : ~d.current
      BY <2>1, <2>2, SetModeFields DEF TerminalMode
    <2>4. p.mode # "IDLE" /\ p.commands = 0 /\ p.accepting
      BY <1>1, <1>5, AtWork DEF PaneInv, ModeInv
    <2>5. q.asked = None /\ \A d \in q.saving : ~d.current
      BY <1>2, <2>2, <2>3 DEF SameMode, PaneInv, ModeInv
    <2>6. /\ q.mode = "CONNECTED" /\ q.commands = 0 /\ q.environment = "preparing"
          /\ q.accepting
      BY <1>2, <2>2, <2>3, <2>4
         DEF SameButMode, SameClient, SameBoundary, SameCommands
    <2>7. ModeInv(q) /\ StateInv(q)
      BY <2>3, <2>5, <2>6 DEF ModeInv, StateInv, Prompting
    <2> QED
      BY <2>5, <2>7 DEF PaneInv, NoNewPrompt, q
  <1>6. CASE e.kind = "connected" /\ p.state \notin BeforeShell
    <2>1. q = shell
      BY <1>6, OnControlCases, Zenon DEF shell
    <2>2. p.mode \notin Prompting /\ p.asked = None /\ \A d \in p.saving : ~d.current
      BY <1>1, <1>6, NotPrompting
    <2>3. PaneInv(shell)
      BY <1>2, <2>2
         DEF PaneInv, ModeInv, StateInv, Prompting, SameMode, SameBoundary, SameCommands
    <2> QED
      BY <1>2, <2>1, <2>3 DEF SameMode, NoNewPrompt
  <1>7. CASE e.kind = "host_key_prompt" /\ p.state \in BeforeShell
    <2>1. q = SetMode(asking, "HOST_KEY_INPUT")
      BY <1>7, OnControlCases, Zenon DEF key
    <2>2. /\ asking \in PaneRecord /\ SameMode(key, asking) /\ SameButMode(key, asking)
          /\ asking.pendingLine = key.pendingLine
          /\ asking.state = "HOST_VERIFICATION_REQUIRED"
      BY <1>3, StateFields DEF SshSessionState
    <2> HIDE DEF asking, q
    <2>3. /\ q \in PaneRecord /\ SameButMode(asking, q) /\ q.state = asking.state
          /\ q.mode = "HOST_KEY_INPUT" /\ q.pendingLine = asking.pendingLine
          /\ "HOST_KEY_INPUT" = asking.mode => SameMode(asking, q)
          /\ "HOST_KEY_INPUT" # asking.mode =>
                q.asked = None /\ \A d \in q.saving : ~d.current
      BY <2>1, <2>2, SetModeFields DEF TerminalMode
    <2>4. p.mode # "IDLE" /\ p.commands = 0 /\ p.accepting
      BY <1>1, <1>7, AtWork DEF PaneInv, ModeInv
    <2>5. q.asked = None /\ \A d \in q.saving : ~d.current
      BY <1>3, <2>2, <2>3 DEF SameMode, PaneInv, ModeInv
    <2>6. /\ q.commands = 0 /\ q.environment = "preparing" /\ q.accepting
          /\ q.id = s /\ q.pendingLayer = e.layer /\ q.pendingLine = <<s, e.layer>>
      BY <1>3, <2>2, <2>3, <2>4
         DEF SameButMode, SameClient, SameBoundary, SameCommands
    <2>7. q.pendingLine # None
      BY <1>1, <2>6, NoneAssumption
    <2>8. ModeInv(q)
      BY <2>3, <2>5, <2>6, <2>7 DEF ModeInv
    <2>9. StateInv(q)
      BY <2>2, <2>3 DEF StateInv, BeforeShell
    <2> QED
      BY <2>5, <2>8, <2>9 DEF PaneInv, NoNewPrompt, q
  <1>8. CASE e.kind = "host_key_prompt" /\ p.state \notin BeforeShell
    <2>1. q = key
      BY <1>8, OnControlCases, Zenon DEF key
    <2>2. p.mode \notin Prompting /\ p.asked = None /\ \A d \in p.saving : ~d.current
      BY <1>1, <1>8, NotPrompting
    <2>3. PaneInv(key)
      BY <1>3, <2>2
         DEF PaneInv, ModeInv, StateInv, Prompting, SameMode, SameBoundary, SameCommands
    <2> QED
      BY <1>3, <2>1, <2>3 DEF SameMode, NoNewPrompt
  <1>9. CASE e.kind = "host_key_changed" /\ p.state \in Over
    BY <1>9, OnControlCases, Zenon DEF NoNewPrompt
  <1>10. CASE e.kind = "host_key_changed" /\ p.state \notin Over
    <2>1. q = ReturnToPrompt(changed)
      BY <1>10, OnControlCases, Zenon DEF forgotten
    <2>2. /\ failed \in PaneRecord /\ SameMode(forgotten, failed) /\ SameButMode(forgotten, failed)
          /\ failed.state \in Over
      BY <1>4, MarkFields, MarkStates
    <2> HIDE DEF failed
    <2>3. /\ changed \in PaneRecord /\ SameMode(failed, changed) /\ SameCommands(failed, changed)
          /\ changed.state = failed.state
      BY <2>2 DEF PaneRecord, SameMode, SameCommands
    <2> HIDE DEF changed, q
    <2>4. MayReturn(changed) /\ changed.asked = forgotten.asked
      BY <1>4, <2>2, <2>3
         DEF PaneInv, ModeInv, MayReturn, SameMode, SameButMode, SameCommands
    <2>5. PaneInv(q) /\ NoNewPrompt(changed, q)
      BY <2>1, <2>2, <2>3, <2>4, ReturnKeeps, EndAsks
    <2> QED
      BY <1>4, <2>4, <2>5 DEF NoNewPrompt, q
  <1>11. CASE e.kind = "error"
    <2>1. q = OnError(forgotten)
      BY <1>11, OnControlCases, Zenon DEF forgotten
    <2> HIDE DEF q
    <2>2. PaneInv(q) /\ NoNewPrompt(forgotten, q)
      BY <1>4, <2>1, OnErrorKeeps, EndAsks DEF PaneInv
    <2> QED
      BY <1>4, <2>2 DEF NoNewPrompt, q
  <1>12. e.kind \in {"host_key_prompt", "host_key_changed", "connected", "error"}
    BY DEF ControlEvent
  <1> QED
    BY <1>5, <1>6, <1>7, <1>8, <1>9, <1>10, <1>11, <1>12

LEMMA ControlEventKeeps ==
    ASSUME IInv, NEW s \in Session, ControlEventArrives(s), pane.environment = "preparing"
    PROVE  IInv'
  <1> DEFINE n == native[s]
             m == [n EXCEPT !.control = Tail(@)]
             e == Head(n.control)
  <1>1. /\ n \in SessionRecord /\ n.control # <<>> /\ Become(s, m) /\ UNCHANGED committed
        /\ pane' = IF IsCurrent(s) THEN OnControl(pane, s, e) ELSE pane
        /\ SessionOK(n, s, pane.asked, committed)
    BY Unfold DEF ControlEventArrives
  <1>2. e \in ControlEvent
    BY <1>1, TailElements DEF SessionRecord
  <1>3. /\ m \in SessionRecord /\ m.phase = n.phase /\ m.layer = n.layer /\ m.auth = n.auth
        /\ m.hostKeyTx = n.hostKeyTx /\ m.authTx = n.authTx
        /\ m.trusted = n.trusted /\ m.asks = n.asks
    BY <1>1, ControlTaken
  <1> HIDE DEF m, e, n
  <1>4. SessionOK(m, s, pane.asked, committed) /\ SessionOK(m, s, None, committed)
    <2>1. TrustInv(m, s, committed)
      BY <1>1, <1>3 DEF SessionOK, TrustInv
    <2>2. SessionOK(m, s, pane.asked, committed)
      BY <1>1, <1>3, <2>1, SameQuestion
    <2> QED
      BY <2>2, MoreStored
  <1>5. PaneInv(pane') /\ NoNewPrompt(pane, pane')
    <2>1. CASE IsCurrent(s)
      BY <1>1, <1>2, <2>1, Unfold, OnControlKeeps DEF IsCurrent
    <2>2. CASE ~IsCurrent(s)
      BY <1>1, <2>2, Unfold DEF NoNewPrompt
    <2> QED
      BY <2>1, <2>2
  <1> QED
    BY <1>1, <1>3, <1>4, <1>5, Unfold, OneSession DEF NoNewPrompt

LEMMA OnTransportKeeps ==
    ASSUME NEW p, PaneInv(p), p.environment = "preparing", NEW s \in Session,
           NEW e \in TransportEvent
    PROVE  PaneInv(OnTransport(p, s, e)) /\ NoNewPrompt(p, OnTransport(p, s, e))
  <1> DEFINE q == OnTransport(p, s, e)
             screen == IF p.accepting THEN p.screen \cup {s} ELSE p.screen
             shown == [p EXCEPT !.screen = screen]
             forgotten == ForgetSession(p)
  <1>1. p \in PaneRecord
    BY DEF PaneInv, ModeInv
  <1>2. forgotten \in PaneRecord /\ PaneInv(forgotten) /\ NoNewPrompt(p, forgotten)
    BY <1>1, ForgetFields, ForgetKeeps, EndAsks
  <1>3. CASE e = "data"
    <2>1. q = shown
      BY <1>3 DEF OnTransport
    <2>2. screen \subseteq Session
      BY <1>1 DEF PaneRecord
    <2> HIDE DEF screen
    <2>3. /\ shown \in PaneRecord /\ SameMode(p, shown) /\ SameClient(p, shown)
          /\ SameCommands(p, shown) /\ shown.pendingLine = p.pendingLine
          /\ shown.state = p.state /\ shown.accepting = p.accepting
      BY <1>1, <2>2 DEF PaneRecord, SameMode, SameClient, SameCommands
    <2> HIDE DEF shown
    <2>4. PaneInv(shown)
      BY <2>3 DEF PaneInv, ModeInv, StateInv, SameMode, SameClient, SameCommands
    <2> QED
      BY <2>1, <2>3, <2>4 DEF SameMode, NoNewPrompt
  <1> HIDE DEF forgotten
  <1>4. CASE e = "close"
    <2>1. q = EndBoundary(MarkDisconnected(forgotten)) /\ q = OnClose(forgotten)
      BY <1>4 DEF OnTransport, OnClose, forgotten
    <2> HIDE DEF q
    <2>2. PaneInv(q) /\ NoNewPrompt(forgotten, q)
      BY <1>2, <2>1, MarkedEndKeeps, EndAsks DEF PaneInv
    <2> QED
      BY <1>2, <2>2 DEF NoNewPrompt, q
  <1>5. CASE e = "keepalive_timeout"
    <2>1. q = OnError(forgotten)
      BY <1>5 DEF OnTransport, forgotten
    <2> HIDE DEF q
    <2>2. PaneInv(q) /\ NoNewPrompt(forgotten, q)
      BY <1>2, <2>1, OnErrorKeeps, EndAsks DEF PaneInv
    <2> QED
      BY <1>2, <2>2 DEF NoNewPrompt, q
  <1> QED
    BY <1>3, <1>4, <1>5 DEF TransportEvent

LEMMA TransportEventKeeps ==
    ASSUME IInv, NEW s \in Session, TransportEventArrives(s), pane.environment = "preparing"
    PROVE  IInv'
  <1> DEFINE n == native[s]
             m == [n EXCEPT !.transport = Tail(@)]
             e == Head(n.transport)
  <1>1. /\ n \in SessionRecord /\ n.transport # <<>> /\ Become(s, m) /\ UNCHANGED committed
        /\ pane' = OnTransport(pane, s, e)
        /\ SessionOK(n, s, pane.asked, committed)
    BY Unfold DEF TransportEventArrives
  <1>2. e \in TransportEvent
    BY <1>1, TailElements DEF SessionRecord
  <1>3. /\ m \in SessionRecord /\ m.phase = n.phase /\ m.layer = n.layer /\ m.auth = n.auth
        /\ m.hostKeyTx = n.hostKeyTx /\ m.authTx = n.authTx
        /\ m.trusted = n.trusted /\ m.asks = n.asks
    BY <1>1, TransportTaken
  <1> HIDE DEF m, e, n
  <1>4. SessionOK(m, s, pane.asked, committed) /\ SessionOK(m, s, None, committed)
    <2>1. TrustInv(m, s, committed)
      BY <1>1, <1>3 DEF SessionOK, TrustInv
    <2>2. SessionOK(m, s, pane.asked, committed)
      BY <1>1, <1>3, <2>1, SameQuestion
    <2> QED
      BY <2>2, MoreStored
  <1>5. PaneInv(pane') /\ NoNewPrompt(pane, pane')
    BY <1>1, <1>2, Unfold, OnTransportKeeps
  <1> QED
    BY <1>1, <1>3, <1>4, <1>5, Unfold, OneSession DEF NoNewPrompt

LEMMA AbsentSession ==
    /\ Absent \in SessionRecord
    /\ Absent.phase = "none" /\ Absent.control = <<>> /\ Absent.auth = <<>>
    /\ Absent.transport = <<>> /\ Absent.hostKeyTx = None /\ Absent.authTx = None
    /\ Absent.trusted = {} /\ ~Absent.disconnectTx
  <1>1. Absent \in SessionRecord
    BY NativeAssumption DEF SessionRecord, Absent, Phase, Layer
  <1> QED
    BY <1>1 DEF Absent

LEMMA InitIInv == Init => IInv
  <1> SUFFICES ASSUME Init PROVE IInv
    OBVIOUS
  <1>1. /\ native \in [Session -> SessionRecord]
        /\ \A s \in Session : native[s] = Absent
    BY AbsentSession DEF Init, NativeInit
  <1>2. pane \in PaneRecord
    BY DEF Init, PaneRecord, TerminalMode, SshSessionState, NoSession
  <1>3. /\ pane.mode = "IDLE" /\ pane.state = "IDLE" /\ pane.commands = 0
        /\ pane.environment = "preparing" /\ pane.asked = None /\ pane.saving = {}
        /\ pane.id = NoSession
    BY DEF Init
  <1>4. PaneInv(pane)
    BY <1>2, <1>3 DEF PaneInv, ModeInv, StateInv, Prompting
  <1>5. ASSUME NEW s \in Session PROVE SessionOK(native[s], s, pane.asked, committed)
    BY <1>1, <1>3, AbsentSession
       DEF SessionOK, SessionInv, AuthQueueInv, AskedInv, TrustInv, SecretInv
  <1>6. committed \subseteq HostKey
    BY DEF Init
  <1> QED
    BY <1>1, <1>4, <1>5, <1>6 DEF IInv, SessionsInv, SessionOK

LEMMA NextIInv == IInv /\ [Next]_vars => IInv'
  <1> SUFFICES ASSUME IInv, [Next]_vars PROVE IInv'
    OBVIOUS
  <1>1. CASE NativeNext /\ UNCHANGED <<pane, committed>>
    BY <1>1, NativeNextKeeps
  <1>2. CASE UserActs
    BY <1>2, SubmitCommandKeeps, AcceptHostKeyKeeps, RejectHostKeyKeeps, SubmitPasswordKeeps,
       InterruptKeeps, EscapeDisconnectKeeps, TypeWithoutSessionKeeps DEF UserActs
  <1>3. CASE EnvironmentSettles
    BY <1>3, EnvironmentSettlesKeeps
  <1>4. CASE ResumeCommand
    BY <1>4, ConnectStartsKeeps, ConnectThrowsKeeps, ConnectRefusedKeeps, CommandFailsKeeps
       DEF ResumeCommand
  <1>5. CASE HostKeySaved
    BY <1>5, CommitSettlesKeeps DEF HostKeySaved, Draining
  <1>6. ASSUME NEW s \in Session, EventArrives(s) PROVE IInv'
    BY <1>6, ControlEventKeeps, AuthEventKeeps, TransportEventKeeps DEF EventArrives, Draining
  <1>7. CASE ResetCompletes \/ SurfaceFails \/ Dispose
    BY <1>7, ResetCompletesKeeps, SurfaceFailsKeeps, DisposeKeeps
  <1>8. CASE UNCHANGED vars
    <2>1. native' = native /\ pane' = pane /\ committed' = committed
      BY <1>8 DEF vars
    <2> QED
      BY <2>1, Unfold, PaneAlone DEF NoNewPrompt
  <1> QED
    BY <1>1, <1>2, <1>3, <1>4, <1>5, <1>6, <1>7, <1>8 DEF Next

\* Whatever happens, in every situation, the invariant of the pane and of its
\* sessions holds.
THEOREM IInvHolds == Spec => []IInv
  BY InitIInv, NextIInv, PTL DEF Spec

\* Sessions, pane and stored keys keep their types.
THEOREM TypeCorrect == Spec => []TypeOK
  <1>1. IInv => TypeOK
    BY DEF IInv, PaneInv, ModeInv, TypeOK
  <1> QED
    BY <1>1, IInvHolds, PTL

\* A session trusts a host key on the user's word only when known_hosts holds
\* this session's key for this layer (acceptHostKey, SshClient.verifyHostKey).
THEOREM TrustedStored == Spec => []TrustedOnlyOnceStored
  <1>1. IInv => TrustedOnlyOnceStored
    BY DEF IInv, SessionsInv, TrustInv, TrustedOnlyOnceStored
  <1> QED
    BY <1>1, IInvHolds, PTL

\* A secret goes to the session, the layer and the round that asked for it
\* (submitPassword, SshClient.sendAuth, the native session's answer channel).
THEOREM SecretsReach == Spec => []SecretsReachTheirPrompt
  <1>1. IInv => SecretsReachTheirPrompt
    BY DEF IInv, SessionsInv, SecretInv, SecretsReachTheirPrompt
  <1> QED
    BY <1>1, IInvHolds, PTL

-----------------------------------------------------------------------------
(* Whose events arrive: LateInv.                                            *)

\* The pane stands for, and listens to, no session it did not before.
Recedes(p, q) ==
    /\ q.id \in {p.id, NoSession} /\ q.owner \in {p.owner, NoSession}
    /\ q.accepting => p.accepting /\ q.owner = p.owner
    /\ p.environment = "preparing" => q.environment = "preparing"

LEMMA RecedesTrans ==
    ASSUME NEW p, NEW q, NEW r, Recedes(p, q), Recedes(q, r)
    PROVE  Recedes(p, r)
  BY DEF Recedes

LEMMA SameRecedes ==
    ASSUME NEW p, NEW q, q.id = p.id, SameBoundary(p, q), SameCommands(p, q)
    PROVE  Recedes(p, q)
  BY DEF Recedes, SameBoundary, SameCommands

LEMMA PartsRecede ==
    ASSUME NEW p \in PaneRecord
    PROVE  /\ Recedes(p, p) /\ Recedes(p, MarkFailed(p)) /\ Recedes(p, MarkDisconnected(p))
           /\ Recedes(p, ResumeConnection(p)) /\ Recedes(p, Verified(p))
           /\ Recedes(p, ForgetSession(p)) /\ Recedes(p, ReturnToPrompt(p))
           /\ Recedes(p, EndBoundary(p))
           /\ \A m \in TerminalMode : Recedes(p, SetMode(p, m))
  <1> USE DEF Recedes
  <1>1. Recedes(p, MarkFailed(p)) /\ Recedes(p, MarkDisconnected(p))
        /\ Recedes(p, ResumeConnection(p))
    BY MarkFields DEF SameButMode, SameClient, SameBoundary, SameCommands
  <1>2. Recedes(p, Verified(p)) /\ Recedes(p, ForgetSession(p))
    BY VerifiedFields, ForgetFields DEF SameBoundary, SameCommands
  <1>3. Recedes(p, ReturnToPrompt(p)) /\ Recedes(p, EndBoundary(p))
    BY ReturnFields DEF SameClient, SameCommands, EndBoundary
  <1>4. \A m \in TerminalMode : Recedes(p, SetMode(p, m))
    BY SetModeFields DEF SameButMode, SameClient, SameBoundary, SameCommands
  <1> QED
    BY <1>1, <1>2, <1>3, <1>4

LEMMA EndsRecede ==
    ASSUME NEW p \in PaneRecord
    PROVE  /\ Recedes(p, OnError(p)) /\ Recedes(p, OnClose(p))
           /\ Recedes(p, ReturnToPrompt(MarkFailed(p)))
           /\ Recedes(p, ReturnToPrompt(MarkDisconnected(p)))
  <1>1. MarkFailed(p) \in PaneRecord /\ MarkDisconnected(p) \in PaneRecord
    BY MarkFields
  <1>2. Recedes(p, p) /\ Recedes(p, MarkFailed(p)) /\ Recedes(p, MarkDisconnected(p))
    BY PartsRecede
  <1>3. \A q \in PaneRecord : Recedes(q, ReturnToPrompt(q)) /\ Recedes(q, EndBoundary(q))
    BY PartsRecede
  <1>4. /\ Recedes(p, EndBoundary(MarkFailed(p))) /\ Recedes(p, EndBoundary(MarkDisconnected(p)))
        /\ Recedes(p, ReturnToPrompt(MarkFailed(p)))
        /\ Recedes(p, ReturnToPrompt(MarkDisconnected(p)))
    BY <1>1, <1>2, <1>3, RecedesTrans
  <1> QED
    BY <1>2, <1>4 DEF OnError, OnClose

LEMMA OnAuthRecedes ==
    ASSUME NEW p \in PaneRecord, NEW s, NEW e \in AuthEvent
    PROVE  Recedes(p, OnAuth(p, s, e))
  <1> DEFINE started == [p EXCEPT !.state = "AUTHENTICATING"]
             q == IF p.state \in BeforeShell THEN started ELSE p
             r == [q EXCEPT !.pendingLayer = e.layer, !.waitingAuth = TRUE]
             w == SetMode(r, "PASSWORD_INPUT")
             prompt == <<s, e.layer, e.round>>
             u == [w EXCEPT !.asked = prompt]
  <1>1. e.layer \in Layer /\ e.kind \in {"banner", "prompt"}
    BY DEF AuthEvent
  <1>2. q \in PaneRecord /\ Recedes(p, q)
    <2>1. started \in PaneRecord /\ Recedes(p, started)
      BY DEF PaneRecord, SshSessionState, Recedes
    <2> HIDE DEF started
    <2> QED
      BY <2>1, PartsRecede
  <1>3. OnAuth(p, s, e) \in {q, r, u}
    <2>1. CASE e.kind = "banner"
      BY <2>1 DEF OnAuth
    <2>2. CASE e.kind = "prompt" /\ p.state \in BeforeShell
      BY <2>2, Zenon DEF OnAuth
    <2>3. CASE e.kind = "prompt" /\ p.state \notin BeforeShell
      BY <2>3, Zenon DEF OnAuth
    <2> QED
      BY <1>1, <2>1, <2>2, <2>3
  <1> HIDE DEF q
  <1>4. r \in PaneRecord /\ Recedes(q, r)
    <2> DEFINE layer == e.layer
               waiting == [q EXCEPT !.pendingLayer = layer, !.waitingAuth = TRUE]
    <2> HIDE DEF r
    <2>1. layer \in Layer /\ r = waiting
      BY <1>1 DEF r
    <2> HIDE DEF layer
    <2>2. waiting \in PaneRecord
      BY <1>2, <2>1, ZenonT(60) DEF PaneRecord
    <2>3. waiting.id = q.id /\ waiting.owner = q.owner /\ waiting.accepting = q.accepting
          /\ waiting.environment = q.environment
      BY <1>2 DEF PaneRecord
    <2> HIDE DEF waiting
    <2> QED
      BY <2>1, <2>2, <2>3 DEF Recedes
  <1> HIDE DEF r
  <1>5. w \in PaneRecord /\ Recedes(r, w)
    BY <1>4, SetModeFields, PartsRecede DEF TerminalMode
  <1> HIDE DEF w, prompt
  <1>6. Recedes(w, u)
    BY <1>5 DEF PaneRecord, Recedes
  <1> HIDE DEF u
  <1> QED
    BY <1>2, <1>3, <1>4, <1>5, <1>6, RecedesTrans

LEMMA OnControlRecedes ==
    ASSUME NEW p \in PaneRecord, NEW s \in Session, NEW e \in ControlEvent
    PROVE  Recedes(p, OnControl(p, s, e))
  <1> DEFINE q == OnControl(p, s, e)
             shell == [p EXCEPT !.connected = TRUE, !.waitingAuth = FALSE, !.pendingLayer = None]
             key == Keyed(p, s, e.layer)
             opened == [shell EXCEPT !.state = "CONNECTED"]
             asking == [key EXCEPT !.state = "HOST_VERIFICATION_REQUIRED"]
             forgotten == ForgetSession(p)
             failed == MarkFailed(forgotten)
             changed == [failed EXCEPT !.pendingLine = None]
  <1>1. e.layer \in Layer
    BY DEF ControlEvent
  <1>2. \/ q = SetMode(opened, "CONNECTED") \/ q = shell
        \/ q = SetMode(asking, "HOST_KEY_INPUT") \/ q = key
        \/ q = p \/ q = ReturnToPrompt(changed) \/ q = OnError(forgotten)
    BY OnControlCases, Zenon
  <1>3. shell \in PaneRecord /\ Recedes(p, shell)
    BY ShellFields, SameRecedes
  <1>4. key \in PaneRecord /\ Recedes(p, key)
    BY <1>1, KeyFields, SameRecedes
  <1>5. forgotten \in PaneRecord /\ Recedes(p, forgotten)
    BY ForgetFields, PartsRecede
  <1> HIDE DEF q, shell, key, forgotten
  <1>6. /\ opened \in PaneRecord /\ Recedes(shell, opened)
        /\ asking \in PaneRecord /\ Recedes(key, asking)
    BY <1>3, <1>4, StateFields, SameRecedes DEF SshSessionState, SameButMode, SameClient
  <1>7. failed \in PaneRecord /\ Recedes(forgotten, failed)
    BY <1>5, MarkFields, PartsRecede
  <1> HIDE DEF opened, asking, failed
  <1>8. changed \in PaneRecord /\ Recedes(failed, changed)
    BY <1>7 DEF PaneRecord, Recedes
  <1> HIDE DEF changed
  <1>9. /\ Recedes(opened, SetMode(opened, "CONNECTED"))
        /\ Recedes(asking, SetMode(asking, "HOST_KEY_INPUT"))
        /\ Recedes(changed, ReturnToPrompt(changed))
        /\ Recedes(forgotten, OnError(forgotten)) /\ Recedes(p, p)
    BY <1>5, <1>6, <1>8, PartsRecede, EndsRecede DEF TerminalMode
  <1> QED
    BY <1>2, <1>3, <1>4, <1>5, <1>6, <1>7, <1>8, <1>9, RecedesTrans DEF q

LEMMA OnTransportRecedes ==
    ASSUME NEW p \in PaneRecord, NEW s, NEW e \in TransportEvent
    PROVE  Recedes(p, OnTransport(p, s, e))
  <1> DEFINE forgotten == ForgetSession(p)
             screen == IF p.accepting THEN p.screen \cup {s} ELSE p.screen
             shown == [p EXCEPT !.screen = screen]
  <1>1. forgotten \in PaneRecord /\ Recedes(p, forgotten)
    BY ForgetFields, PartsRecede
  <1>2. Recedes(forgotten, OnClose(forgotten)) /\ Recedes(forgotten, OnError(forgotten))
    BY <1>1, EndsRecede
  <1>3. OnTransport(p, s, e) \in {shown, OnClose(forgotten), OnError(forgotten)}
    BY DEF OnTransport, TransportEvent
  <1> HIDE DEF screen
  <1>4. Recedes(p, shown)
    BY DEF PaneRecord, Recedes
  <1> HIDE DEF shown, forgotten
  <1> QED
    BY <1>1, <1>2, <1>3, <1>4, RecedesTrans

LEMMA LateKeeps ==
    ASSUME LateInv(pane), Recedes(pane, pane'),
           \A t \in Session : Silent(native[t]) => Silent(native'[t]),
           pane.environment = "preparing" \/ pane'.id = pane.id
    PROVE  LateInv(pane)'
  BY DEF LateInv, Recedes

\* The sessions' output and their ends stay as they are.
SameOutput ==
    \A t \in Session : native'[t].phase = native[t].phase
                       /\ (native[t].transport = <<>> => native'[t].transport = <<>>)

LEMMA SameOutputSilent ==
    ASSUME SameOutput
    PROVE  \A t \in Session : Silent(native[t]) => Silent(native'[t])
  BY DEF SameOutput, Silent

LEMMA SignalledOutput == ASSUME IInv, NEW s, native' = Signalled(s) PROVE SameOutput
  BY Unfold, SignalledFields DEF SameOutput

LEMMA BecomeOutput ==
    ASSUME IInv, NEW s \in Session, NEW m, Become(s, m), m.phase = native[s].phase,
           native[s].transport = <<>> => m.transport = <<>>
    PROVE  SameOutput
  BY Unfold DEF SameOutput, Become

LEMMA DecidedOutput ==
    ASSUME IInv, NEW accepted \in BOOLEAN, CanVerify, native' = Decided(accepted)
    PROVE  SameOutput
  <1>1. PICK m \in SessionRecord :
            /\ pane.id \in Session /\ Become(pane.id, m)
            /\ m.phase = native[pane.id].phase /\ m.transport = native[pane.id].transport
    BY DecidedFields DEF Become
  <1> QED
    BY <1>1, BecomeOutput

LEMMA UserLate ==
    ASSUME IInv, LateInv(pane), UserActs
    PROVE  LateInv(pane)'
  <1>0. pane \in PaneRecord
    BY Unfold
  <1> SUFFICES SameOutput /\ Recedes(pane, pane') /\ pane.environment = "preparing"
    BY LateKeeps, SameOutputSilent
  <1>1. pane.environment = "preparing"
    BY DEF UserActs, SubmitCommand, AcceptHostKey, RejectHostKey, SubmitPassword, Interrupt,
           EscapeDisconnect, TypeWithoutSession, TakesInput, Draining
  <1>2. native' = native => SameOutput
    BY DEF SameOutput
  <1>3. CASE SubmitCommand
    <2>1. PICK pasted : pane' = [pane EXCEPT !.commands = pasted] /\ UNCHANGED native
      BY <1>3 DEF SubmitCommand, Only
    <2>2. Recedes(pane, pane')
      BY <1>0, <2>1 DEF PaneRecord, Recedes
    <2> QED
      BY <1>1, <1>2, <2>1, <2>2
  <1>4. CASE AcceptHostKey
    <2> DEFINE p == SetMode(pane, "CONNECTING")
               saving == p.saving \cup {[line |-> pane.pendingLine, current |-> TRUE]}
    <2>1. pane' = [p EXCEPT !.saving = saving] /\ UNCHANGED native
      BY <1>4 DEF AcceptHostKey, Only
    <2>2. p \in PaneRecord /\ Recedes(pane, p)
      BY <1>0, SetModeFields, PartsRecede DEF TerminalMode
    <2> HIDE DEF p, saving
    <2>3. Recedes(p, pane')
      BY <2>1, <2>2 DEF PaneRecord, Recedes
    <2> QED
      BY <1>1, <1>2, <2>1, <2>2, <2>3, RecedesTrans
  <1>5. CASE RejectHostKey
    <2> DEFINE p == IF CanVerify THEN Verified(pane) ELSE pane
    <2>1. /\ native' = IF CanVerify THEN Decided(FALSE) ELSE native
          /\ pane' = ReturnToPrompt(MarkFailed(p))
      BY <1>5 DEF RejectHostKey
    <2>2. p \in PaneRecord /\ Recedes(pane, p)
      BY <1>0, VerifiedFields, PartsRecede
    <2> HIDE DEF p
    <2>3. Recedes(p, pane')
      BY <2>1, <2>2, EndsRecede
    <2>4. SameOutput
      BY <1>2, <2>1, DecidedOutput
    <2> QED
      BY <1>1, <2>2, <2>3, <2>4, RecedesTrans
  <1>6. CASE SubmitPassword
    <2> DEFINE s == pane.id
               answer == [layer |-> pane.pendingLayer, typedFor |-> pane.asked]
               m == [native[s] EXCEPT !.authTx = answer]
               sends == /\ pane.waitingAuth /\ pane.id # NoSession /\ pane.pendingLayer # None
                        /\ Listening(pane.id) /\ native[pane.id].authTx = None
               p == [pane EXCEPT !.waitingAuth = FALSE, !.pendingLayer = None]
               w == SetMode(p, "CONNECTING")
    <2>1. /\ native' = IF sends THEN [native EXCEPT ![s] = m] ELSE native
          /\ pane' = IF sends THEN ResumeConnection(w) ELSE OnError(pane)
      BY <1>6 DEF SubmitPassword
    <2>2. p \in PaneRecord /\ Recedes(pane, p)
      <3>1. p \in PaneRecord
        BY <1>0 DEF PaneRecord
      <3>2. /\ p.id = pane.id /\ p.owner = pane.owner /\ p.accepting = pane.accepting
            /\ p.environment = pane.environment
        BY <1>0 DEF PaneRecord
      <3> HIDE DEF p
      <3> QED
        BY <3>1, <3>2 DEF Recedes
    <2> HIDE DEF p, answer
    <2>3. w \in PaneRecord /\ Recedes(p, w)
      BY <2>2, SetModeFields, PartsRecede DEF TerminalMode
    <2> HIDE DEF w
    <2>4. Recedes(w, ResumeConnection(w)) /\ Recedes(pane, OnError(pane))
      BY <1>0, <2>3, PartsRecede, EndsRecede
    <2>5. Recedes(pane, pane')
      BY <2>1, <2>2, <2>3, <2>4, RecedesTrans
    <2>6. CASE sends
      <3>1. s \in Session /\ native[s] \in SessionRecord
        BY <2>6, Unfold
      <3>2. m.phase = native[s].phase /\ m.transport = native[s].transport
        BY <3>1 DEF SessionRecord
      <3>3. Become(s, m)
        BY <2>1, <2>6 DEF Become
      <3> QED
        BY <1>1, <2>5, <3>1, <3>2, <3>3, BecomeOutput
    <2> QED
      BY <1>1, <1>2, <2>1, <2>5, <2>6
  <1>7. CASE Interrupt
    <2> DEFINE p == ForgetSession(pane)
    <2>1. native' = Signalled(pane.id) /\ pane' = ReturnToPrompt(MarkDisconnected(p))
      BY <1>7 DEF Interrupt
    <2>2. p \in PaneRecord /\ Recedes(pane, p)
      BY <1>0, ForgetFields, PartsRecede
    <2> HIDE DEF p
    <2>3. Recedes(p, pane')
      BY <2>1, <2>2, EndsRecede
    <2> QED
      BY <1>1, <2>1, <2>2, <2>3, RecedesTrans, SignalledOutput
  <1>8. CASE EscapeDisconnect
    <2>1. native' = Signalled(pane.id) /\ pane' = ForgetSession(pane)
      BY <1>8 DEF EscapeDisconnect
    <2> QED
      BY <1>0, <1>1, <2>1, PartsRecede, SignalledOutput
  <1>9. CASE TypeWithoutSession
    <2>1. native' = native /\ pane' = OnError(pane)
      BY <1>9 DEF TypeWithoutSession, Only
    <2> QED
      BY <1>0, <1>1, <1>2, <2>1, EndsRecede
  <1> QED
    BY <1>3, <1>4, <1>5, <1>6, <1>7, <1>8, <1>9 DEF UserActs

LEMMA CommitLate ==
    ASSUME IInv, LateInv(pane), NEW d \in pane.saving, CommitSettles(d),
           pane.environment = "preparing"
    PROVE  LateInv(pane)'
  <1> DEFINE saving == pane.saving \ {d}
             p == [pane EXCEPT !.saving = saving]
             v == IF CanVerify THEN Verified(p) ELSE p
             w == SetMode(v, "CONNECTING")
  <1>1. p \in PaneRecord /\ Recedes(pane, p)
    BY Unfold DEF PaneRecord, Recedes
  <1>2. \E stored \in BOOLEAN :
          \/ pane' = p /\ native' = native
          \/ /\ native' = IF CanVerify THEN Decided(stored) ELSE native
             /\ pane' \in {ResumeConnection(w), OnError(v)}
    <2>1. PICK stored \in BOOLEAN :
            IF ~d.current
            THEN pane' = p /\ native' = native
            ELSE /\ native' = IF CanVerify THEN Decided(stored) ELSE native
                 /\ pane' = IF CanVerify /\ stored
                            THEN ResumeConnection(SetMode(Verified(p), "CONNECTING"))
                            ELSE OnError(IF CanVerify THEN Verified(p) ELSE p)
      BY DEF CommitSettles
    <2>2. CASE CanVerify
      BY <2>1, <2>2
    <2>3. CASE ~CanVerify
      BY <2>1, <2>3
    <2> QED
      BY <2>2, <2>3
  <1> HIDE DEF p
  <1>3. v \in PaneRecord /\ Recedes(p, v)
    BY <1>1, VerifiedFields, PartsRecede
  <1> HIDE DEF v
  <1>4. w \in PaneRecord /\ Recedes(v, w)
    BY <1>3, SetModeFields, PartsRecede DEF TerminalMode
  <1> HIDE DEF w
  <1>5. Recedes(w, ResumeConnection(w)) /\ Recedes(v, OnError(v))
    BY <1>3, <1>4, PartsRecede, EndsRecede
  <1>6. Recedes(pane, pane')
    BY <1>1, <1>2, <1>3, <1>4, <1>5, RecedesTrans
  <1>7. SameOutput
    <2>1. native' = native => SameOutput
      BY DEF SameOutput
    <2> QED
      BY <1>2, <2>1, DecidedOutput
  <1> QED
    BY <1>6, <1>7, LateKeeps, SameOutputSilent

LEMMA ConnectStartsLate ==
    ASSUME IInv, LateInv(pane), ConnectStarts
    PROVE  LateInv(pane)'
  <1> DEFINE q == Begun(Continued)
  <1>1. PICK s \in Session, first \in FirstLayers :
            native' = Started(s, first) /\ pane' = [q EXCEPT !.id = s, !.owner = s]
    BY DEF ConnectStarts, Unused
  <1>2. pane.environment = "ready" /\ pane.id = NoSession
    BY DEF ConnectStarts
  <1>3. q \in PaneRecord
    BY <1>2, BegunAgain
  <1> HIDE DEF q
  <1>4. pane'.id = s /\ pane'.owner = s
    BY <1>1, <1>3 DEF PaneRecord
  <1>5. \A t \in Session \ {s} : Silent(native[t]) /\ native'[t] = native[t]
    BY <1>1, <1>2, Unfold DEF LateInv, Started
  <1> QED
    BY <1>4, <1>5, Unfold DEF LateInv

LEMMA ResumeLate ==
    ASSUME IInv, LateInv(pane), ResumeCommand
    PROVE  LateInv(pane)'
  <1> DEFINE q == Begun(Continued)
  <1>1. CASE ConnectStarts
    BY <1>1, ConnectStartsLate
  <1>2. CASE ConnectThrows \/ ConnectRefused
    <2>1. /\ pane.environment # "preparing" /\ native' = native
          /\ pane' \in {ReturnToPrompt(MarkFailed(q)), OnError(q)}
      BY <1>2 DEF ConnectThrows, ConnectRefused, Only
    <2>2. q \in PaneRecord /\ q.state \notin Over
      BY <2>1, BegunAgain
    <2>3. q.accepting /\ q.id = pane.id
      BY <2>1, ContinuedFields, BegunFields DEF SameClient
    <2> HIDE DEF q
    <2> DEFINE f == MarkFailed(q)
    <2>4. f \in PaneRecord /\ f.accepting /\ f.id = q.id
      BY <2>2, <2>3, MarkFields DEF SameButMode, SameClient, SameBoundary
    <2>5. OnError(q) = ReturnToPrompt(f)
      BY <2>2, <2>4 DEF OnError, EndBoundary
    <2> HIDE DEF f
    <2>6. LET r == ReturnToPrompt(f) IN r.id = pane.id /\ r.owner = NoSession /\ ~r.accepting
      BY <2>3, <2>4, ReturnFields DEF SameClient
    <2>7. pane'.id = pane.id /\ pane'.owner = NoSession /\ ~pane'.accepting
      BY <2>1, <2>5, <2>6 DEF f
    <2> QED
      BY <2>1, <2>7, Unfold DEF LateInv, Recedes
  <1>3. CASE CommandFails
    <2>1. pane.environment # "preparing" /\ native' = native /\ pane' = Continued
      BY <1>3 DEF CommandFails, Only
    <2>2. SameClient(pane, pane') /\ SameBoundary(pane, pane')
      BY <2>1, ContinuedFields
    <2> QED
      BY <2>1, <2>2 DEF LateInv, SameClient, SameBoundary
  <1> QED
    BY <1>1, <1>2, <1>3 DEF ResumeCommand

LEMMA EventLate ==
    ASSUME IInv, LateInv(pane), NEW s \in Session, EventArrives(s)
    PROVE  LateInv(pane)'
  <1>0. pane \in PaneRecord /\ native[s] \in SessionRecord /\ pane.environment = "preparing"
    BY Unfold DEF EventArrives, Draining
  <1> SUFFICES SameOutput /\ Recedes(pane, pane')
    BY <1>0, LateKeeps, SameOutputSilent
  <1>1. Recedes(pane, pane)
    BY <1>0, PartsRecede
  <1>2. CASE ControlEventArrives(s)
    <2> DEFINE n == native[s]
               m == [n EXCEPT !.control = Tail(@)]
               e == Head(n.control)
    <2>1. /\ n.control # <<>> /\ Become(s, m)
          /\ pane' = IF IsCurrent(s) THEN OnControl(pane, s, e) ELSE pane
      BY <1>2 DEF ControlEventArrives
    <2>2. e \in ControlEvent
      BY <1>0, <2>1, TailElements DEF SessionRecord
    <2>3. m.phase = n.phase /\ m.transport = n.transport
      BY <1>0, <2>1, ControlTaken
    <2> HIDE DEF m, e
    <2>4. SameOutput
      BY <2>1, <2>3, BecomeOutput
    <2> QED
      BY <1>0, <1>1, <2>1, <2>2, <2>4, OnControlRecedes
  <1>3. CASE AuthEventArrives(s)
    <2> DEFINE n == native[s]
               m == [n EXCEPT !.auth = Tail(@)]
               e == Head(n.auth)
    <2>1. /\ n.auth # <<>> /\ Become(s, m)
          /\ pane' = IF IsCurrent(s) THEN OnAuth(pane, s, e) ELSE pane
      BY <1>3 DEF AuthEventArrives
    <2>2. e \in AuthEvent
      BY <1>0, <2>1, TailElements DEF SessionRecord
    <2>3. m.phase = n.phase /\ m.transport = n.transport
      BY <1>0, <2>1, AuthTaken
    <2> HIDE DEF m, e
    <2>4. SameOutput
      BY <2>1, <2>3, BecomeOutput
    <2> QED
      BY <1>0, <1>1, <2>1, <2>2, <2>4, OnAuthRecedes
  <1>4. CASE TransportEventArrives(s)
    <2> DEFINE n == native[s]
               m == [n EXCEPT !.transport = Tail(@)]
               e == Head(n.transport)
    <2>1. /\ n.transport # <<>> /\ Become(s, m) /\ pane' = OnTransport(pane, s, e)
      BY <1>4 DEF TransportEventArrives
    <2>2. e \in TransportEvent
      BY <1>0, <2>1, TailElements DEF SessionRecord
    <2>3. m.phase = n.phase
      BY <1>0, <2>1, TransportTaken
    <2> HIDE DEF m, e
    <2>4. SameOutput
      BY <2>1, <2>3, BecomeOutput
    <2> QED
      BY <1>0, <2>1, <2>2, <2>4, OnTransportRecedes
  <1> QED
    BY <1>2, <1>3, <1>4 DEF EventArrives

LEMMA SurfaceFailsLate == ASSUME IInv, LateInv(pane), SurfaceFails PROVE LateInv(pane)'
  <1> DEFINE p == ForgetSession(pane)
             q == [p EXCEPT !.accepting = FALSE, !.terminalFailed = TRUE,
                            !.resetPending = TRUE, !.resetting = FALSE,
                            !.owner = NoSession, !.screen = {}]
  <1>1. native' = Signalled(pane.id) /\ pane' = q /\ pane.environment = "preparing"
    BY DEF SurfaceFails, Draining
  <1>2. p \in PaneRecord /\ Recedes(pane, p)
    BY Unfold, ForgetFields, PartsRecede
  <1> HIDE DEF p
  <1>3. Recedes(p, q)
    BY <1>2 DEF PaneRecord, Recedes
  <1> QED
    BY <1>1, <1>2, <1>3, LateKeeps, RecedesTrans, SameOutputSilent, SignalledOutput

LEMMA DisposeLate == ASSUME IInv, LateInv(pane), Dispose PROVE LateInv(pane)'
  <1> DEFINE f == ForgetSession(pane)
             p == MarkDisconnected(f)
             revoked == Revoked(p.saving)
             q == [p EXCEPT !.disposed = TRUE, !.accepting = FALSE,
                            !.resetPending = FALSE, !.resetting = FALSE,
                            !.saving = revoked, !.owner = NoSession, !.screen = {}]
  <1>1. native' = Signalled(pane.id) /\ pane' = SetMode(q, "IDLE") /\ pane.environment = "preparing"
    BY DEF Dispose, Draining
  <1>2. f \in PaneRecord /\ Recedes(pane, f)
    BY Unfold, ForgetFields, PartsRecede
  <1> HIDE DEF f
  <1>3. p \in PaneRecord /\ Recedes(f, p)
    BY <1>2, MarkFields, PartsRecede
  <1> HIDE DEF p
  <1>4. revoked \in SUBSET [line : HostKey, current : BOOLEAN]
    BY <1>3, RevokedApprovals DEF PaneRecord
  <1> HIDE DEF revoked
  <1>5. q \in PaneRecord
    BY <1>3, <1>4 DEF PaneRecord, NoSession
  <1>6. Recedes(p, q)
    BY <1>3 DEF PaneRecord, Recedes
  <1> HIDE DEF q
  <1>7. Recedes(q, pane')
    BY <1>1, <1>5, PartsRecede DEF TerminalMode
  <1> QED
    BY <1>1, <1>2, <1>3, <1>6, <1>7, LateKeeps, RecedesTrans, SameOutputSilent, SignalledOutput

LEMMA InitLate == Init => LateInv(pane)
  <1> SUFFICES ASSUME Init PROVE LateInv(pane)
    OBVIOUS
  <1>1. /\ pane.environment = "preparing" /\ pane.id = NoSession /\ ~pane.accepting
    BY DEF Init
  <1> QED
    BY <1>1 DEF LateInv

LEMMA NextLate ==
    ASSUME "late teardown" \in Excluded, IInv, LateInv(pane), [Next]_vars
    PROVE  LateInv(pane)'
  <1>1. CASE NativeNext /\ UNCHANGED <<pane, committed>>
    BY <1>1, NativeNextKeeps
  <1>2. CASE UserActs
    BY <1>2, UserLate
  <1>3. CASE EnvironmentSettles
    <2>1. PICK outcome :
            /\ pane' = [pane EXCEPT !.environment = outcome] /\ native' = native
            /\ \A s \in Session \ {pane.id} :
                  native[s].phase \in {"none", "ended"} /\ native[s].transport = <<>>
      BY <1>3 DEF EnvironmentSettles, Only
    <2>2. pane'.id = pane.id /\ pane'.owner = pane.owner /\ pane'.accepting = pane.accepting
      BY <2>1, Unfold DEF PaneRecord
    <2> QED
      BY <2>1, <2>2 DEF LateInv, Silent
  <1>4. CASE ResumeCommand
    BY <1>4, ResumeLate
  <1>5. CASE HostKeySaved
    BY <1>5, CommitLate DEF HostKeySaved, Draining
  <1>6. CASE \E s \in Session : EventArrives(s)
    BY <1>6, EventLate
  <1>7. CASE ResetCompletes
    <2>1. /\ pane' = [pane EXCEPT !.resetPending = FALSE, !.resetting = FALSE]
          /\ native' = native /\ pane.environment = "preparing"
      BY <1>7 DEF ResetCompletes, Only, Draining
    <2>2. Recedes(pane, pane')
      BY <2>1, Unfold DEF PaneRecord, Recedes
    <2> QED
      BY <2>1, <2>2, LateKeeps
  <1>8. CASE SurfaceFails \/ Dispose
    BY <1>8, SurfaceFailsLate, DisposeLate
  <1>9. CASE UNCHANGED vars
    BY <1>9 DEF vars, LateInv, Silent
  <1> QED
    BY <1>1, <1>2, <1>3, <1>4, <1>5, <1>6, <1>7, <1>8, <1>9 DEF Next

\* Once connections begin only after the teardown of the last, sessions other
\* than the pane's own are silent whenever the pane has one or listens to one.
LEMMA LateInvHolds ==
    ASSUME "late teardown" \in Excluded
    PROVE  Spec => [](IInv /\ LateInv(pane))
  <1>1. Init => IInv /\ LateInv(pane)
    BY InitIInv, InitLate
  <1>2. IInv /\ LateInv(pane) /\ [Next]_vars => (IInv /\ LateInv(pane))'
    BY NextIInv, NextLate
  <1> QED
    BY <1>1, <1>2, PTL DEF Spec

\* Only events and the native layer touch a session the pane does not stand for.
LEMMA OthersKept ==
    ASSUME IInv, pane.id # NoSession, NEW s \in Session \ {pane.id},
           \/ UserActs \/ EnvironmentSettles \/ ResumeCommand \/ HostKeySaved
           \/ ResetCompletes \/ SurfaceFails \/ Dispose \/ UNCHANGED vars
    PROVE  native'[s] = native[s]
  <1> SUFFICES \/ native' = native \/ native' = Signalled(pane.id)
               \/ \E m : native' = [native EXCEPT ![pane.id] = m]
    BY Unfold DEF Signalled
  <1>0. \A accepted : \E m : Decided(accepted) = [native EXCEPT ![pane.id] = m]
    BY DEF Decided
  <1>1. CASE UserActs
    <2>1. CASE SubmitCommand \/ AcceptHostKey \/ TypeWithoutSession
      BY <2>1 DEF SubmitCommand, AcceptHostKey, TypeWithoutSession, Only
    <2>2. CASE RejectHostKey
      BY <1>0, <2>2 DEF RejectHostKey
    <2>3. CASE SubmitPassword
      BY <2>3 DEF SubmitPassword
    <2>4. CASE Interrupt \/ EscapeDisconnect
      BY <2>4 DEF Interrupt, EscapeDisconnect
    <2> QED
      BY <1>1, <2>1, <2>2, <2>3, <2>4 DEF UserActs
  <1>2. CASE EnvironmentSettles \/ ResetCompletes
    BY <1>2 DEF EnvironmentSettles, ResetCompletes, Only
  <1>3. CASE ResumeCommand
    BY <1>3 DEF ResumeCommand, ConnectStarts, ConnectThrows, ConnectRefused, CommandFails, Only
  <1>4. CASE HostKeySaved
    <2>1. PICK d \in pane.saving : CommitSettles(d)
      BY <1>4 DEF HostKeySaved
    <2> QED
      BY <1>0, <2>1 DEF CommitSettles
  <1>5. CASE SurfaceFails \/ Dispose
    BY <1>5 DEF SurfaceFails, Dispose
  <1>6. CASE UNCHANGED vars
    BY <1>6 DEF vars
  <1> QED
    BY <1>1, <1>2, <1>3, <1>4, <1>5, <1>6

LEMMA LateStep ==
    ASSUME IInv, LateInv(pane), [Next]_vars, pane' # pane, pane.id # NoSession,
           NEW s \in Session \ {pane.id}, Arrives(s)
    PROVE  FALSE
  <1>1. native[s] \in SessionRecord
    BY Unfold
  <1>2. native'[s] # native[s]
    <2> SUFFICES ASSUME native'[s] = native[s] PROVE FALSE
      OBVIOUS
    <2>1. /\ Len(native[s].control) \in Nat /\ Len(native[s].auth) \in Nat
          /\ Len(native[s].transport) \in Nat
      BY <1>1 DEF SessionRecord
    <2> QED
      BY <2>1 DEF Arrives
  <1>3. PICK t \in Session : EventArrives(t)
    BY <1>2, OthersKept DEF Next
  <1>4. t = s
    BY <1>2, <1>3, Unfold
       DEF EventArrives, ControlEventArrives, AuthEventArrives, TransportEventArrives, Become
  <1>5. TransportEventArrives(s)
    BY <1>3, <1>4 DEF EventArrives, ControlEventArrives, AuthEventArrives, IsCurrent
  <1>6. s # pane.owner
    BY Unfold DEF LateInv
  <1>7. native[s].transport = <<>>
    BY <1>6 DEF LateInv, Silent
  <1> QED
    BY <1>5, <1>7 DEF TransportEventArrives

\* While the client stands for one session, no event of another changes the
\* pane (SessionViewModel's callbacks), as long as a connection begins only
\* after the teardown of the last.
THEOREM LateIgnored ==
    ASSUME "late teardown" \in Excluded
    PROVE  Spec => LateEventsIgnored
  <1>1. IInv /\ LateInv(pane) /\ [Next]_vars =>
            [pane' # pane /\ pane.id # NoSession =>
                \A s \in Session \ {pane.id} : ~Arrives(s)]_vars
    BY LateStep
  <1> QED
    BY <1>1, LateInvHolds, PTL DEF Spec, LateEventsIgnored

-----------------------------------------------------------------------------
(* What the handlers' parts keep of TidyInv.                                *)

LEMMA ReturnShape ==
    ASSUME NEW p \in PaneRecord, p.commands \in 0..1, ~Stopped(p)
    PROVE  LET q == ReturnToPrompt(p) IN CoreInv(q) /\ PromptInv(q) /\ ~Stopped(q)
  <1> DEFINE q == ReturnToPrompt(p)
  <1>1. /\ SameCommands(p, q) /\ SameLife(p, q) /\ q.mode = "IDLE"
        /\ ~q.accepting /\ q.resetPending /\ q.resetting
        /\ q.owner = NoSession /\ q.screen = {}
    BY ReturnFields
  <1> HIDE DEF q
  <1> QED
    BY <1>1 DEF CoreInv, PromptInv, Stopped, Prompting, SameCommands, SameLife, q

LEMMA CoreKept ==
    ASSUME NEW p, NEW q, CoreInv(p), q.mode = p.mode, q.id \in {p.id, NoSession},
           SameBoundary(p, q), SameCommands(p, q), SameLife(p, q)
    PROVE  CoreInv(q)
  BY DEF CoreInv, Stopped, SameBoundary, SameCommands, SameLife

\* From one mode to another, neither of them ltty>.
LEMMA CoreMoves ==
    ASSUME NEW p, NEW q, CoreInv(p), ~Stopped(p), p.mode # "IDLE", q.mode # "IDLE",
           SameBoundary(p, q), SameCommands(p, q), SameLife(p, q)
    PROVE  CoreInv(q) /\ ~Stopped(q)
  BY DEF CoreInv, Stopped, SameBoundary, SameCommands, SameLife

LEMMA EndShape ==
    ASSUME NEW p \in PaneRecord, CoreInv(p), NEW f \in {MarkFailed(p), MarkDisconnected(p)}
    PROVE  CoreInv(EndBoundary(f)) /\ PromptInv(EndBoundary(f))
  <1>1. /\ f \in PaneRecord /\ SameMode(p, f) /\ SameButMode(p, f)
    BY MarkFields
  <1>2. CoreInv(f)
    BY <1>1, CoreKept DEF SameMode, SameButMode, SameClient
  <1>3. CASE f.accepting
    <2>1. ~Stopped(f) /\ f.commands \in 0..1
      BY <1>2, <1>3 DEF CoreInv
    <2> QED
      BY <1>1, <1>3, <2>1, ReturnShape DEF EndBoundary
  <1>4. CASE ~f.accepting
    <2>1. f.terminalFailed \/ f.mode = "IDLE"
      BY <1>2, <1>4 DEF CoreInv
    <2> QED
      BY <1>2, <1>4, <2>1 DEF EndBoundary, PromptInv, Prompting
  <1> QED
    BY <1>3, <1>4

LEMMA OnErrorShape ==
    ASSUME NEW p \in PaneRecord, CoreInv(p), p.state \in Over => PromptInv(p)
    PROVE  CoreInv(OnError(p)) /\ PromptInv(OnError(p))
  BY EndShape DEF OnError

\* A pane that has ended its connection is at ltty>, or has no terminal.
LEMMA OverIdle ==
    ASSUME NEW p, PaneInv(p), PromptInv(p), p.state \in Over
    PROVE  p.mode = "IDLE" \/ p.terminalFailed
  BY DEF PaneInv, ModeInv, StateInv, PromptInv, PaneRecord, TerminalMode, Prompting, Over, BeforeShell

LEMMA ForgetShape ==
    ASSUME NEW p, PaneInv(p), CoreInv(p), PromptInv(p)
    PROVE  LET q == ForgetSession(p) IN
           /\ q \in PaneRecord /\ CoreInv(q) /\ q.id = NoSession /\ q.mode = p.mode
           /\ q.state = p.state /\ (q.state \in Over => PromptInv(q))
           /\ SameBoundary(p, q) /\ SameCommands(p, q) /\ SameLife(p, q)
  <1> DEFINE q == ForgetSession(p)
  <1>1. /\ q \in PaneRecord /\ SameMode(p, q) /\ SameBoundary(p, q) /\ SameCommands(p, q)
        /\ SameLife(p, q) /\ q.state = p.state /\ q.id = NoSession
    BY ForgetFields DEF PaneInv, ModeInv
  <1> HIDE DEF q
  <1>2. CoreInv(q)
    BY <1>1, CoreKept DEF SameMode
  <1>3. q.state \in Over => PromptInv(q)
    BY <1>1, OverIdle DEF PromptInv, Prompting, SameMode, SameLife
  <1> QED
    BY <1>1, <1>2, <1>3 DEF SameMode, q

LEMMA ForgottenShape ==
    ASSUME NEW p, PaneInv(p), CoreInv(p), PromptInv(p)
    PROVE  LET f == ForgetSession(p) IN
           /\ CoreInv(OnError(f)) /\ PromptInv(OnError(f))
           /\ CoreInv(OnClose(f)) /\ PromptInv(OnClose(f))
           /\ OnError(f).id = NoSession /\ OnClose(f).id = NoSession
  <1> DEFINE f == ForgetSession(p)
  <1>1. f \in PaneRecord /\ CoreInv(f) /\ f.id = NoSession /\ (f.state \in Over => PromptInv(f))
    BY ForgetShape
  <1> HIDE DEF f
  <1>2. Recedes(f, OnError(f)) /\ Recedes(f, OnClose(f))
    BY <1>1, EndsRecede
  <1> QED
    BY <1>1, <1>2, EndShape, OnErrorShape DEF OnClose, Recedes, f

\* At ltty> no host key is undecided.
LEMMA IdleDecided ==
    ASSUME NEW p, PaneInv(p), p.mode \notin {"HOST_KEY_INPUT", "CONNECTING"}, NEW n
    PROVE  UndecidedInv(p, n)
  BY DEF PaneInv, ModeInv, UndecidedInv

-----------------------------------------------------------------------------
(* What becomes of the sessions: TidyInv.                                   *)

LEMMA Tidy ==
    ASSUME IInv, EInv
    PROVE  /\ LateInv(pane) /\ CoreInv(pane) /\ PromptInv(pane) /\ LeavingInv(pane)
           /\ \A s \in Session : KeyQueueInv(native[s])
           /\ pane.id # NoSession =>
                pane.id \in Session /\ UndecidedInv(pane, native[pane.id]) /\ ~Stopped(pane)
           /\ TakesInput => ~Stopped(pane)
  BY Unfold DEF EInv, TidyInv, CoreInv, TakesInput, Stopped

LEMMA TidyFold ==
    ASSUME CoreInv(pane)', PromptInv(pane)', LeavingInv(pane)',
           \A s \in Session : KeyQueueInv(native'[s]),
           pane'.id # NoSession => UndecidedInv(pane', native'[pane'.id])
    PROVE  TidyInv'
  BY DEF TidyInv

\* Nothing about the host keys and the ends of sessions gets worse.
SameKeys ==
    \A t \in Session : KeyQueueInv(native'[t]) /\ (Leaving(native[t]) => Leaving(native'[t]))

LEMMA SameNativeKeys == ASSUME IInv, EInv, native' = native PROVE SameKeys
  BY Tidy DEF SameKeys

\* The session the pane stands for leaves, or goes on under the same pane.
LEMMA LeavingForgotten ==
    ASSUME IInv, EInv, SameKeys, pane.id # NoSession => Leaving(native'[pane.id])
    PROVE  LeavingInv(pane)'
  BY Unfold, Tidy DEF LeavingInv, SameKeys

LEMMA LeavingKept ==
    ASSUME IInv, EInv, SameKeys, pane'.id = pane.id,
           (pane'.mode = "IDLE" => pane.mode = "IDLE") /\ (Stopped(pane') => Stopped(pane))
    PROVE  LeavingInv(pane)'
  BY Unfold, Tidy DEF LeavingInv, SameKeys, Stopped

\* Back at ltty>, or without a session, in a proper shape.
LEMMA TidyForgotten ==
    ASSUME IInv, EInv, IInv', SameKeys, pane.id # NoSession => Leaving(native'[pane.id]),
           CoreInv(pane'), PromptInv(pane'), pane'.id = NoSession \/ pane'.mode = "IDLE"
    PROVE  TidyInv'
  <1>1. PaneInv(pane')
    BY DEF IInv
  <1>2. pane'.id # NoSession => UndecidedInv(pane', native'[pane'.id])
    BY <1>1, IdleDecided
  <1>3. CoreInv(pane)' /\ PromptInv(pane)'
    BY DEF CoreInv, PromptInv, Stopped
  <1> QED
    BY <1>2, <1>3, TidyFold, LeavingForgotten DEF SameKeys

\* A pane that goes on with its session.
LEMMA TidyKept ==
    ASSUME IInv, EInv, SameKeys, pane'.id = pane.id,
           (pane'.mode = "IDLE" => pane.mode = "IDLE") /\ (Stopped(pane') => Stopped(pane)),
           CoreInv(pane'), PromptInv(pane'),
           pane.id # NoSession => UndecidedInv(pane', native'[pane.id])
    PROVE  TidyInv'
  <1>1. CoreInv(pane)' /\ PromptInv(pane)'
    BY DEF CoreInv, PromptInv, Stopped
  <1> QED
    BY <1>1, TidyFold, LeavingKept DEF SameKeys

LEMMA SignalledKeys ==
    ASSUME IInv, EInv, native' = Signalled(pane.id)
    PROVE  SameKeys /\ (pane.id # NoSession => Leaving(native'[pane.id]))
  <1>1. ASSUME NEW t \in Session
        PROVE  /\ KeyQueueInv(native'[t]) /\ (Leaving(native[t]) => Leaving(native'[t]))
               /\ t = pane.id => Leaving(native'[t])
    <2> DEFINE n == native[t]
               m == native'[t]
    <2>1. /\ m.phase = n.phase /\ m.layer = n.layer /\ m.control = n.control
          /\ m.transport = n.transport /\ m.hostKeyTx = n.hostKeyTx
          /\ n.disconnectTx => m.disconnectTx
          /\ t = pane.id => m.disconnectTx \/ m.phase \in {"none", "ended"}
      BY Unfold, SignalledFields
    <2>2. KeyQueueInv(n)
      BY Tidy
    <2> HIDE DEF n, m
    <2>3. KeyQueueInv(m) /\ (Leaving(n) => Leaving(m)) /\ (t = pane.id => Leaving(m))
      BY <2>1, <2>2 DEF KeyQueueInv, KeyPrompt, Leaving
    <2> QED
      BY <2>3 DEF n, m
  <1> QED
    BY <1>1, Tidy DEF SameKeys

\* The decision that is sent is for the key the session asks about.
LEMMA DecidedKeys ==
    ASSUME IInv, EInv, NEW accepted \in BOOLEAN, CanVerify, native' = Decided(accepted),
           pane.mode = "HOST_KEY_INPUT" \/ \E d \in pane.saving : d.current
    PROVE  SameKeys /\ (~accepted => Leaving(native'[pane.id]))
  <1> DEFINE s == pane.id
             n == native[s]
  <1>1. PICK m \in SessionRecord :
            /\ s \in Session /\ Become(s, m)
            /\ n.hostKeyTx = None /\ n.phase \notin {"none", "ended"}
            /\ m.hostKeyTx # None /\ m.hostKeyTx.layer = pane.pendingLayer
            /\ m.hostKeyTx.accepted = accepted
            /\ m.phase = n.phase /\ m.layer = n.layer /\ m.control = n.control
            /\ m.transport = n.transport /\ m.disconnectTx = n.disconnectTx
    BY DecidedFields DEF Become
  <1>2. KeyQueueInv(n) /\ UndecidedInv(pane, n)
    BY <1>1, Tidy, Unfold
  <1>3. native'[s] = m /\ \A t \in Session : t # s => native'[t] = native[t]
    BY <1>1, Unfold DEF Become
  <1>4. KeyQueueInv(m)
    BY <1>1, <1>2 DEF KeyQueueInv, KeyPrompt, UndecidedInv
  <1>5. (Leaving(n) => Leaving(m)) /\ (~accepted => Leaving(m))
    BY <1>1 DEF Leaving
  <1> QED
    BY <1>1, <1>3, <1>4, <1>5, Tidy DEF SameKeys

\* No decision can be sent to a session that has ended.
LEMMA Undecidable ==
    ASSUME IInv, EInv, ~CanVerify, pane.id # NoSession,
           pane.mode = "HOST_KEY_INPUT" \/ \E d \in pane.saving : d.current
    PROVE  Leaving(native[pane.id])
  BY Tidy DEF CanVerify, UndecidedInv, Listening, Leaving

-----------------------------------------------------------------------------
(* The actions of the pane, and TidyInv.                                    *)

LEMMA SubmitCommandTidy ==
    ASSUME Situation \subseteq Excluded, IInv, EInv, SubmitCommand
    PROVE  TidyInv'
  <1>1. /\ pane' = [pane EXCEPT !.commands = 1] /\ native' = native
        /\ pane.mode = "IDLE" /\ ~Stopped(pane)
    BY Tidy DEF SubmitCommand, Situation, Only
  <1>2. /\ SameMode(pane, pane') /\ SameClient(pane, pane') /\ SameBoundary(pane, pane')
        /\ SameLife(pane, pane') /\ pane'.state = pane.state /\ pane'.commands = 1
    BY <1>1, Unfold DEF PaneRecord, SameMode, SameClient, SameBoundary, SameLife
  <1>3. CoreInv(pane')
    BY <1>1, <1>2, Tidy DEF CoreInv, Stopped, SameMode, SameClient, SameBoundary, SameLife
  <1>4. PromptInv(pane')
    BY <1>2, Tidy DEF PromptInv, SameMode, SameClient, SameLife
  <1>5. Stopped(pane') => Stopped(pane)
    BY <1>2 DEF Stopped, SameLife
  <1>6. pane.id # NoSession => UndecidedInv(pane', native'[pane.id])
    BY <1>1, <1>2, Tidy DEF UndecidedInv, SameMode, SameClient
  <1> QED
    BY <1>1, <1>2, <1>3, <1>4, <1>5, <1>6, TidyKept, SameNativeKeys DEF SameMode, SameClient

LEMMA EnvironmentSettlesTidy ==
    ASSUME IInv, EInv, EnvironmentSettles
    PROVE  TidyInv'
  <1>1. PICK outcome : pane' = [pane EXCEPT !.environment = outcome] /\ native' = native
    BY DEF EnvironmentSettles, Only
  <1>2. /\ SameMode(pane, pane') /\ SameClient(pane, pane') /\ SameBoundary(pane, pane')
        /\ SameLife(pane, pane') /\ pane'.state = pane.state /\ pane'.commands = pane.commands
    BY <1>1, Unfold DEF PaneRecord, SameMode, SameClient, SameBoundary, SameLife
  <1>3. CoreInv(pane')
    BY <1>2, Tidy DEF CoreInv, Stopped, SameMode, SameClient, SameBoundary, SameLife
  <1>4. PromptInv(pane')
    BY <1>2, Tidy DEF PromptInv, SameMode, SameClient, SameLife
  <1>5. Stopped(pane') => Stopped(pane)
    BY <1>2 DEF Stopped, SameLife
  <1>6. pane.id # NoSession => UndecidedInv(pane', native'[pane.id])
    BY <1>1, <1>2, Tidy DEF UndecidedInv, SameMode, SameClient
  <1> QED
    BY <1>1, <1>2, <1>3, <1>4, <1>5, <1>6, TidyKept, SameNativeKeys DEF SameMode, SameClient

LEMMA InterruptTidy == ASSUME IInv, EInv, IInv', Interrupt PROVE TidyInv'
  <1> DEFINE f == ForgetSession(pane)
             d == MarkDisconnected(f)
  <1>1. native' = Signalled(pane.id) /\ pane' = ReturnToPrompt(d) /\ ~Stopped(pane)
    BY Tidy DEF Interrupt
  <1>2. f \in PaneRecord /\ CoreInv(f) /\ SameLife(pane, f)
    BY Unfold, Tidy, ForgetShape
  <1> HIDE DEF f
  <1>3. d \in PaneRecord /\ SameButMode(f, d)
    BY <1>2, MarkFields
  <1> HIDE DEF d
  <1>4. d.commands \in 0..1 /\ ~Stopped(d)
    BY <1>1, <1>2, <1>3 DEF CoreInv, Stopped, SameLife, SameButMode, SameCommands
  <1>5. CoreInv(pane') /\ PromptInv(pane') /\ pane'.mode = "IDLE"
    BY <1>1, <1>3, <1>4, ReturnShape, ReturnFields
  <1> QED
    BY <1>1, <1>5, SignalledKeys, TidyForgotten

LEMMA EscapeDisconnectTidy == ASSUME IInv, EInv, IInv', EscapeDisconnect PROVE TidyInv'
  <1>1. native' = Signalled(pane.id) /\ pane' = ForgetSession(pane) /\ pane.mode = "CONNECTED"
    BY DEF EscapeDisconnect
  <1>2. /\ CoreInv(pane') /\ pane'.id = NoSession /\ pane'.mode = pane.mode
        /\ pane'.state = pane.state /\ SameLife(pane, pane')
    BY <1>1, Unfold, Tidy, ForgetShape
  <1>3. PromptInv(pane')
    BY <1>1, <1>2, Tidy DEF PromptInv, Prompting, SameLife
  <1> QED
    BY <1>1, <1>2, <1>3, SignalledKeys, TidyForgotten

LEMMA TypeWithoutSessionTidy ==
    ASSUME IInv, EInv, IInv', TypeWithoutSession
    PROVE  TidyInv'
  <1>1. /\ native' = native /\ pane' = OnError(pane)
        /\ pane.mode = "CONNECTED" /\ ~pane.connected /\ ~Stopped(pane)
    BY Tidy DEF TypeWithoutSession, Only
  <1>2. pane.id = NoSession
    BY <1>1, Tidy DEF PromptInv, Stopped
  <1>3. Recedes(pane, pane')
    BY <1>1, Unfold, EndsRecede
  <1>4. CoreInv(pane') /\ PromptInv(pane')
    BY <1>1, Unfold, Tidy, OnErrorShape
  <1> QED
    BY <1>1, <1>2, <1>3, <1>4, SameNativeKeys, TidyForgotten DEF Recedes

LEMMA AcceptHostKeyTidy == ASSUME IInv, EInv, AcceptHostKey PROVE TidyInv'
  <1> DEFINE p == SetMode(pane, "CONNECTING")
             saving == p.saving \cup {[line |-> pane.pendingLine, current |-> TRUE]}
  <1>1. /\ pane.mode = "HOST_KEY_INPUT" /\ ~Stopped(pane) /\ native' = native
        /\ pane' = [p EXCEPT !.saving = saving]
    BY Tidy DEF AcceptHostKey, Only
  <1>2. /\ p \in PaneRecord /\ SameButMode(pane, p) /\ p.state = pane.state
        /\ p.mode = "CONNECTING"
    BY Unfold, SetModeFields DEF TerminalMode
  <1> HIDE DEF p, saving
  <1>3. SameButMode(p, pane') /\ pane'.state = p.state /\ pane'.mode = p.mode
    BY <1>1, <1>2 DEF PaneRecord, SameButMode, SameClient, SameBoundary, SameCommands, SameLife
  <1>4. SameButMode(pane, pane') /\ pane'.mode = "CONNECTING"
    BY <1>2, <1>3 DEF SameButMode, SameClient, SameBoundary, SameCommands, SameLife
  <1>5. CoreInv(pane') /\ ~Stopped(pane')
    BY <1>1, <1>4, Tidy, CoreMoves DEF SameButMode
  <1>6. PromptInv(pane')
    BY <1>1, <1>4, Tidy DEF PromptInv, Prompting, Stopped, SameButMode, SameClient, SameLife
  <1>7. pane.id # NoSession => UndecidedInv(pane', native'[pane.id])
    BY <1>1, <1>4, Tidy DEF UndecidedInv, SameButMode, SameClient
  <1> QED
    BY <1>1, <1>4, <1>5, <1>6, <1>7, TidyKept, SameNativeKeys DEF SameButMode, SameClient

LEMMA RejectHostKeyTidy == ASSUME IInv, EInv, IInv', RejectHostKey PROVE TidyInv'
  <1> DEFINE p == IF CanVerify THEN Verified(pane) ELSE pane
             f == MarkFailed(p)
  <1>1. /\ pane.mode = "HOST_KEY_INPUT" /\ ~Stopped(pane)
        /\ native' = IF CanVerify THEN Decided(FALSE) ELSE native
        /\ pane' = ReturnToPrompt(f)
    BY Tidy DEF RejectHostKey
  <1>2. p \in PaneRecord /\ SameCommands(pane, p) /\ SameLife(pane, p)
    BY Unfold, VerifiedFields DEF SameCommands, SameLife
  <1> HIDE DEF p
  <1>3. f \in PaneRecord /\ SameButMode(p, f)
    BY <1>2, MarkFields
  <1> HIDE DEF f
  <1>4. f.commands \in 0..1 /\ ~Stopped(f)
    BY <1>1, <1>2, <1>3, Tidy DEF CoreInv, Stopped, SameLife, SameButMode, SameCommands
  <1>5. CoreInv(pane') /\ PromptInv(pane') /\ pane'.mode = "IDLE"
    BY <1>1, <1>3, <1>4, ReturnShape, ReturnFields
  <1>6. SameKeys /\ (pane.id # NoSession => Leaving(native'[pane.id]))
    <2>1. CASE CanVerify
      BY <1>1, <2>1, DecidedKeys
    <2>2. CASE ~CanVerify
      BY <1>1, <2>2, Undecidable, SameNativeKeys
    <2> QED
      BY <2>1, <2>2
  <1> QED
    BY <1>5, <1>6, TidyForgotten

LEMMA CommitSettlesTidy ==
    ASSUME IInv, EInv, IInv', NEW d \in pane.saving, CommitSettles(d)
    PROVE  TidyInv'
  <1> DEFINE saving == pane.saving \ {d}
             p == [pane EXCEPT !.saving = saving]
             v == IF CanVerify THEN Verified(p) ELSE p
             w == SetMode(v, "CONNECTING")
             u == ResumeConnection(w)
  <1>1. PICK stored \in BOOLEAN :
            \/ ~d.current /\ pane' = p /\ native' = native
            \/ /\ d.current /\ CanVerify /\ stored
               /\ native' = Decided(stored) /\ pane' = u
            \/ /\ d.current /\ ~(CanVerify /\ stored)
               /\ native' = IF CanVerify THEN Decided(stored) ELSE native
               /\ pane' = OnError(v)
    <2>1. PICK stored \in BOOLEAN :
            IF ~d.current
            THEN pane' = p /\ native' = native
            ELSE /\ native' = IF CanVerify THEN Decided(stored) ELSE native
                 /\ pane' = IF CanVerify /\ stored
                            THEN ResumeConnection(SetMode(Verified(p), "CONNECTING"))
                            ELSE OnError(IF CanVerify THEN Verified(p) ELSE p)
      BY DEF CommitSettles
    <2>2. d.current \in BOOLEAN
      BY Unfold DEF PaneRecord
    <2>3. CASE CanVerify
      BY <2>1, <2>2, <2>3
    <2>4. CASE ~CanVerify
      BY <2>1, <2>2, <2>4
    <2> QED
      BY <2>3, <2>4
  <1>2. /\ p \in PaneRecord /\ SameButMode(pane, p) /\ p.state = pane.state
        /\ p.mode = pane.mode /\ p.saving = saving
    BY Unfold DEF PaneRecord, SameButMode, SameClient, SameBoundary, SameCommands, SameLife
  <1> HIDE DEF p
  <1>3. CoreInv(p) /\ PromptInv(p)
    <2>1. CoreInv(p)
      BY <1>2, Tidy, CoreKept DEF SameButMode, SameClient
    <2> QED
      BY <1>2, <2>1, Tidy DEF PromptInv, SameButMode, SameClient, SameLife
  <1>4. CASE ~d.current
    <2>1. pane' = p /\ native' = native
      BY <1>1, <1>4
    <2>2. pane.id # NoSession => UndecidedInv(pane', native'[pane.id])
      BY <1>2, <2>1, Tidy DEF UndecidedInv, SameButMode, SameClient
    <2>3. Stopped(pane') => Stopped(pane)
      BY <1>2, <2>1 DEF Stopped, SameButMode, SameLife
    <2> QED
      BY <1>2, <1>3, <2>1, <2>2, <2>3, TidyKept, SameNativeKeys DEF SameButMode, SameClient
  <1>5. CASE d.current
    <2>1. /\ pane.mode = "CONNECTING"
          /\ \A c \in pane.saving :
                c.current /\ pane.id # NoSession /\ pane.pendingLayer # None => c = d
      <3>1. /\ pane.mode = "CONNECTING"
            /\ \A c \in pane.saving :
                c.current /\ pane.id # NoSession /\ pane.pendingLayer # None =>
                    c.line = d.line /\ c.current = d.current
        BY <1>5, Unfold DEF ModeInv, PaneRecord
      <3>2. pane.saving \subseteq [line : HostKey, current : BOOLEAN]
        BY Unfold DEF PaneRecord
      <3>3. \A c, e \in [line : HostKey, current : BOOLEAN] :
                c.line = e.line /\ c.current = e.current => c = e
        OBVIOUS
      <3> QED
        BY <3>1, <3>2, <3>3
    <2>2. /\ v \in PaneRecord /\ v.id = p.id /\ v.mode = p.mode /\ v.state = p.state
          /\ v.saving = p.saving
          /\ SameBoundary(p, v) /\ SameCommands(p, v) /\ SameLife(p, v)
      <3>1. CASE CanVerify
        BY <1>2, <3>1, VerifiedFields DEF SameMode
      <3>2. CASE ~CanVerify
        BY <1>2, <3>2 DEF SameBoundary, SameCommands, SameLife
      <3> QED
        BY <3>1, <3>2
    <2> HIDE DEF v
    <2>3. CoreInv(v) /\ PaneInv(pane)
      BY <1>3, <2>2, CoreKept, Unfold
    <2>4. CASE CanVerify /\ stored
      <3>1. native' = Decided(stored) /\ pane' = u
        BY <1>1, <1>5, <2>4
      <3>2. SameKeys
        BY <1>5, <2>4, <3>1, DecidedKeys
      <3>3. w \in PaneRecord /\ SameButMode(v, w) /\ SameMode(v, w)
        BY <1>2, <2>1, <2>2, SetModeFields DEF TerminalMode
      <3> HIDE DEF w
      <3>4. SameButMode(w, u) /\ SameMode(w, u)
        BY <3>3, MarkFields
      <3> HIDE DEF u
      <3>5. /\ pane'.id = pane.id /\ pane'.mode = "CONNECTING" /\ pane'.saving = saving
            /\ SameBoundary(pane, pane') /\ SameCommands(pane, pane') /\ SameLife(pane, pane')
        BY <1>2, <2>1, <2>2, <3>1, <3>3, <3>4
           DEF SameMode, SameButMode, SameClient, SameBoundary, SameCommands, SameLife
      <3>6. pane.id # NoSession /\ pane.pendingLayer # None
        BY <2>4 DEF CanVerify
      <3>7. CoreInv(pane')
        BY <3>5, <2>1, Tidy, CoreKept
      <3>8. PromptInv(pane')
        BY <3>5, <3>6 DEF PromptInv
      <3>9. UndecidedInv(pane', native'[pane.id])
        BY <2>1, <3>5, <3>6 DEF UndecidedInv
      <3>10. Stopped(pane') => Stopped(pane)
        BY <3>5 DEF Stopped, SameLife
      <3> QED
        BY <3>2, <3>5, <3>7, <3>8, <3>9, <3>10, TidyKept
    <2>5. CASE ~(CanVerify /\ stored)
      <3>1. native' = (IF CanVerify THEN Decided(stored) ELSE native) /\ pane' = OnError(v)
        BY <1>1, <1>5, <2>5
      <3>2. SameKeys /\ (pane.id # NoSession => Leaving(native'[pane.id]))
        <4>1. CASE CanVerify
          BY <1>5, <2>5, <3>1, <4>1, DecidedKeys
        <4>2. CASE ~CanVerify
          BY <1>5, <3>1, <4>2, Undecidable, SameNativeKeys
        <4> QED
          BY <4>1, <4>2
      <3>3. v.state \in Over => v.terminalFailed
        BY <1>2, <2>1, <2>2, Unfold, Tidy, OverIdle DEF SameButMode, SameLife
      <3>4. CoreInv(pane') /\ PromptInv(pane')
        BY <2>2, <2>3, <3>1, <3>3, OnErrorShape DEF PromptInv
      <3>5. pane'.id = NoSession \/ pane'.mode = "IDLE"
        <4>1. CASE pane.id = NoSession
          <5>1. Recedes(v, pane')
            BY <2>2, <3>1, EndsRecede
          <5> QED
            BY <1>2, <2>2, <4>1, <5>1 DEF Recedes, SameButMode, SameClient
        <4>2. CASE pane.id # NoSession
          <5>1. ~pane.terminalFailed /\ pane.accepting
            BY <2>1, <4>2, Tidy DEF Stopped, CoreInv
          <5>2. v.accepting /\ ~v.terminalFailed
            BY <1>2, <2>2, <5>1 DEF SameButMode, SameBoundary, SameLife
          <5>3. MarkFailed(v) \in PaneRecord /\ MarkFailed(v).accepting
            BY <2>2, <5>2, MarkFields DEF SameButMode, SameBoundary
          <5>4. pane' = ReturnToPrompt(MarkFailed(v))
            BY <3>1, <3>3, <5>2, <5>3 DEF OnError, EndBoundary
          <5> QED
            BY <5>3, <5>4, ReturnFields
        <4> QED
          BY <4>1, <4>2
      <3> QED
        BY <3>2, <3>4, <3>5, TidyForgotten
    <2> QED
      BY <2>4, <2>5
  <1>6. d.current \in BOOLEAN
    BY Unfold DEF PaneRecord
  <1> QED
    BY <1>4, <1>5, <1>6

LEMMA SubmitPasswordTidy == ASSUME IInv, EInv, IInv', SubmitPassword PROVE TidyInv'
  <1> DEFINE s == pane.id
             n == native[s]
             answer == [layer |-> pane.pendingLayer, typedFor |-> pane.asked]
             m == [n EXCEPT !.authTx = answer]
             sends == /\ pane.waitingAuth /\ pane.id # NoSession /\ pane.pendingLayer # None
                      /\ Listening(pane.id) /\ native[pane.id].authTx = None
             p == [pane EXCEPT !.waitingAuth = FALSE, !.pendingLayer = None]
             w == SetMode(p, "CONNECTING")
             u == ResumeConnection(w)
  <1>1. /\ pane.mode = "PASSWORD_INPUT" /\ ~Stopped(pane)
        /\ native' = IF sends THEN [native EXCEPT ![s] = m] ELSE native
        /\ pane' = IF sends THEN u ELSE OnError(pane)
    BY Tidy DEF SubmitPassword
  <1>2. /\ s \in Session /\ s # NoSession /\ n \in SessionRecord
        /\ pane.waitingAuth /\ pane.pendingLayer # None /\ pane.accepting
        /\ pane.state \notin Over
    <2>1. s # NoSession /\ pane.waitingAuth /\ pane.pendingLayer # None /\ pane.accepting
      BY <1>1, Tidy DEF PromptInv, Prompting, Stopped, CoreInv
    <2>2. pane.state \notin Over
      BY <1>1, Unfold, Tidy, OverIdle DEF Stopped
    <2> QED
      BY <2>1, <2>2, Unfold
  <1>3. CASE ~sends
    <2>1. native' = native /\ pane' = OnError(pane)
      BY <1>1, <1>3
    <2>2. Leaving(native[pane.id])
      <3>1. pane.asked # None /\ pane.asked[1] = s
        BY <1>1, <1>2, Unfold DEF ModeInv
      <3>2. n.phase \in {"waitingAuth", "ending", "ended"} /\ n.authTx = None
        BY <1>2, <3>1, Unfold DEF SessionOK, AskedInv
      <3> QED
        BY <1>2, <1>3, <3>2 DEF Listening, Leaving
    <2>3. CoreInv(pane') /\ PromptInv(pane')
      BY <1>2, <2>1, Unfold, Tidy, OnErrorShape
    <2>4. pane'.mode = "IDLE"
      <3>1. MarkFailed(pane) \in PaneRecord /\ MarkFailed(pane).accepting
        BY <1>2, Unfold, MarkFields DEF SameButMode, SameBoundary
      <3> QED
        BY <1>2, <2>1, <3>1, ReturnFields DEF OnError, EndBoundary
    <2> QED
      BY <2>1, <2>2, <2>3, <2>4, SameNativeKeys, TidyForgotten
  <1>4. CASE sends
    <2>1. native' = [native EXCEPT ![s] = m] /\ pane' = u
      BY <1>1, <1>4
    <2>2. answer \in AuthAnswer
      BY <1>1, <1>2, Unfold DEF AuthAnswer, PaneRecord
    <2>3. /\ p \in PaneRecord /\ p.mode = pane.mode /\ p.id = pane.id
          /\ SameBoundary(pane, p) /\ SameCommands(pane, p) /\ SameLife(pane, p)
      BY Unfold, ZenonT(60) DEF PaneRecord, SameBoundary, SameCommands, SameLife
    <2> HIDE DEF answer, p
    <2>4. /\ m.phase = n.phase /\ m.layer = n.layer /\ m.control = n.control
          /\ m.transport = n.transport /\ m.hostKeyTx = n.hostKeyTx
          /\ m.disconnectTx = n.disconnectTx
      BY <1>2 DEF SessionRecord
    <2> HIDE DEF m
    <2>5. SameKeys
      <3>1. KeyQueueInv(n)
        BY <1>2, Tidy
      <3>2. KeyQueueInv(m) /\ (Leaving(n) => Leaving(m))
        BY <2>4, <3>1 DEF KeyQueueInv, KeyPrompt, Leaving
      <3>3. native'[s] = m /\ \A t \in Session : t # s => native'[t] = native[t]
        BY <1>2, <2>1, Unfold
      <3> QED
        BY <3>2, <3>3, Tidy DEF SameKeys
    <2>6. /\ w \in PaneRecord /\ SameButMode(p, w) /\ w.mode = "CONNECTING"
          /\ \A c \in w.saving : ~c.current
      BY <1>1, <2>3, SetModeFields DEF TerminalMode
    <2> HIDE DEF w
    <2>7. SameButMode(w, u) /\ SameMode(w, u)
      BY <2>6, MarkFields
    <2> HIDE DEF u
    <2>8. /\ pane'.id = pane.id /\ pane'.mode = "CONNECTING"
          /\ \A c \in pane'.saving : ~c.current
          /\ SameBoundary(pane, pane') /\ SameCommands(pane, pane') /\ SameLife(pane, pane')
      BY <2>1, <2>3, <2>6, <2>7
         DEF SameMode, SameButMode, SameClient, SameBoundary, SameCommands, SameLife
    <2>9. CoreInv(pane') /\ ~Stopped(pane')
      BY <1>1, <2>8, Tidy, CoreMoves
    <2>10. PromptInv(pane')
      BY <1>2, <2>8 DEF PromptInv
    <2>11. UndecidedInv(pane', native'[pane.id])
      BY <2>8 DEF UndecidedInv
    <2> QED
      BY <2>5, <2>8, <2>9, <2>10, <2>11, TidyKept
  <1> QED
    BY <1>3, <1>4

\* A command waits at ltty>, in a pane that has not stopped, and it is alone.
LEMMA Waiting1 ==
    ASSUME IInv, EInv, pane.environment # "preparing"
    PROVE  pane.commands = 1 /\ pane.mode = "IDLE" /\ ~Stopped(pane)
           /\ \A s \in Session : Leaving(native[s])
  <1>1. pane.commands = 1
    BY Unfold, Tidy DEF ModeInv, CoreInv
  <1>2. pane.mode = "IDLE" /\ ~Stopped(pane)
    BY <1>1, Tidy DEF CoreInv
  <1> QED
    BY <1>1, <1>2, Tidy DEF LeavingInv

LEMMA ConnectStartsTidy == ASSUME IInv, EInv, ConnectStarts PROVE TidyInv'
  <1> DEFINE q == Begun(Continued)
             New(first) == [Absent EXCEPT !.phase = "connecting", !.layer = first]
  <1>1. PICK s \in Session, first \in FirstLayers :
            native' = Started(s, first) /\ pane' = [q EXCEPT !.id = s, !.owner = s]
    BY DEF ConnectStarts, Unused
  <1>2. pane.environment # "preparing" /\ pane.id = NoSession /\ s # NoSession
    BY Unfold DEF ConnectStarts
  <1>3. /\ q \in PaneRecord /\ q.mode = "CONNECTING" /\ q.accepting /\ q.screen = {}
        /\ ~q.resetPending /\ q.commands = 0 /\ SameLife(pane, q)
        /\ \A d \in q.saving : ~d.current
    <2>1. /\ q \in PaneRecord /\ q.mode = "CONNECTING" /\ q.accepting /\ q.screen = {}
          /\ ~q.resetPending
          /\ SameCommands(Continued, q) /\ SameLife(Continued, q)
          /\ Continued.mode # "CONNECTING" => \A d \in q.saving : ~d.current
      BY <1>2, ContinuedFields, BegunFields
    <2> HIDE DEF q
    <2>2. /\ Continued.mode = "IDLE" /\ Continued.commands = 0 /\ SameLife(pane, Continued)
      BY <1>2, Waiting1, ContinuedFields DEF SameMode
    <2> QED
      BY <2>1, <2>2 DEF SameCommands, SameLife
  <1> HIDE DEF q
  <1>4. /\ pane'.id = s /\ pane'.owner = s /\ pane'.mode = "CONNECTING" /\ pane'.accepting
        /\ pane'.screen = {} /\ ~pane'.resetPending /\ pane'.commands = 0
        /\ SameLife(pane, pane') /\ \A d \in pane'.saving : ~d.current
    BY <1>1, <1>3 DEF PaneRecord, SameLife
  <1>5. ~Stopped(pane')
    BY <1>2, <1>4, Waiting1 DEF Stopped, SameLife
  <1>6. CoreInv(pane)'
    BY <1>4, <1>5 DEF CoreInv, Stopped
  <1>7. PromptInv(pane)'
    BY <1>2, <1>4 DEF PromptInv
  <1>8. UndecidedInv(pane', native'[pane'.id])
    BY <1>4 DEF UndecidedInv
  <1>9. /\ native'[s] = New(first)
        /\ \A t \in Session : t # s => native'[t] = native[t]
    BY <1>1, Unfold DEF Started
  <1>10. LeavingInv(pane)'
    BY <1>2, <1>4, <1>5, <1>9, Waiting1 DEF LeavingInv, Stopped
  <1>11. KeyQueueInv(New(first))
    <2>1. /\ New(first).control = <<>> /\ New(first).transport = <<>>
          /\ New(first).hostKeyTx = None
      BY AbsentSession DEF SessionRecord
    <2> QED
      BY <2>1 DEF KeyQueueInv
  <1>12. \A t \in Session : KeyQueueInv(native'[t])
    BY <1>9, <1>11, Tidy
  <1> QED
    BY <1>6, <1>7, <1>8, <1>10, <1>12, TidyFold

LEMMA ConnectEndsTidy ==
    ASSUME IInv, EInv, IInv', ConnectThrows \/ ConnectRefused
    PROVE  TidyInv'
  <1> DEFINE q == Begun(Continued)
             f == MarkFailed(q)
  <1>1. /\ pane.environment # "preparing" /\ native' = native
        /\ pane' \in {ReturnToPrompt(MarkFailed(q)), OnError(q)}
    BY DEF ConnectThrows, ConnectRefused, Only
  <1>2. q \in PaneRecord /\ q.state \notin Over
    BY <1>1, BegunAgain
  <1>3. q.accepting /\ q.commands = 0 /\ ~Stopped(q)
    <2>1. q.accepting /\ SameCommands(Continued, q) /\ SameLife(Continued, q)
      BY <1>1, ContinuedFields, BegunFields
    <2> HIDE DEF q
    <2>2. Continued.commands = 0 /\ SameLife(pane, Continued)
      BY <1>1, Waiting1, ContinuedFields
    <2> QED
      BY <1>1, <2>1, <2>2, Waiting1 DEF SameCommands, SameLife, Stopped
  <1> HIDE DEF q
  <1>4. f \in PaneRecord /\ f.accepting /\ f.commands = 0 /\ ~Stopped(f)
    BY <1>2, <1>3, MarkFields DEF SameButMode, SameBoundary, SameCommands, SameLife, Stopped
  <1>5. pane' = ReturnToPrompt(f)
    BY <1>1, <1>2, <1>4 DEF OnError, EndBoundary
  <1> HIDE DEF f
  <1>6. CoreInv(pane') /\ PromptInv(pane') /\ pane'.mode = "IDLE"
    BY <1>4, <1>5, ReturnShape, ReturnFields
  <1> QED
    BY <1>1, <1>6, Waiting1, Unfold, SameNativeKeys, TidyForgotten

LEMMA CommandFailsTidy == ASSUME IInv, EInv, IInv', CommandFails PROVE TidyInv'
  <1>1. pane.environment # "preparing" /\ pane' = Continued /\ native' = native
    BY DEF CommandFails, Only
  <1>2. /\ SameMode(pane, pane') /\ SameClient(pane, pane') /\ SameBoundary(pane, pane')
        /\ SameLife(pane, pane') /\ pane'.state = pane.state /\ pane'.commands = 0
        /\ pane'.mode = "IDLE"
    BY <1>1, ContinuedFields, Waiting1 DEF SameMode
  <1>3. CoreInv(pane')
    BY <1>2, Tidy DEF CoreInv, Stopped, SameMode, SameClient, SameBoundary, SameLife
  <1>4. PromptInv(pane')
    BY <1>2 DEF PromptInv, Prompting
  <1> QED
    BY <1>1, <1>2, <1>3, <1>4, Waiting1, Unfold, SameNativeKeys, TidyForgotten

LEMMA ResetCompletesTidy == ASSUME IInv, EInv, ResetCompletes PROVE TidyInv'
  <1>1. /\ pane' = [pane EXCEPT !.resetPending = FALSE, !.resetting = FALSE]
        /\ native' = native /\ pane.resetting
    BY DEF ResetCompletes, Only
  <1>2. /\ SameMode(pane, pane') /\ SameClient(pane, pane') /\ SameCommands(pane, pane')
        /\ SameLife(pane, pane') /\ pane'.state = pane.state
        /\ pane'.accepting = pane.accepting /\ pane'.owner = pane.owner
        /\ pane'.screen = pane.screen /\ ~pane'.resetPending
    BY <1>1, Unfold DEF PaneRecord, SameMode, SameClient, SameCommands, SameLife
  <1>3. CoreInv(pane')
    BY <1>1, <1>2, Tidy DEF CoreInv, Stopped, SameMode, SameClient, SameCommands, SameLife
  <1>4. PromptInv(pane')
    BY <1>2, Tidy DEF PromptInv, SameMode, SameClient, SameLife
  <1>5. Stopped(pane') => Stopped(pane)
    BY <1>2 DEF Stopped, SameLife
  <1>6. pane.id # NoSession => UndecidedInv(pane', native'[pane.id])
    BY <1>1, <1>2, Tidy DEF UndecidedInv, SameMode, SameClient
  <1> QED
    BY <1>1, <1>2, <1>3, <1>4, <1>5, <1>6, TidyKept, SameNativeKeys DEF SameMode, SameClient

\* Neither begins while a command waits.
LEMMA NothingWaits ==
    ASSUME Situation \subseteq Excluded, MayStop
    PROVE  pane.commands = 0
  BY DEF Situation, MayStop

LEMMA SurfaceFailsTidy ==
    ASSUME Situation \subseteq Excluded, IInv, EInv, IInv', SurfaceFails
    PROVE  TidyInv'
  <1> DEFINE p == ForgetSession(pane)
             q == [p EXCEPT !.accepting = FALSE, !.terminalFailed = TRUE,
                            !.resetPending = TRUE, !.resetting = FALSE,
                            !.owner = NoSession, !.screen = {}]
  <1>1. /\ native' = Signalled(pane.id) /\ pane' = q /\ ~pane.disposed /\ pane.commands = 0
    BY NothingWaits DEF SurfaceFails
  <1>2. /\ p \in PaneRecord /\ p.id = NoSession /\ p.commands = 0 /\ ~p.disposed
    BY <1>1, Unfold, ForgetFields DEF SameCommands, SameLife
  <1> HIDE DEF p
  <1>3. /\ pane'.id = NoSession /\ pane'.commands = 0 /\ ~pane'.disposed
        /\ ~pane'.accepting /\ pane'.terminalFailed /\ pane'.resetPending
        /\ ~pane'.resetting /\ pane'.owner = NoSession /\ pane'.screen = {}
    BY <1>1, <1>2 DEF PaneRecord
  <1>4. CoreInv(pane') /\ PromptInv(pane')
    BY <1>3 DEF CoreInv, PromptInv, Stopped
  <1> QED
    BY <1>1, <1>3, <1>4, SignalledKeys, TidyForgotten

LEMMA DisposeTidy ==
    ASSUME Situation \subseteq Excluded, IInv, EInv, IInv', Dispose
    PROVE  TidyInv'
  <1> DEFINE f == ForgetSession(pane)
             p == MarkDisconnected(f)
             revoked == Revoked(p.saving)
             q == [p EXCEPT !.disposed = TRUE, !.accepting = FALSE,
                            !.resetPending = FALSE, !.resetting = FALSE,
                            !.saving = revoked, !.owner = NoSession, !.screen = {}]
  <1>1. native' = Signalled(pane.id) /\ pane' = SetMode(q, "IDLE") /\ pane.commands = 0
    BY NothingWaits DEF Dispose
  <1>2. f \in PaneRecord /\ f.id = NoSession /\ f.commands = 0
    BY <1>1, Unfold, ForgetFields DEF SameCommands
  <1> HIDE DEF f
  <1>3. p \in PaneRecord /\ p.id = NoSession /\ p.commands = 0
    BY <1>2, MarkFields DEF SameButMode, SameClient, SameCommands
  <1> HIDE DEF p
  <1>4. revoked \in SUBSET [line : HostKey, current : BOOLEAN]
    BY <1>3, RevokedApprovals DEF PaneRecord
  <1> HIDE DEF revoked
  <1>5. q \in PaneRecord
    BY <1>3, <1>4, ZenonT(60) DEF PaneRecord, NoSession
  <1>6. /\ q.id = NoSession /\ q.commands = 0 /\ q.disposed /\ ~q.accepting
        /\ ~q.resetPending /\ q.owner = NoSession /\ q.screen = {}
    BY <1>3 DEF PaneRecord
  <1> HIDE DEF q
  <1>7. SameButMode(q, pane') /\ pane'.mode = "IDLE"
    BY <1>1, <1>5, SetModeFields DEF TerminalMode
  <1>8. CoreInv(pane') /\ PromptInv(pane')
    BY <1>6, <1>7
       DEF CoreInv, PromptInv, Prompting, Stopped, SameButMode, SameClient, SameBoundary,
           SameCommands, SameLife
  <1> QED
    BY <1>1, <1>7, <1>8, SignalledKeys, TidyForgotten

\* One session alone may be disturbed.
LEMMA BecomeKeys ==
    ASSUME IInv, EInv, NEW s \in Session, NEW m, Become(s, m),
           KeyQueueInv(m), Leaving(native[s]) => Leaving(m)
    PROVE  SameKeys
  BY Unfold, Tidy DEF SameKeys, Become

\* A control event that is taken.
LEMMA ControlTakenKeys ==
    ASSUME NEW n \in SessionRecord, n.control # <<>>, KeyQueueInv(n)
    PROVE  LET m == [n EXCEPT !.control = Tail(@)]
               e == Head(n.control)
           IN  /\ KeyQueueInv(m) /\ (Leaving(n) => Leaving(m)) /\ e \in ControlEvent
               /\ e.kind = "host_key_prompt" =>
                    /\ m.phase \in {"hostKey", "ending", "ended"} /\ m.hostKeyTx = None
                    /\ m.phase # "ended" => e.layer = m.layer
                    /\ \A i \in DOMAIN m.control : ~KeyPrompt(m, i)
               /\ e.kind \in {"host_key_changed", "error"} => Leaving(m)
               /\ \A p : UndecidedInv(p, n) => UndecidedInv(p, m)
  <1> DEFINE m == [n EXCEPT !.control = Tail(@)]
             e == Head(n.control)
  <1>1. /\ m.control = Tail(n.control) /\ m.phase = n.phase /\ m.layer = n.layer
        /\ m.transport = n.transport /\ m.hostKeyTx = n.hostKeyTx
        /\ m.disconnectTx = n.disconnectTx
    BY ControlTaken
  <1>2. /\ e \in ControlEvent /\ 1 \in DOMAIN n.control /\ e = n.control[1]
        /\ \A i \in DOMAIN m.control :
             /\ i + 1 \in DOMAIN n.control /\ m.control[i] = n.control[i + 1]
             /\ i \in Nat /\ i # 0
        /\ \A i, j \in DOMAIN m.control : i # j => i + 1 # j + 1
    BY <1>1, TailElements DEF SessionRecord
  <1> HIDE DEF m, e
  <1>3. KeyQueueInv(m)
    BY <1>1, <1>2 DEF KeyQueueInv, KeyPrompt
  <1>4. Leaving(n) => Leaving(m)
    BY <1>1 DEF Leaving
  <1>5. ASSUME e.kind = "host_key_prompt"
        PROVE  /\ m.phase \in {"hostKey", "ending", "ended"} /\ m.hostKeyTx = None
               /\ m.phase # "ended" => e.layer = m.layer
               /\ \A i \in DOMAIN m.control : ~KeyPrompt(m, i)
    <2>1. KeyPrompt(n, 1)
      BY <1>2, <1>5 DEF KeyPrompt
    <2>2. \A i \in DOMAIN n.control : KeyPrompt(n, i) => i = 1
      BY <1>2, <2>1 DEF KeyQueueInv
    <2>3. \A i \in DOMAIN m.control : i + 1 # 1 /\ (KeyPrompt(m, i) => KeyPrompt(n, i + 1))
      BY <1>2 DEF KeyPrompt
    <2> QED
      BY <1>1, <1>2, <2>1, <2>2, <2>3 DEF KeyQueueInv
  <1>6. e.kind \in {"host_key_changed", "error"} => Leaving(m)
    BY <1>1, <1>2 DEF KeyQueueInv, Leaving
  <1>7. ASSUME NEW p, UndecidedInv(p, n) PROVE UndecidedInv(p, m)
    BY <1>1, <1>2, <1>7 DEF UndecidedInv, KeyPrompt
  <1> QED
    BY <1>2, <1>3, <1>4, <1>5, <1>6, <1>7 DEF m, e

LEMMA ControlEventTidy ==
    ASSUME IInv, EInv, IInv', NEW s \in Session, ControlEventArrives(s),
           pane.environment = "preparing"
    PROVE  TidyInv'
  <1> DEFINE n == native[s]
             m == [n EXCEPT !.control = Tail(@)]
             e == Head(n.control)
  <1>1. /\ n \in SessionRecord /\ n.control # <<>> /\ Become(s, m)
        /\ pane' = IF IsCurrent(s) THEN OnControl(pane, s, e) ELSE pane
        /\ KeyQueueInv(n)
    BY Unfold, Tidy DEF ControlEventArrives
  <1>2. /\ KeyQueueInv(m) /\ (Leaving(n) => Leaving(m)) /\ e \in ControlEvent
        /\ e.kind = "host_key_prompt" =>
             /\ m.phase \in {"hostKey", "ending", "ended"} /\ m.hostKeyTx = None
             /\ m.phase # "ended" => e.layer = m.layer
             /\ \A i \in DOMAIN m.control : ~KeyPrompt(m, i)
        /\ e.kind \in {"host_key_changed", "error"} => Leaving(m)
        /\ \A p : UndecidedInv(p, n) => UndecidedInv(p, m)
    BY <1>1, ControlTakenKeys
  <1> HIDE DEF m, e
  <1>3. SameKeys /\ native'[s] = m
    BY <1>1, <1>2, Unfold, BecomeKeys DEF Become
  <1>4. \A t \in Session : UndecidedInv(pane, native[t]) => UndecidedInv(pane, native'[t])
    BY <1>1, <1>2, Unfold DEF Become
  <1>5. CASE pane' = pane
    BY <1>3, <1>4, <1>5, Tidy, TidyKept
  <1>6. CASE IsCurrent(s)
    <2> DEFINE shell == [pane EXCEPT !.connected = TRUE, !.waitingAuth = FALSE, !.pendingLayer = None]
               key == Keyed(pane, s, e.layer)
               opened == [shell EXCEPT !.state = "CONNECTED"]
               asking == [key EXCEPT !.state = "HOST_VERIFICATION_REQUIRED"]
               forgotten == ForgetSession(pane)
               failed == MarkFailed(forgotten)
               changed == [failed EXCEPT !.pendingLine = None]
    <2>0. /\ pane.id = s /\ s # NoSession /\ ~Stopped(pane) /\ e.layer \in Layer
          /\ PaneInv(pane) /\ pane \in PaneRecord /\ CoreInv(pane) /\ PromptInv(pane)
          /\ UndecidedInv(pane, n) /\ e.layer # None
      BY <1>2, <1>6, Unfold, Tidy, NoneAssumption DEF IsCurrent, ControlEvent
    <2>1. \/ /\ e.kind = "connected" /\ pane.state \in BeforeShell
             /\ pane' = SetMode(opened, "CONNECTED")
          \/ e.kind = "connected" /\ pane.state \notin BeforeShell /\ pane' = shell
          \/ /\ e.kind = "host_key_prompt" /\ pane.state \in BeforeShell
             /\ pane' = SetMode(asking, "HOST_KEY_INPUT")
          \/ e.kind = "host_key_prompt" /\ pane.state \notin BeforeShell /\ pane' = key
          \/ pane' = pane
          \/ e.kind = "host_key_changed" /\ pane' = ReturnToPrompt(changed)
          \/ e.kind = "error" /\ pane' = OnError(forgotten)
      BY <1>1, <1>2, <1>6, OnControlCases, ZenonT(60)
    <2>2. /\ shell \in PaneRecord /\ SameMode(pane, shell) /\ SameBoundary(pane, shell)
          /\ SameCommands(pane, shell) /\ SameLife(pane, shell)
          /\ shell.state = pane.state /\ shell.id = pane.id /\ shell.connected
      BY <2>0, ShellFields
    <2>3. /\ key \in PaneRecord /\ SameMode(pane, key) /\ SameBoundary(pane, key)
          /\ SameCommands(pane, key) /\ SameLife(pane, key)
          /\ key.state = pane.state /\ key.id = pane.id /\ key.connected = pane.connected
          /\ key.pendingLayer = e.layer
      BY <2>0, KeyFields
    <2> HIDE DEF shell, key
    <2>4. \A q : SameBoundary(pane, q) /\ SameCommands(pane, q) /\ SameLife(pane, q)
                 /\ pane.state \in BeforeShell /\ q.mode # "IDLE"
                 => CoreInv(q) /\ ~Stopped(q)
      BY <2>0, AtWork, CoreMoves
    <2>5. CASE e.kind = "connected" /\ pane.state \in BeforeShell
               /\ pane' = SetMode(opened, "CONNECTED")
      <3>1. /\ opened \in PaneRecord /\ SameButMode(shell, opened)
            /\ opened.state = "CONNECTED"
        BY <2>2, StateFields DEF SshSessionState
      <3> HIDE DEF opened
      <3>2. SameButMode(opened, pane') /\ pane'.state = "CONNECTED" /\ pane'.mode = "CONNECTED"
        BY <2>5, <3>1, SetModeFields DEF TerminalMode
      <3>3. /\ SameBoundary(pane, pane') /\ SameCommands(pane, pane') /\ SameLife(pane, pane')
            /\ pane'.id = pane.id /\ pane'.connected
        BY <2>2, <3>1, <3>2 DEF SameButMode, SameClient, SameBoundary, SameCommands, SameLife
      <3>4. CoreInv(pane') /\ ~Stopped(pane')
        BY <2>4, <2>5, <3>2, <3>3
      <3>5. PromptInv(pane')
        BY <3>2, <3>3 DEF PromptInv, Prompting
      <3>6. UndecidedInv(pane', native'[pane.id])
        BY <3>2, IdleDecided DEF IInv
      <3> QED
        BY <1>3, <3>2, <3>3, <3>4, <3>5, <3>6, TidyKept
    <2>6. CASE pane.state \notin BeforeShell /\ pane' \in {shell, key}
      <3>1. pane.mode \notin Prompting /\ \A d \in pane.saving : ~d.current
        BY <2>0, <2>6, NotPrompting
      <3>2. /\ SameMode(pane, pane') /\ SameBoundary(pane, pane') /\ SameCommands(pane, pane')
            /\ SameLife(pane, pane') /\ pane'.state = pane.state /\ pane'.id = pane.id
            /\ pane.connected => pane'.connected
        BY <2>2, <2>3, <2>6
      <3>3. CoreInv(pane') /\ (Stopped(pane') => Stopped(pane))
        BY <2>0, <3>2, CoreKept DEF SameMode, SameLife, Stopped
      <3>4. PromptInv(pane')
        BY <2>0, <3>1, <3>2 DEF PromptInv, Prompting, SameMode, SameLife
      <3>5. UndecidedInv(pane', native'[pane.id])
        BY <3>1, <3>2 DEF UndecidedInv, SameMode, Prompting
      <3> QED
        BY <1>3, <3>2, <3>3, <3>4, <3>5, TidyKept DEF SameMode
    <2>7. CASE e.kind = "host_key_prompt" /\ pane.state \in BeforeShell
               /\ pane' = SetMode(asking, "HOST_KEY_INPUT")
      <3>1. asking \in PaneRecord /\ SameButMode(key, asking)
        BY <2>3, StateFields DEF SshSessionState
      <3> HIDE DEF asking
      <3>2. SameButMode(asking, pane') /\ pane'.mode = "HOST_KEY_INPUT"
        BY <2>7, <3>1, SetModeFields DEF TerminalMode
      <3>3. /\ SameBoundary(pane, pane') /\ SameCommands(pane, pane') /\ SameLife(pane, pane')
            /\ pane'.id = pane.id /\ pane'.pendingLayer = e.layer
        BY <2>3, <3>1, <3>2 DEF SameButMode, SameClient, SameBoundary, SameCommands, SameLife
      <3>4. CoreInv(pane') /\ ~Stopped(pane')
        BY <2>4, <2>7, <3>2, <3>3
      <3>5. PromptInv(pane')
        BY <2>0, <3>2, <3>3 DEF PromptInv
      <3>6. UndecidedInv(pane', native'[pane.id])
        BY <1>2, <1>3, <2>0, <2>7, <3>3 DEF UndecidedInv
      <3> QED
        BY <1>3, <3>2, <3>3, <3>4, <3>5, <3>6, TidyKept
    <2>8. CASE e.kind = "host_key_changed" /\ pane' = ReturnToPrompt(changed)
      <3>1. /\ forgotten \in PaneRecord /\ SameCommands(pane, forgotten)
            /\ SameLife(pane, forgotten)
        BY <2>0, ForgetFields
      <3> HIDE DEF forgotten
      <3>2. /\ failed \in PaneRecord /\ SameButMode(forgotten, failed)
        BY <3>1, MarkFields
      <3> HIDE DEF failed
      <3>3. changed \in PaneRecord /\ SameCommands(failed, changed) /\ SameLife(failed, changed)
        BY <3>2 DEF PaneRecord, SameCommands, SameLife
      <3> HIDE DEF changed
      <3>4. changed.commands \in 0..1 /\ ~Stopped(changed)
        BY <2>0, <3>1, <3>2, <3>3 DEF CoreInv, Stopped, SameButMode, SameCommands, SameLife
      <3>5. CoreInv(pane') /\ PromptInv(pane') /\ pane'.mode = "IDLE"
        BY <2>8, <3>3, <3>4, ReturnShape, ReturnFields
      <3> QED
        BY <1>2, <1>3, <2>0, <2>8, <3>5, TidyForgotten
    <2>9. CASE e.kind = "error" /\ pane' = OnError(forgotten)
      <3>1. CoreInv(pane') /\ PromptInv(pane') /\ pane'.id = NoSession
        BY <2>0, <2>9, ForgottenShape
      <3> QED
        BY <1>2, <1>3, <2>0, <2>9, <3>1, TidyForgotten
    <2> QED
      BY <1>5, <2>1, <2>5, <2>6, <2>7, <2>8, <2>9
  <1> QED
    BY <1>1, <1>5, <1>6

LEMMA AuthEventTidy ==
    ASSUME IInv, EInv, IInv', NEW s \in Session, AuthEventArrives(s),
           pane.environment = "preparing"
    PROVE  TidyInv'
  <1> DEFINE n == native[s]
             m == [n EXCEPT !.auth = Tail(@)]
             e == Head(n.auth)
  <1>1. /\ n \in SessionRecord /\ n.auth # <<>> /\ Become(s, m)
        /\ pane' = IF IsCurrent(s) THEN OnAuth(pane, s, e) ELSE pane
        /\ KeyQueueInv(n)
    BY Unfold, Tidy DEF AuthEventArrives
  <1>2. /\ m.phase = n.phase /\ m.layer = n.layer /\ m.control = n.control
        /\ m.transport = n.transport /\ m.hostKeyTx = n.hostKeyTx
        /\ m.disconnectTx = n.disconnectTx
    BY <1>1, AuthTaken
  <1>3. e \in AuthEvent
    BY <1>1, TailElements DEF SessionRecord
  <1> HIDE DEF m, e
  <1>4. SameKeys /\ native'[s] = m
    <2>1. KeyQueueInv(m) /\ (Leaving(n) => Leaving(m))
      BY <1>1, <1>2 DEF KeyQueueInv, KeyPrompt, Leaving
    <2> QED
      BY <1>1, <2>1, Unfold, BecomeKeys DEF Become
  <1>5. \A q, t : t \in Session /\ UndecidedInv(q, native[t]) => UndecidedInv(q, native'[t])
    <2>1. \A q : UndecidedInv(q, n) => UndecidedInv(q, m)
      BY <1>2 DEF UndecidedInv, KeyPrompt
    <2> QED
      BY <1>1, <2>1, Unfold DEF Become
  <1>6. CASE pane' = pane
    BY <1>4, <1>5, <1>6, Tidy, TidyKept
  <1>7. CASE IsCurrent(s)
    <2> DEFINE started == [pane EXCEPT !.state = "AUTHENTICATING"]
               layer == e.layer
               waits(q) == [q EXCEPT !.pendingLayer = layer, !.waitingAuth = TRUE]
               prompt == <<s, e.layer, e.round>>
               r == waits(started)
               w == SetMode(r, "PASSWORD_INPUT")
    <2>0. /\ pane.id = s /\ s # NoSession /\ ~Stopped(pane) /\ layer \in Layer /\ layer # None
          /\ PaneInv(pane) /\ pane \in PaneRecord /\ CoreInv(pane) /\ PromptInv(pane)
          /\ UndecidedInv(pane, n) /\ e.kind \in {"banner", "prompt"}
      BY <1>3, <1>7, Unfold, Tidy, NoneAssumption DEF IsCurrent, AuthEvent
    <2>1. \/ e.kind = "banner" /\ pane.state \in BeforeShell /\ pane' = started
          \/ pane' = pane
          \/ /\ e.kind = "prompt" /\ pane.state \in BeforeShell
             /\ pane' = [w EXCEPT !.asked = prompt]
          \/ e.kind = "prompt" /\ pane.state \notin BeforeShell /\ pane' = waits(pane)
      <3>1. CASE e.kind = "banner"
        BY <1>1, <1>7, <3>1 DEF OnAuth
      <3>2. CASE e.kind = "prompt" /\ pane.state \in BeforeShell
        BY <1>1, <1>7, <3>2, Zenon DEF OnAuth
      <3>3. CASE e.kind = "prompt" /\ pane.state \notin BeforeShell
        BY <1>1, <1>7, <3>3, Zenon DEF OnAuth
      <3> QED
        BY <2>0, <3>1, <3>2, <3>3
    <2> HIDE DEF layer, prompt
    <2>2. /\ started \in PaneRecord /\ SameMode(pane, started) /\ SameButMode(pane, started)
      BY <2>0, StateFields DEF SshSessionState
    <2> HIDE DEF started
    <2>3. ASSUME NEW q \in PaneRecord
          PROVE  /\ waits(q) \in PaneRecord /\ SameMode(q, waits(q)) /\ waits(q).id = q.id
                 /\ waits(q).connected = q.connected /\ waits(q).state = q.state
                 /\ waits(q).pendingLayer = layer /\ waits(q).waitingAuth
                 /\ SameBoundary(q, waits(q)) /\ SameCommands(q, waits(q)) /\ SameLife(q, waits(q))
      <3>1. waits(q) \in PaneRecord
        BY <2>0 DEF PaneRecord
      <3> QED
        BY <3>1 DEF PaneRecord, SameMode, SameBoundary, SameCommands, SameLife
    <2> HIDE DEF waits
    <2>4. CASE pane.state \in BeforeShell /\ pane' = started
      <3>1. /\ SameMode(pane, pane') /\ SameButMode(pane, pane')
            /\ pane.mode # "CONNECTED"
        BY <2>0, <2>2, <2>4 DEF PromptInv, Stopped, BeforeShell
      <3>2. CoreInv(pane') /\ (Stopped(pane') => Stopped(pane))
        BY <2>0, <3>1, CoreKept DEF SameMode, SameButMode, SameClient, SameLife, Stopped
      <3>3. PromptInv(pane')
        BY <2>0, <3>1 DEF PromptInv, SameMode, SameButMode, SameClient, SameLife
      <3>4. UndecidedInv(pane', n)
        BY <2>0, <3>1 DEF UndecidedInv, SameMode, SameButMode, SameClient
      <3> QED
        BY <1>4, <1>5, <2>0, <3>1, <3>2, <3>3, <3>4, TidyKept DEF SameMode, SameButMode, SameClient
    <2>5. CASE pane.state \notin BeforeShell /\ pane' = waits(pane)
      <3>1. pane.mode \notin Prompting /\ \A d \in pane.saving : ~d.current
        BY <2>0, <2>5, NotPrompting
      <3>2. /\ SameMode(pane, pane') /\ SameBoundary(pane, pane') /\ SameCommands(pane, pane')
            /\ SameLife(pane, pane') /\ pane'.state = pane.state /\ pane'.id = pane.id
            /\ pane'.connected = pane.connected
        BY <2>0, <2>3, <2>5
      <3>3. CoreInv(pane') /\ (Stopped(pane') => Stopped(pane))
        BY <2>0, <3>2, CoreKept DEF SameMode, SameLife, Stopped
      <3>4. PromptInv(pane')
        BY <2>0, <3>1, <3>2 DEF PromptInv, Prompting, SameMode, SameLife
      <3>5. UndecidedInv(pane', native'[pane.id])
        BY <3>1, <3>2 DEF UndecidedInv, SameMode, Prompting
      <3> QED
        BY <1>4, <3>2, <3>3, <3>4, <3>5, TidyKept DEF SameMode
    <2>6. CASE pane.state \in BeforeShell /\ pane' = [w EXCEPT !.asked = prompt]
      <3>1. /\ r \in PaneRecord /\ r.id = started.id
            /\ r.pendingLayer = layer /\ r.waitingAuth
            /\ SameBoundary(started, r) /\ SameCommands(started, r) /\ SameLife(started, r)
        BY <2>2, <2>3
      <3> HIDE DEF r
      <3>2. w \in PaneRecord /\ SameButMode(r, w) /\ w.mode = "PASSWORD_INPUT"
        BY <3>1, SetModeFields DEF TerminalMode
      <3> HIDE DEF w
      <3>3. SameButMode(w, pane') /\ pane'.mode = w.mode
        BY <2>6, <3>2 DEF PaneRecord, SameButMode, SameClient, SameBoundary, SameCommands, SameLife
      <3>4. /\ SameBoundary(pane, pane') /\ SameCommands(pane, pane') /\ SameLife(pane, pane')
            /\ pane'.id = pane.id /\ pane'.mode = "PASSWORD_INPUT"
            /\ pane'.pendingLayer = layer /\ pane'.waitingAuth
        BY <2>2, <3>1, <3>2, <3>3
           DEF SameButMode, SameClient, SameBoundary, SameCommands, SameLife
      <3>5. CoreInv(pane') /\ ~Stopped(pane')
        BY <2>0, <2>6, <3>4, AtWork, CoreMoves
      <3>6. PromptInv(pane')
        BY <2>0, <3>4 DEF PromptInv
      <3>7. UndecidedInv(pane', native'[pane.id])
        BY <3>4, IdleDecided DEF IInv
      <3> QED
        BY <1>4, <3>4, <3>5, <3>6, <3>7, TidyKept
    <2> QED
      BY <1>6, <2>1, <2>4, <2>5, <2>6
  <1> QED
    BY <1>1, <1>6, <1>7

LEMMA TransportEventTidy ==
    ASSUME IInv, EInv, IInv', NEW s \in Session, TransportEventArrives(s),
           pane.environment = "preparing"
    PROVE  TidyInv'
  <1> DEFINE n == native[s]
             m == [n EXCEPT !.transport = Tail(@)]
             e == Head(n.transport)
             screen == IF pane.accepting THEN pane.screen \cup {s} ELSE pane.screen
             shown == [pane EXCEPT !.screen = screen]
             forgotten == ForgetSession(pane)
  <1>1. /\ n \in SessionRecord /\ n.transport # <<>> /\ Become(s, m)
        /\ pane' = OnTransport(pane, s, e) /\ KeyQueueInv(n)
    BY Unfold, Tidy DEF TransportEventArrives
  <1>2. /\ m.phase = n.phase /\ m.layer = n.layer /\ m.control = n.control
        /\ m.hostKeyTx = n.hostKeyTx /\ m.disconnectTx = n.disconnectTx
        /\ m.transport = Tail(n.transport)
    BY <1>1, TransportTaken
  <1>3. /\ e \in TransportEvent /\ 1 \in DOMAIN n.transport /\ e = n.transport[1]
        /\ \A i \in DOMAIN m.transport :
             i + 1 \in DOMAIN n.transport /\ m.transport[i] = n.transport[i + 1]
    BY <1>1, <1>2, TailElements DEF SessionRecord
  <1>4. /\ e = "data" => pane' = shown
        /\ e = "close" => pane' = OnClose(forgotten)
        /\ e = "keepalive_timeout" => pane' = OnError(forgotten)
    BY <1>1 DEF OnTransport
  <1> HIDE DEF m, e, screen, forgotten
  <1>5. KeyQueueInv(m) /\ (Leaving(n) => Leaving(m)) /\ (e # "data" => Leaving(m))
    BY <1>1, <1>2, <1>3 DEF KeyQueueInv, KeyPrompt, Leaving
  <1>6. SameKeys /\ native'[s] = m
    BY <1>1, <1>5, Unfold, BecomeKeys DEF Become
  \* The event is the pane's own session's, or that of the boundary it listens to.
  <1>7. pane.id # NoSession \/ pane.accepting => s \in {pane.id, pane.owner}
    BY <1>1, Tidy DEF LateInv, Silent
  <1>8. CASE e = "data"
    <2>1. screen \subseteq {pane.owner}
      <3>1. pane.accepting => s = pane.owner
        BY <1>7, Unfold, Tidy DEF LateInv
      <3> QED
        BY <3>1, Tidy DEF CoreInv, screen
    <2>2. ~pane.accepting => screen = pane.screen
      BY DEF screen
    <2>3. /\ SameMode(pane, pane') /\ SameClient(pane, pane') /\ SameCommands(pane, pane')
          /\ SameLife(pane, pane') /\ pane'.state = pane.state
          /\ pane'.accepting = pane.accepting /\ pane'.owner = pane.owner
          /\ pane'.screen = screen
          /\ pane'.resetPending = pane.resetPending /\ pane'.resetting = pane.resetting
      BY <1>4, <1>8, Unfold DEF PaneRecord, SameMode, SameClient, SameCommands, SameLife
    <2>4. CoreInv(pane')
      BY <2>1, <2>2, <2>3, Tidy
         DEF CoreInv, Stopped, SameMode, SameClient, SameCommands, SameLife
    <2>5. PromptInv(pane')
      BY <2>3, Tidy DEF PromptInv, SameMode, SameClient, SameLife
    <2>6. Stopped(pane') => Stopped(pane)
      BY <2>3 DEF Stopped, SameLife
    <2>7. pane.id # NoSession => UndecidedInv(pane', native'[pane.id])
      <3>1. UndecidedInv(pane, n) => UndecidedInv(pane, m)
        BY <1>2 DEF UndecidedInv, KeyPrompt
      <3>2. pane.id # NoSession => UndecidedInv(pane, native'[pane.id])
        BY <1>1, <1>6, <3>1, Unfold, Tidy DEF Become
      <3> QED
        BY <2>3, <3>2 DEF UndecidedInv, SameMode, SameClient
    <2> QED
      BY <1>6, <2>3, <2>4, <2>5, <2>6, <2>7, TidyKept DEF SameMode, SameClient
  <1>9. CASE e # "data"
    <2>1. CoreInv(pane') /\ PromptInv(pane') /\ pane'.id = NoSession
      BY <1>3, <1>4, <1>9, Unfold, Tidy, ForgottenShape DEF TransportEvent, forgotten
    <2>2. pane.id # NoSession => pane.id = s
      BY <1>7, Unfold, Tidy DEF LateInv
    <2> QED
      BY <1>5, <1>6, <1>9, <2>1, <2>2, TidyForgotten
  <1> QED
    BY <1>8, <1>9

LEMMA InitTidy == Init => TidyInv
  <1> SUFFICES ASSUME Init PROVE TidyInv
    OBVIOUS
  <1>1. /\ pane.mode = "IDLE" /\ ~pane.accepting /\ ~pane.resetPending /\ pane.id = NoSession
        /\ pane.commands = 0 /\ pane.owner = NoSession /\ pane.screen = {}
        /\ ~pane.disposed /\ ~pane.terminalFailed
    BY DEF Init
  <1>2. CoreInv(pane) /\ PromptInv(pane)
    BY <1>1 DEF CoreInv, PromptInv, Prompting, Stopped
  <1>3. \A s \in Session : native[s] = Absent
    BY DEF Init, NativeInit
  <1>4. Leaving(Absent) /\ KeyQueueInv(Absent)
    BY AbsentSession DEF Leaving, KeyQueueInv
  <1> QED
    BY <1>1, <1>2, <1>3, <1>4 DEF TidyInv, LeavingInv

LEMMA NextEInv ==
    ASSUME Situation \subseteq Excluded, IInv, EInv, [Next]_vars
    PROVE  EInv'
  <1>1. IInv'
    BY NextIInv
  <1>2. LateInv(pane)'
    BY NextLate, Tidy DEF Situation
  <1> SUFFICES TidyInv'
    BY <1>2 DEF EInv
  <1>3. CASE NativeNext /\ UNCHANGED <<pane, committed>>
    BY <1>3, NativeNextKeeps DEF EInv
  <1>4. CASE UserActs
    BY <1>1, <1>4, SubmitCommandTidy, AcceptHostKeyTidy, RejectHostKeyTidy, SubmitPasswordTidy,
       InterruptTidy, EscapeDisconnectTidy, TypeWithoutSessionTidy DEF UserActs
  <1>5. CASE EnvironmentSettles
    BY <1>5, EnvironmentSettlesTidy
  <1>6. CASE ResumeCommand
    BY <1>1, <1>6, ConnectStartsTidy, ConnectEndsTidy, CommandFailsTidy DEF ResumeCommand
  <1>7. CASE HostKeySaved
    BY <1>1, <1>7, CommitSettlesTidy DEF HostKeySaved
  <1>8. ASSUME NEW s \in Session, EventArrives(s) PROVE TidyInv'
    BY <1>1, <1>8, ControlEventTidy, AuthEventTidy, TransportEventTidy DEF EventArrives, Draining
  <1>9. CASE ResetCompletes \/ SurfaceFails \/ Dispose
    BY <1>1, <1>9, ResetCompletesTidy, SurfaceFailsTidy, DisposeTidy
  <1>10. CASE UNCHANGED vars
    <2>1. native' = native /\ pane' = pane
      BY <1>10 DEF vars
    <2>2. pane.id # NoSession => UndecidedInv(pane', native'[pane.id])
      BY <2>1, Tidy
    <2> QED
      BY <2>1, <2>2, SameNativeKeys, TidyKept, Tidy
  <1> QED
    BY <1>3, <1>4, <1>5, <1>6, <1>7, <1>8, <1>9, <1>10 DEF Next

LEMMA EInvHolds ==
    ASSUME Situation \subseteq Excluded
    PROVE  Spec => [](IInv /\ EInv)
  <1>1. Init => IInv /\ EInv
    BY InitIInv, InitLate, InitTidy DEF EInv
  <1>2. IInv /\ EInv /\ [Next]_vars => (IInv /\ EInv)'
    BY NextIInv, NextEInv
  <1> QED
    BY <1>1, <1>2, PTL DEF Spec

\* Back at ltty>, and once a pane is closed or its terminal has failed, every
\* session it started is on its way out (SessionViewModel's cancel, disconnect
\* and dispose), outside the situations in which the code leaves one behind.
THEOREM NothingLeft ==
    ASSUME Situation \subseteq Excluded
    PROVE  Spec => []NothingLeftBehind
  <1>1. IInv /\ EInv => NothingLeftBehind
    BY Tidy DEF NothingLeftBehind, LeavingInv, Stopped
  <1> QED
    BY <1>1, EInvHolds, PTL

\* The mode, the session state, the client and the terminal boundary agree,
\* outside the same situations.
THEOREM Consistent ==
    ASSUME Situation \subseteq Excluded
    PROVE  Spec => []PaneConsistent
  <1>1. ASSUME IInv, EInv, ~pane.terminalFailed PROVE PaneConsistent
    <2>1. /\ pane.screen \subseteq {pane.owner}
          /\ pane.resetPending => pane.resetting
      BY <1>1, Tidy DEF CoreInv
    <2>2. /\ pane.mode = "IDLE" => pane.state \in {"IDLE"} \cup Over
          /\ pane.mode \in Prompting => pane.state \in BeforeShell /\ pane.id # NoSession
      BY <1>1, Unfold, Tidy DEF StateInv, PromptInv
    <2>3. pane.mode = "HOST_KEY_INPUT" => pane.pendingLayer # None
      BY <1>1, <2>2, Tidy DEF UndecidedInv, Prompting
    <2>4. /\ pane.mode = "CONNECTED" => pane.state = "CONNECTED"
          /\ pane.mode = "PASSWORD_INPUT" => pane.pendingLayer # None /\ pane.waitingAuth
      BY <1>1, Tidy DEF PromptInv
    <2> QED
      BY <2>1, <2>2, <2>3, <2>4 DEF PaneConsistent, Prompting
  <1>2. IInv /\ EInv => PaneConsistent
    BY <1>1 DEF PaneConsistent
  <1> QED
    BY <1>2, EInvHolds, PTL
=============================================================================
