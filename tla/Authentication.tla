----------------------------- MODULE Authentication -----------------------------
(***************************************************************************)
(* The authentication of a connection (run_authentication, lib.rs): on a   *)
(* jump host and then on the target, or on the target alone, the client    *)
(* exchanges requests and replies with a server, asks its user through the *)
(* application, and gives up on a deadline or a disconnect request.        *)
(*                                                                         *)
(* The server is the repository's own (AuthFixture), or any other: then    *)
(* every reply is possible.  The application answers a prompt once; the    *)
(* functions it calls take any other answer, too.                          *)
(***************************************************************************)
EXTENDS AuthStateMachine, AuthFixture

CONSTANTS
    Scenarios,      \* the servers met: scenarios of AuthFixture, or "any"
    MaxMisuses      \* bound: answers the application sends without a prompt

ASSUME AuthenticationAssumption ==
    Scenarios \subseteq Scenario \cup {"any"} /\ MaxMisuses \in Nat

VARIABLES
    machine,        \* the layer's AuthStateMachine
    run,            \* run_authentication: its layer, its wait, its outcome
    wire,           \* the request the server has not answered, its reply
    server,
    channel,        \* auth_tx and disconnect_tx
    app             \* the prompt shown; what its user did

vars == <<machine, run, wire, server, channel, app>>

-----------------------------------------------------------------------------
Layer == {"jump", "target"}
Kind == {"passphrase", "password", "responses"}

Failure == AuthFailure \cup {"exchange", "response timed out", "key", "callback"}
Outcome == Failure \cup {None, "authenticated", "cancelled"}

\* round is 0 but for the answers to a challenge.
Answer(layer, kind, round, values) ==
    [layer |-> layer, kind |-> kind, round |-> round, values |-> values]

\* typedFor, a ghost: the prompt of the application that was answered.
Request(method, values, typedFor) == [method |-> method, values |-> values, typedFor |-> typedFor]
PromptOf(answer) == [layer |-> answer.layer, round |-> answer.round]

\* What the servers ask for, and what is typed.
Text == {"passphrase", "password", "account", "token", "second token", "wrong"}

ReplyRecord ==
    [kind : {"success"}]
        \cup [kind : {"failure"}, offered : SUBSET (AuthMethodKind \cup {"hostbased"}), partial : BOOLEAN]
        \cup [kind : {"info"}, prompts : Seq(Text)]
AnswerRecord == [layer : Layer, kind : Kind, round : Nat, values : Seq(Text)]

\* None is no way to fail, no reply and no answer.
ASSUME NothingAssumption ==
    None \notin Failure /\ None \notin ReplyRecord /\ None \notin AnswerRecord

NoWire == [request |-> None, reply |-> None]
Asking(request) == [request |-> request, reply |-> None]

\* The requests of a layer are counted up to where they are too many.
RequestBound == 1 + 3 * MaxAuthStages + MaxInteractiveRounds
Counted(n) == IF n <= RequestBound THEN n + 1 ELSE n

Begun(layer) ==
    [layer |-> layer, phase |-> "exchange", asked |-> None, outcome |-> None,
     requests |-> 1]

FirstRequest == Asking(Request("none", <<>>, None))

\* With no key, an open one, or one under a passphrase.
Machines == {NewMachine(FALSE, FALSE), NewMachine(TRUE, FALSE), NewMachine(TRUE, TRUE)}

Servers ==
    {NewClient(s, FALSE) : s \in Scenarios} \cup {NewClient(s, TRUE) : s \in Scenarios \cap {"KeyInstall"}}

Init ==
    /\ machine \in Machines
    /\ run \in {Begun(layer) : layer \in Layer}
    /\ wire = FirstRequest
    /\ server \in Servers
    /\ channel = [answer |-> None, disconnect |-> FALSE]
    /\ app = [prompt |-> None, erred |-> FALSE, misuses |-> 0]

-----------------------------------------------------------------------------
(* The server.                                                              *)

AnyReply(method) ==
    {Accept} \cup {Reject(m, p) : m \in SUBSET AuthMethodKind, p \in BOOLEAN}
        \cup (IF method \in {"keyboard-interactive", "respond"}
              THEN {InteractivePrompt([i \in 1..n |-> "account"]) : n \in {0, 1, MaxPromptsPerRound + 1}}
              ELSE {})

ServerReplies(s, request) ==
    IF s.scenario = "any" THEN {Reply(s, r) : r \in AnyReply(request.method)}
    ELSE {CASE request.method = "none" -> OnNone(s)
            [] request.method = "publickey" -> OnPublicKey(s)
            [] request.method = "password" -> OnPassword(s, request.values[1])
            [] request.method = "keyboard-interactive" -> OnKeyboardInteractive(s, <<>>)
            [] request.method = "respond" -> OnKeyboardInteractive(s, <<request.values>>)}

ServerAnswers ==
    /\ wire.request # None /\ wire.reply = None
    /\ \E r \in ServerReplies(server, wire.request) :
          /\ server' = r.server
          /\ wire' = [wire EXCEPT !.reply = r.reply]
    /\ UNCHANGED <<machine, run, channel, app>>

-----------------------------------------------------------------------------
(* The client between two waits: one step, as the code has no await there.  *)

Finish(outcome) ==
    /\ run' = [run EXCEPT !.phase = "done", !.asked = None, !.outcome = outcome]
    /\ wire' = NoWire
    /\ UNCHANGED app

Send(method, values, typedFor) ==
    /\ run' = [run EXCEPT !.phase = "exchange", !.asked = None, !.requests = Counted(@)]
    /\ wire' = Asking(Request(method, values, typedFor))
    /\ UNCHANGED app

\* The key is read from its file; a wrong passphrase does not open it.
SendPublicKey(opens, typedFor) ==
    \/ opens /\ Send("publickey", <<>>, typedFor)
    \/ Finish("key")

\* The callback refuses the event when the application is going away.
Prompt(kind, round, prompts) ==
    \/ /\ run' = [run EXCEPT !.phase = "command", !.asked = kind]
       /\ wire' = NoWire
       /\ app' = [app EXCEPT !.prompt = Answer(run.layer, kind, round, prompts)]
    \/ Finish("callback")

OnFailureReply(reply) ==
    LET next == SelectNextMethod(machine, reply.offered \cap AuthMethodKind, reply.partial) IN
    /\ machine' = next.machine
    /\ CASE next.action = "AttemptPublicKey" -> SendPublicKey(TRUE, None)
         [] next.action = "RequestPrivateKeyPassphrase" -> Prompt("passphrase", 0, <<"passphrase">>)
         [] next.action = "RequestPassword" -> Prompt("password", 0, <<"password">>)
         [] next.action = "StartKeyboardInteractive" -> Send("keyboard-interactive", <<>>, None)
         [] OTHER -> Finish(next.action)

OnInfoRequest(reply) ==
    LET next == PresentChallenge(machine, Len(reply.prompts)) IN
    /\ machine' = next.machine
    /\ IF next.action = "PresentChallenge"
       THEN Prompt("responses", next.machine.pending.round, reply.prompts)
       ELSE Finish(next.action)

TakeReply ==
    LET reply == wire.reply IN
    /\ run.phase = "exchange" /\ reply # None
    /\ \/ reply.kind = "success" /\ Finish("authenticated") /\ UNCHANGED machine
       \/ reply.kind = "failure" /\ OnFailureReply(reply)
       \/ reply.kind = "info" /\ OnInfoRequest(reply)
    /\ UNCHANGED <<server, channel>>

-----------------------------------------------------------------------------
(* The user's answer.  One for the other layer is dropped; one of another   *)
(* kind, or for another round, ends the authentication.                     *)

\* MUTANT: an answer is taken whatever layer it is for.
ForThisLayerUnchecked(answer) == TRUE

ForThisLayer(answer) == answer.layer = run.layer

UseAnswer(answer) ==
    LET next == CASE answer.kind = "passphrase" -> SubmitPrivateKeyPassphrase(machine)
                  [] answer.kind = "password" -> SubmitPassword(machine)
                  [] answer.kind = "responses" ->
                        ValidateResponses(machine, answer.round, Len(answer.values))
    IN
    /\ machine' = next.machine
    /\ CASE next.action \in AuthFailure -> Finish(next.action)
         [] next.action = "AttemptPublicKey" -> SendPublicKey(answer.values = <<"passphrase">>, PromptOf(answer))
         [] next.action = "Submitted" ->
                IF answer.kind = "password" THEN Send("password", answer.values, PromptOf(answer))
                ELSE Send("respond", answer.values, PromptOf(answer))

TakeCommand ==
    LET answer == channel.answer IN
    /\ run.phase = "command" /\ answer # None
    /\ channel' = [channel EXCEPT !.answer = None]
    /\ IF ~ForThisLayer(answer) THEN UNCHANGED <<machine, run, wire, app>>
       ELSE IF answer.kind # run.asked THEN Finish("UnexpectedCredential") /\ UNCHANGED machine
       ELSE UseAnswer(answer)
    /\ UNCHANGED server

-----------------------------------------------------------------------------
(* Deadlines and disconnects.                                               *)

\* The connection breaks, or AUTH_EXCHANGE_TIMEOUT passes.
ExchangeFails ==
    /\ run.phase = "exchange"
    /\ Finish("exchange")
    /\ UNCHANGED <<machine, server, channel>>

\* AUTH_RESPONSE_TIMEOUT, from the prompt on.
ResponseTimesOut ==
    /\ run.phase = "command"
    /\ Finish("response timed out")
    /\ UNCHANGED <<machine, server, channel>>

Cancelled ==
    /\ run.phase \in {"exchange", "command"} /\ channel.disconnect
    /\ channel' = [channel EXCEPT !.disconnect = FALSE]
    /\ Finish("cancelled")
    /\ UNCHANGED <<machine, server>>

\* The jump host lets the client in: the target is next, on the same channels.
ProceedToTarget ==
    /\ run.phase = "done" /\ run.outcome = "authenticated" /\ run.layer = "jump"
    /\ machine' \in Machines
    /\ run' = Begun("target")
    /\ wire' = FirstRequest
    /\ server' \in Servers
    /\ app' = [app EXCEPT !.erred = FALSE]
    /\ UNCHANGED channel

-----------------------------------------------------------------------------
(* The application: the functions it calls are refused once the session is  *)
(* over, or while an earlier answer has not been taken.                     *)

Over == run.phase = "done" /\ ~(run.layer = "jump" /\ run.outcome = "authenticated")

Deliver(answer) ==
    /\ ~Over /\ channel.answer = None
    /\ channel' = [channel EXCEPT !.answer = answer]
    /\ UNCHANGED <<machine, run, wire, server>>

\* Right, or as many wrong values: one to a server that replies anything to both.
UserAnswers ==
    /\ app.prompt # None
    /\ \E right \in BOOLEAN :
          /\ right \/ (app.prompt.values # <<>> /\ server.scenario # "any")
          /\ Deliver(IF right THEN app.prompt
                     ELSE [app.prompt EXCEPT !.values = [i \in DOMAIN @ |-> "wrong"]])
          /\ app' = [app EXCEPT !.prompt = None, !.erred = @ \/ ~right]

\* An answer to no prompt of this moment: for a layer that is over, or a repeated one.
Misuse ==
    /\ app.misuses < MaxMisuses
    /\ \E layer \in Layer, kind \in Kind :
          Deliver(Answer(layer, kind, IF kind = "responses" THEN 1 ELSE 0, <<"wrong">>))
    /\ app' = [app EXCEPT !.misuses = @ + 1]

Disconnect ==
    /\ ~Over /\ ~channel.disconnect
    /\ channel' = [channel EXCEPT !.disconnect = TRUE]
    /\ UNCHANGED <<machine, run, wire, server, app>>

-----------------------------------------------------------------------------
Client ==
    TakeReply \/ TakeCommand \/ ExchangeFails \/ ResponseTimesOut \/ Cancelled

Next ==
    \/ Client
    \/ ServerAnswers
    \/ ProceedToTarget
    \/ UserAnswers
    \/ Misuse
    \/ Disconnect

Spec == Init /\ [][Next]_vars

-----------------------------------------------------------------------------
TypeOK ==
    /\ machine \in Machine
    /\ run \in [layer : Layer, phase : {"exchange", "command", "done"},
                asked : Kind \cup {None}, outcome : Outcome,
                requests : Nat]
    /\ channel.disconnect \in BOOLEAN
    /\ app.erred \in BOOLEAN /\ app.misuses \in 0..MaxMisuses

\* Whatever a server replies, one layer's authentication sends a bounded number
\* of requests: partial successes, methods and rounds are all limited.
BoundedExchange == run.requests <= RequestBound

\* What the user typed for one layer or for one round goes to the server only as
\* the answer to that prompt; both layers count their rounds from 1.
AnswersReachTheirPrompt ==
    LET request == wire.request IN
    request # None =>
        \/ request.typedFor = None
        \/ request.typedFor = [layer |-> run.layer,
                               round |-> IF request.method = "respond" THEN machine.nextRound - 1
                                         ELSE 0]

\* The repository's server lets a client in only with every factor of its scenario.
AcceptedMeansProved ==
    run.outcome = "authenticated" /\ server.scenario # "any" =>
        \E factors \in Required(server) : factors \subseteq server.proved

NeedsKey == {"PublicKey", "PublicKeyPassword", "PublicKeyKeyboardInteractive"}

\* A user who answers each prompt once, and right, is not turned away: whatever
\* the server replies, the state machine's own guards never stop the exchange, and
\* with the repository's server only a method the client lacks does.
HonestUserAdmitted ==
    app.misuses = 0 =>
        /\ run.outcome \notin {"UnexpectedCredential", "UnexpectedChallenge",
                                "StaleChallenge", "ResponseCountMismatch"}
        /\ run.outcome \in {"Rejected", "NoSupportedMethod", "ProtocolLimitExceeded"} =>
              \/ server.scenario \in {"any", "UnsupportedMethod", "unknown"}
              \/ app.erred
              \/ server.scenario \in NeedsKey /\ ~machine.hasKey
=============================================================================
