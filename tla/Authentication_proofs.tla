------------------------- MODULE Authentication_proofs -------------------------
(***************************************************************************)
(* For all limits and every server: the type invariant of Authentication,  *)
(* that an exchange is bounded, that answers reach their prompt, that the  *)
(* repository's server admits only those who have shown its factors, and   *)
(* that it and the state machine turn away no user who makes no mistake.   *)
(***************************************************************************)
EXTENDS Authentication, TLAPS

Tried(m, method) == IF method \in m.attempted THEN 1 ELSE 0

\* The requests that stages, methods and answered rounds account for.
Spent(m) ==
    3 * (m.stages - 1)
        + Tried(m, "publickey") + Tried(m, "password") + Tried(m, "keyboard-interactive")
        + (IF m.pending = None THEN m.rounds ELSE m.rounds - 1)

MachineInv(m) ==
    /\ m \in Machine
    /\ m.nextRound = m.rounds + 1
    /\ m.waitingFor = "passphrase" => "publickey" \notin m.attempted
    /\ m.waitingFor = "password" => "password" \notin m.attempted
    /\ m.pending # None => m.pending.round = m.rounds

\* What a step of the machine promises: it stays sound, and a request is paid for.
Paid(m, next) ==
    /\ MachineInv(next.machine)
    /\ Spent(next.machine) >= Spent(m)
    /\ next.action \in {"AttemptPublicKey", "StartKeyboardInteractive", "Submitted"} =>
          Spent(next.machine) >= Spent(m) + 1

-----------------------------------------------------------------------------
(* The state machine.                                                       *)

LEMMA SpentBounds ==
    ASSUME NEW m, MachineInv(m)
    PROVE  Spent(m) \in Nat /\ Spent(m) + 1 <= RequestBound
  BY LimitsAssumption, NoneAssumption DEF MachineInv, Machine, Spent, Tried, RequestBound

LEMMA NewMachineSound ==
    ASSUME NEW m \in Machines
    PROVE  MachineInv(m) /\ Spent(m) = 0
  <1>1. PICK hasKey \in BOOLEAN, locked \in BOOLEAN : m = NewMachine(hasKey, locked)
    BY DEF Machines
  <1>2. m \in Machine
    BY <1>1, LimitsAssumption DEF NewMachine, Machine
  <1> QED
    BY <1>1, <1>2, NoneAssumption DEF NewMachine, MachineInv, Spent, Tried

LEMMA RefusalPaid ==
    ASSUME NEW m, MachineInv(m), NEW failure \in AuthFailure
    PROVE  Paid(m, Then(failure, m))
  BY SpentBounds DEF Paid, Then, AuthFailure

LEMMA SelectNextMethodPaid ==
    ASSUME NEW m, MachineInv(m), NEW offered \in SUBSET AuthMethodKind, NEW partial \in BOOLEAN
    PROVE  Paid(m, SelectNextMethod(m, offered, partial))
  <1> DEFINE fresh == StageFor(m, partial)
             method == NextMethod(fresh, offered)
  <1> USE LimitsAssumption, NoneAssumption
  <1>1. Paid(m, Then("UnexpectedCredential", m)) /\ Paid(m, Then("ProtocolLimitExceeded", m))
    BY RefusalPaid DEF AuthFailure
  <1>2. ASSUME m.waitingFor = None, m.pending = None, ~(partial /\ m.stages >= MaxAuthStages)
        PROVE  Paid(m, Try(fresh, method, partial))
    <2>1. MachineInv(fresh) /\ Spent(fresh) >= Spent(m)
      <3>1. CASE ~partial
        BY <3>1, SpentBounds DEF StageFor
      <3>2. CASE partial
        <4>1. m.stages + 1 \in 1..MaxAuthStages
          BY <1>2, <3>2 DEF MachineInv, Machine
        <4>2. fresh = [m EXCEPT !.stages = @ + 1, !.attempted = {}]
          BY <3>2 DEF StageFor
        <4>3. MachineInv(fresh)
          BY <4>1, <4>2, ZenonT(60) DEF MachineInv, Machine
        <4> QED
          BY <4>2, <4>3 DEF MachineInv, Machine, Spent, Tried
      <3> QED
        BY <3>1, <3>2
    <2>2. fresh.waitingFor = None /\ fresh.pending = None
      BY <1>2 DEF StageFor, MachineInv, Machine
    <2>3. method \in (AuthMethodKind \ fresh.attempted) \cup {None}
      BY DEF NextMethod, AuthMethodKind
    <2> HIDE DEF fresh, method
    <2>4. CASE method = None
      BY <2>1, <2>2, <2>4 DEF Try, Paid, Then, AuthMethodKind, MachineInv, Machine, Spent, Tried
    <2>5. CASE method = "publickey"
      BY <2>1, <2>2, <2>3, <2>5 DEF Try, Paid, Then, AuthMethodKind, MachineInv, Machine, Spent, Tried
    <2>6. CASE method = "password"
      BY <2>1, <2>2, <2>3, <2>6 DEF Try, Paid, Then, AuthMethodKind, MachineInv, Machine, Spent, Tried
    <2>7. CASE method = "keyboard-interactive"
      BY <2>1, <2>2, <2>3, <2>7 DEF Try, Paid, Then, AuthMethodKind, MachineInv, Machine, Spent, Tried
    <2> QED
      BY <2>3, <2>4, <2>5, <2>6, <2>7 DEF AuthMethodKind
  <1> QED
    BY <1>1, <1>2 DEF SelectNextMethod

LEMMA PassphrasePaid ==
    ASSUME NEW m, MachineInv(m)
    PROVE  Paid(m, SubmitPrivateKeyPassphrase(m))
  <1> DEFINE next == [m EXCEPT !.waitingFor = None, !.attempted = @ \cup {"publickey"}]
  <1>1. CASE m.waitingFor # "passphrase"
    BY <1>1, RefusalPaid DEF SubmitPrivateKeyPassphrase, AuthFailure
  <1>2. CASE m.waitingFor = "passphrase"
    <2>1. MachineInv(next)
      BY <1>2, NoneAssumption DEF MachineInv, Machine, AuthMethodKind
    <2>2. Spent(next) = Spent(m) + 1
      BY <1>2 DEF MachineInv, Machine, Spent, Tried
    <2> QED
      BY <1>2, <2>1, <2>2, SpentBounds DEF SubmitPrivateKeyPassphrase, Paid, Then
  <1> QED
    BY <1>1, <1>2

LEMMA PasswordPaid ==
    ASSUME NEW m, MachineInv(m)
    PROVE  Paid(m, SubmitPassword(m))
  <1> DEFINE next == [m EXCEPT !.waitingFor = None, !.attempted = @ \cup {"password"}]
  <1>1. CASE m.waitingFor # "password"
    BY <1>1, RefusalPaid DEF SubmitPassword, AuthFailure
  <1>2. CASE m.waitingFor = "password"
    <2>1. MachineInv(next)
      BY <1>2, NoneAssumption DEF MachineInv, Machine, AuthMethodKind
    <2>2. Spent(next) = Spent(m) + 1
      BY <1>2 DEF MachineInv, Machine, Spent, Tried
    <2> QED
      BY <1>2, <2>1, <2>2, SpentBounds DEF SubmitPassword, Paid, Then
  <1> QED
    BY <1>1, <1>2

LEMMA PresentChallengePaid ==
    ASSUME NEW m, MachineInv(m), NEW count \in Nat
    PROVE  Paid(m, PresentChallenge(m, count))
  <1> DEFINE next == [m EXCEPT !.pending = [round |-> m.nextRound, prompts |-> count],
                               !.nextRound = @ + 1, !.rounds = @ + 1]
             refused == \/ "keyboard-interactive" \notin m.attempted \/ m.pending # None
                        \/ m.rounds >= MaxInteractiveRounds \/ count > MaxPromptsPerRound
  <1>1. CASE refused
    BY <1>1, RefusalPaid DEF PresentChallenge, AuthFailure
  <1>2. CASE ~refused
    <2>1. /\ m.nextRound + 1 \in 1..(MaxInteractiveRounds + 1) /\ m.rounds + 1 \in 0..MaxInteractiveRounds
          /\ [round |-> m.nextRound, prompts |-> count]
                \in [round : 1..MaxInteractiveRounds, prompts : 0..MaxPromptsPerRound]
      BY <1>2, LimitsAssumption DEF MachineInv, Machine
    <2>2. next \in Machine
      BY <2>1 DEF MachineInv, Machine
    <2>3. next.pending # None
      BY <2>1, NoneAssumption, LimitsAssumption DEF MachineInv, Machine
    <2>4. MachineInv(next)
      BY <2>2 DEF MachineInv, Machine
    <2>5. Spent(next) = Spent(m)
      BY <1>2, <2>3 DEF MachineInv, Machine, Spent, Tried
    <2> QED
      BY <1>2, <2>4, <2>5, SpentBounds DEF PresentChallenge, Paid, Then
  <1> QED
    BY <1>1, <1>2

LEMMA ValidateResponsesPaid ==
    ASSUME NEW m, MachineInv(m), NEW round, NEW count
    PROVE  /\ Paid(m, ValidateResponses(m, round, count))
           /\ ValidateResponses(m, round, count).action = "Submitted" =>
                 round = ValidateResponses(m, round, count).machine.nextRound - 1
  BY LimitsAssumption, NoneAssumption
  DEF ValidateResponses, Paid, Then, MachineInv, Machine, Spent, Tried

-----------------------------------------------------------------------------
(* The repository's server.                                                 *)

Factor == {"password", "publickey", "account", "token", "second token"}

ServerState ==
    [scenario : Scenario \cup {"any"}, keyInstalled : BOOLEAN,
     passwordComplete : BOOLEAN, publicKeyComplete : BOOLEAN, waitingForSecond : BOOLEAN,
     proved : SUBSET Factor]

\* A factor that is taken for complete has been shown.
ServerInv(s) ==
    /\ s \in ServerState
    /\ s.passwordComplete => "password" \in s.proved
    /\ s.publicKeyComplete => "publickey" \in s.proved
    /\ s.waitingForSecond => "account" \in s.proved

Admitted(s) == s.scenario # "any" => \E factors \in Required(s) : factors \subseteq s.proved

ReplyInv(s, reply) ==
    /\ reply.kind \in {"success", "failure", "info"}
    /\ reply.kind = "success" => Admitted(s)
    /\ reply.kind = "failure" => reply.partial \in BOOLEAN
    /\ reply.kind = "info" => Len(reply.prompts) \in Nat

Sound(r) == ServerInv(r.server) /\ ReplyInv(r.server, r.reply)

LEMMA RejectSound ==
    ASSUME NEW s, ServerInv(s), NEW methods, NEW partial \in BOOLEAN
    PROVE  Sound(Reply(s, Reject(methods, partial)))
  BY DEF Sound, Reply, Reject, ReplyInv

LEMMA PromptSound ==
    ASSUME NEW s, ServerInv(s), NEW prompts, Len(prompts) \in Nat
    PROVE  Sound(Reply(s, InteractivePrompt(prompts)))
  BY DEF Sound, Reply, InteractivePrompt, ReplyInv

LEMMA AcceptSound ==
    ASSUME NEW s, ServerInv(s), Admitted(s)
    PROVE  Sound(Reply(s, Accept))
  BY DEF Sound, Reply, Accept, ReplyInv

LEMMA ProvedSound ==
    ASSUME NEW s, ServerInv(s), NEW factors \in SUBSET Factor
    PROVE  ServerInv(Proved(s, factors))
  BY DEF ServerInv, ServerState, Proved

LEMMA ProvedFields ==
    ASSUME NEW s, ServerInv(s), NEW factors
    PROVE  /\ Proved(s, factors).scenario = s.scenario
           /\ Proved(s, factors).keyInstalled = s.keyInstalled
           /\ Proved(s, factors).publicKeyComplete = s.publicKeyComplete
           /\ Proved(s, factors).proved = s.proved \cup factors
  BY DEF ServerInv, ServerState, Proved

LEMMA OnPasswordSound ==
    ASSUME NEW s, ServerInv(s), NEW password
    PROVE  Sound(OnPassword(s, password))
  <1> DEFINE shown == Proved(s, {"password"})
  <1>1. ServerInv(shown) /\ shown.scenario = s.scenario /\ shown.keyInstalled = s.keyInstalled
        /\ "password" \in shown.proved /\ s.proved \subseteq shown.proved
        /\ shown.publicKeyComplete = s.publicKeyComplete
    <2>1. ServerInv(shown)
      <3>1. {"password"} \in SUBSET Factor
        BY DEF Factor
      <3> QED
        BY <3>1, ProvedSound, Zenon
    <2>2. /\ shown.scenario = s.scenario /\ shown.keyInstalled = s.keyInstalled
          /\ shown.publicKeyComplete = s.publicKeyComplete
          /\ shown.proved = s.proved \cup {"password"}
      BY ProvedFields, Zenon
    <2> QED
      BY <2>1, <2>2
  <1> HIDE DEF shown
  <1>2. CASE s.scenario = "unknown" \/ password # "password"
    <2>1. Sound(Reply(s, Reject({}, FALSE)))
      BY RejectSound, Zenon
    <2>2. s.publicKeyComplete \in BOOLEAN
      BY DEF ServerInv, ServerState
    <2>3. Sound(Reply(s, Reject({"password"}, s.publicKeyComplete)))
      BY <2>2, RejectSound, Zenon
    <2> QED
      BY <1>2, <2>1, <2>3 DEF OnPassword
  <1>3. CASE s.scenario # "unknown" /\ password = "password"
    <2>1. OnPassword(s, password) =
            CASE s.scenario \in {"Password", "KeyInstall"} -> Reply(shown, Accept)
              [] s.scenario = "PasswordKeyboardInteractive" ->
                    Reply([shown EXCEPT !.passwordComplete = TRUE],
                          Reject({"keyboard-interactive"}, TRUE))
              [] s.scenario = "PublicKeyPassword" ->
                    Reply(shown, IF s.publicKeyComplete THEN Accept ELSE Reject({"publickey"}, FALSE))
              [] OTHER -> Reply(shown, Reject(InitialMethods(s.scenario), FALSE))
      BY <1>3 DEF OnPassword, shown
    <2>2. CASE s.scenario \in {"Password", "KeyInstall"}
      <3>1. {"password"} \in Required(shown)
        BY <1>1, <2>2 DEF Required
      <3> QED
        BY <1>1, <2>1, <2>2, <3>1, AcceptSound DEF Admitted
    <2>3. CASE s.scenario = "PasswordKeyboardInteractive"
      <3>1. ServerInv([shown EXCEPT !.passwordComplete = TRUE])
        BY <1>1 DEF ServerInv, ServerState
      <3> QED
        BY <2>1, <2>3, <3>1, RejectSound
    <2>4. CASE s.scenario = "PublicKeyPassword"
      <3>1. {"publickey", "password"} \in Required(shown)
        BY <1>1, <2>4 DEF Required
      <3>2. s.publicKeyComplete => Admitted(shown)
        BY <1>1, <3>1 DEF Admitted, ServerInv
      <3>3. s.publicKeyComplete => Sound(Reply(shown, Accept))
        BY <1>1, <3>2, AcceptSound
      <3>4. Sound(Reply(shown, Reject({"publickey"}, FALSE)))
        BY <1>1, RejectSound
      <3>5. OnPassword(s, password) =
              Reply(shown, IF s.publicKeyComplete THEN Accept ELSE Reject({"publickey"}, FALSE))
        BY <2>1, <2>4
      <3> QED
        BY <3>3, <3>4, <3>5
    <2>5. CASE s.scenario \notin {"Password", "KeyInstall", "PasswordKeyboardInteractive", "PublicKeyPassword"}
      BY <1>1, <2>1, <2>5, RejectSound
    <2> QED
      BY <2>2, <2>3, <2>4, <2>5
  <1> QED
    BY <1>2, <1>3

LEMMA OnPublicKeySound ==
    ASSUME NEW s, ServerInv(s)
    PROVE  Sound(OnPublicKey(s))
  <1> DEFINE shown == Proved(s, {"publickey"})
             complete == [shown EXCEPT !.publicKeyComplete = TRUE]
  <1>1. ServerInv(shown) /\ shown.scenario = s.scenario /\ shown.keyInstalled = s.keyInstalled
        /\ "publickey" \in shown.proved
    <2>1. ServerInv(shown)
      <3>1. {"publickey"} \in SUBSET Factor
        BY DEF Factor
      <3> QED
        BY <3>1, ProvedSound, Zenon
    <2>2. /\ shown.scenario = s.scenario /\ shown.keyInstalled = s.keyInstalled
          /\ shown.proved = s.proved \cup {"publickey"}
      BY ProvedFields, Zenon
    <2> QED
      BY <2>1, <2>2
  <1>2. ServerInv(complete)
    BY <1>1 DEF ServerInv, ServerState
  <1> HIDE DEF shown, complete
  <1>3. CASE s.scenario = "PublicKey"
    <2>1. {"publickey"} \in Required(shown)
      BY <1>1, <1>3 DEF Required
    <2> QED
      BY <1>1, <1>3, <2>1, AcceptSound DEF OnPublicKey, Admitted, shown
  <1>4. CASE s.scenario = "KeyInstall"
    <2>1. s.keyInstalled => {"publickey"} \in Required(shown)
      BY <1>1, <1>4 DEF Required
    <2>2. s.keyInstalled => Sound(Reply(shown, Accept))
      BY <1>1, <2>1, AcceptSound DEF Admitted
    <2>3. Sound(Reply(shown, Reject({"password"}, FALSE)))
      BY <1>1, RejectSound
    <2>4. OnPublicKey(s) = Reply(shown, IF s.keyInstalled THEN Accept ELSE Reject({"password"}, FALSE))
      BY <1>4 DEF OnPublicKey, shown
    <2> QED
      BY <2>2, <2>3, <2>4
  <1>5. CASE s.scenario \in {"PublicKeyPassword", "PublicKeyKeyboardInteractive"}
    BY <1>2, <1>5, RejectSound DEF OnPublicKey, complete, shown
  <1>6. CASE s.scenario \notin {"PublicKey", "KeyInstall", "PublicKeyPassword",
                                "PublicKeyKeyboardInteractive"}
    BY <1>6, RejectSound DEF OnPublicKey
  <1> QED
    BY <1>3, <1>4, <1>5, <1>6

\* Both steps of the second factor.
LEMMA OnTwoValuesSound ==
    ASSUME NEW s, ServerInv(s), NEW answers,
           \/ s.scenario = "PasswordKeyboardInteractive" /\ s.passwordComplete
           \/ s.scenario = "PublicKeyKeyboardInteractive" /\ s.publicKeyComplete
    PROVE  Sound(OnTwoValues(s, answers))
  <1> DEFINE shown == Proved(s, {"account", "token"})
  <1>1. ServerInv(shown)
    <2>1. {"account", "token"} \in SUBSET Factor
      BY DEF Factor
    <2> QED
      BY <2>1, ProvedSound, Zenon
  <1>2. shown.scenario = s.scenario /\ shown.proved = s.proved \cup {"account", "token"}
    BY ProvedFields, Zenon
  <1>3. Admitted(shown)
    <2>1. CASE s.scenario = "PasswordKeyboardInteractive"
      <3>1. {"password", "account", "token"} \in Required(shown)
        BY <1>2, <2>1 DEF Required
      <3>2. {"password", "account", "token"} \subseteq shown.proved
        BY <1>2, <2>1 DEF ServerInv
      <3> QED
        BY <3>1, <3>2 DEF Admitted
    <2>2. CASE s.scenario = "PublicKeyKeyboardInteractive"
      <3>1. {"publickey", "account", "token"} \in Required(shown)
        BY <1>2, <2>2 DEF Required
      <3>2. {"publickey", "account", "token"} \subseteq shown.proved
        BY <1>2, <2>2 DEF ServerInv
      <3> QED
        BY <3>1, <3>2 DEF Admitted
    <2> QED
      BY <2>1, <2>2
  <1>4. Sound(Reply(shown, Accept))
    BY <1>1, <1>3, AcceptSound
  <1>5. Sound(Reply(s, InteractivePrompt(<<"account", "token">>)))
    <2>1. Len(<<"account", "token">>) \in Nat
      OBVIOUS
    <2> QED
      BY <2>1, PromptSound, Zenon
  <1>6. Sound(Reply(s, Reject({"keyboard-interactive"}, TRUE)))
    BY RejectSound
  <1> QED
    BY <1>4, <1>5, <1>6 DEF OnTwoValues

LEMMA OnTwoRoundsSound ==
    ASSUME NEW s, ServerInv(s), NEW answers, s.scenario = "KeyboardInteractiveMultiRound"
    PROVE  Sound(OnTwoRounds(s, answers))
  <1> DEFINE first == [Proved(s, {"account"}) EXCEPT !.waitingForSecond = TRUE]
             second == Proved(s, {"second token"})
             again == [s EXCEPT !.waitingForSecond = FALSE]
  <1>1. ServerInv(Proved(s, {"account"})) /\ ServerInv(second)
    <2>1. {"account"} \in SUBSET Factor /\ {"second token"} \in SUBSET Factor
      BY DEF Factor
    <2> QED
      BY <2>1, ProvedSound, Zenon
  <1>2. ServerInv(first)
    <2>1. Proved(s, {"account"}).proved = s.proved \cup {"account"}
      BY ProvedFields, Zenon
    <2> QED
      BY <1>1, <2>1 DEF ServerInv, ServerState
  <1>3. ServerInv(again)
    BY DEF ServerInv, ServerState
  <1>4. s.waitingForSecond => Admitted(second)
    <2>1. second.scenario = s.scenario /\ second.proved = s.proved \cup {"second token"}
      BY ProvedFields, Zenon
    <2>2. {"account", "second token"} \in Required(second)
      BY <2>1 DEF Required
    <2> QED
      BY <2>1, <2>2 DEF Admitted, ServerInv
  <1>5. s.waitingForSecond => Sound(Reply(second, Accept))
    BY <1>1, <1>4, AcceptSound
  <1>6. /\ Sound(Reply(s, InteractivePrompt(<<"account">>)))
        /\ Sound(Reply(s, InteractivePrompt(<<"second token">>)))
        /\ Sound(Reply(first, InteractivePrompt(<<"second token">>)))
    <2>1. Len(<<"account">>) \in Nat /\ Len(<<"second token">>) \in Nat
      OBVIOUS
    <2> QED
      BY <1>2, <2>1, PromptSound, Zenon
  <1>7. Sound(Reply(again, Reject({"keyboard-interactive"}, FALSE)))
    BY <1>3, RejectSound
  <1> QED
    BY <1>5, <1>6, <1>7 DEF OnTwoRounds

LEMMA OnNoPromptsSound ==
    ASSUME NEW s, ServerInv(s), NEW answers, s.scenario = "KeyboardInteractiveZeroPrompt"
    PROVE  Sound(OnNoPrompts(s, answers))
  <1>1. {} \in Required(s)
    BY DEF Required
  <1>2. Sound(Reply(s, Accept))
    BY <1>1, AcceptSound DEF Admitted
  <1>3. Sound(Reply(s, InteractivePrompt(<<>>)))
    <2>1. Len(<<>>) \in Nat
      OBVIOUS
    <2> QED
      BY <2>1, PromptSound, Zenon
  <1>4. Sound(Reply(s, Reject({"keyboard-interactive"}, FALSE)))
    BY RejectSound
  <1> QED
    BY <1>2, <1>3, <1>4 DEF OnNoPrompts

LEMMA OnKeyboardInteractiveSound ==
    ASSUME NEW s, ServerInv(s), NEW answers
    PROVE  Sound(OnKeyboardInteractive(s, answers))
  <1>1. CASE s.scenario = "PasswordKeyboardInteractive"
    BY <1>1, OnTwoValuesSound, RejectSound DEF OnKeyboardInteractive
  <1>2. CASE s.scenario = "PublicKeyKeyboardInteractive"
    BY <1>2, OnTwoValuesSound, RejectSound DEF OnKeyboardInteractive
  <1>3. CASE s.scenario = "KeyboardInteractiveMultiRound"
    BY <1>3, OnTwoRoundsSound DEF OnKeyboardInteractive
  <1>4. CASE s.scenario = "KeyboardInteractiveZeroPrompt"
    BY <1>4, OnNoPromptsSound DEF OnKeyboardInteractive
  <1>5. CASE s.scenario \notin {"PasswordKeyboardInteractive", "PublicKeyKeyboardInteractive",
                                "KeyboardInteractiveMultiRound", "KeyboardInteractiveZeroPrompt"}
    BY <1>5, RejectSound DEF OnKeyboardInteractive
  <1> QED
    BY <1>1, <1>2, <1>3, <1>4, <1>5

Methods == {"none", "publickey", "password", "keyboard-interactive", "respond"}

\* Whatever is asked, the server keeps what it knows and admits only who has shown it.
LEMMA ServerRepliesSound ==
    ASSUME NEW s, ServerInv(s), NEW request, request.method \in Methods,
           NEW r \in ServerReplies(s, request)
    PROVE  Sound(r)
  <1>1. CASE s.scenario = "any"
    <2>1. PICK reply \in AnyReply(request.method) : r = Reply(s, reply)
      BY <1>1 DEF ServerReplies
    <2>2. CASE reply = Accept
      BY <1>1, <2>1, <2>2, AcceptSound DEF Admitted
    <2>3. ASSUME NEW methods \in SUBSET AuthMethodKind, NEW partial \in BOOLEAN,
                 reply = Reject(methods, partial)
          PROVE  Sound(r)
      BY <2>1, <2>3, RejectSound
    <2>4. ASSUME NEW n \in {0, 1, MaxPromptsPerRound + 1},
                 reply = InteractivePrompt([i \in 1..n |-> "account"])
          PROVE  Sound(r)
      <3>1. n \in Nat
        BY LimitsAssumption
      <3>2. Len([i \in 1..n |-> "account"]) \in Nat
        BY <3>1
      <3> QED
        BY <2>1, <2>4, <3>2, PromptSound
    <2> QED
      BY <2>2, <2>3, <2>4 DEF AnyReply
  <1>2. CASE s.scenario # "any"
    <2>1. Sound(OnNone(s))
      BY RejectSound DEF OnNone
    <2>2. r \in {OnNone(s), OnPublicKey(s), OnPassword(s, request.values[1]),
                 OnKeyboardInteractive(s, <<>>), OnKeyboardInteractive(s, <<request.values>>)}
      BY <1>2 DEF ServerReplies, Methods
    <2> QED
      BY <2>1, <2>2, OnPublicKeySound, OnPasswordSound, OnKeyboardInteractiveSound
  <1> QED
    BY <1>1, <1>2

-----------------------------------------------------------------------------
(* The invariant: what a request, a reply and an outcome rest on.           *)

RunInv ==
    /\ run \in [layer : Layer, phase : {"exchange", "command", "done"},
                asked : Kind \cup {None}, outcome : Outcome, requests : Nat]
    /\ run.outcome = "authenticated" => run.phase = "done"

ExchangeInv == MachineInv(machine) /\ run.requests <= 1 + Spent(machine)

WireInv ==
    /\ wire = [request |-> wire.request, reply |-> wire.reply]
    /\ wire.request # None => run.phase = "exchange" /\ wire.request.method \in Methods
    /\ AnswersReachTheirPrompt

AdmissionInv ==
    /\ ServerInv(server)
    /\ wire.reply # None => ReplyInv(server, wire.reply)
    /\ run.outcome = "authenticated" => Admitted(server)

AnswerInv(answer) ==
    /\ {"layer", "kind", "round"} \subseteq DOMAIN answer
    /\ answer.kind \in Kind
    /\ answer.kind # "responses" => answer.round = 0

ChannelInv ==
    /\ channel = [answer |-> channel.answer, disconnect |-> channel.disconnect]
    /\ channel.disconnect \in BOOLEAN
    /\ channel.answer # None => AnswerInv(channel.answer)

AppInv ==
    /\ app = [prompt |-> app.prompt, erred |-> app.erred, misuses |-> app.misuses]
    /\ app.erred \in BOOLEAN /\ app.misuses \in 0..MaxMisuses
    /\ app.prompt # None => AnswerInv(app.prompt)

IInv ==
    /\ RunInv
    /\ ExchangeInv
    /\ WireInv
    /\ AdmissionInv
    /\ ChannelInv
    /\ AppInv

LEMMA InitHolds ==
    ASSUME Init
    PROVE  IInv
  <1>1. run.layer \in Layer /\ run = Begun(run.layer)
    BY DEF Init, Begun
  <1>2. RunInv
    BY <1>1, NoneAssumption DEF Begun, RunInv, Outcome
  <1>3. ExchangeInv
    BY <1>1, NewMachineSound DEF Init, ExchangeInv, Begun
  <1>4. WireInv
    BY <1>1 DEF Init, Begun, WireInv, FirstRequest, Asking, Request, AnswersReachTheirPrompt, Methods
  <1>5. AdmissionInv
    <2>1. server \in Servers
      BY DEF Init
    <2>2. PICK s \in Scenarios, installed \in BOOLEAN : server = NewClient(s, installed)
      BY <2>1 DEF Servers
    <2>3. ServerInv(server)
      BY <2>2, AuthenticationAssumption DEF NewClient, ServerInv, ServerState
    <2> QED
      BY <1>1, <2>3, NoneAssumption DEF Init, AdmissionInv, FirstRequest, Asking, Begun
  <1>6. ChannelInv /\ AppInv
    BY AuthenticationAssumption DEF Init, ChannelInv, AppInv
  <1> QED
    BY <1>2, <1>3, <1>4, <1>5, <1>6 DEF IInv

\* The step of the machine a step of the client rests on, and what the rest of it keeps.
ClientStep ==
    /\ IInv
    /\ run.phase # "done"
    /\ MachineInv(machine') /\ Spent(machine') >= Spent(machine)
    /\ server' = server
    /\ ChannelInv'

LEMMA FinishKeeps ==
    ASSUME ClientStep, NEW outcome \in Outcome, Finish(outcome),
           outcome = "authenticated" => Admitted(server)
    PROVE  IInv'
  <1>1. RunInv'
    BY DEF ClientStep, IInv, RunInv, Finish
  <1>2. ExchangeInv'
    <2>1. run'.requests = run.requests
      BY DEF ClientStep, IInv, RunInv, Finish
    <2> QED
      BY <2>1, SpentBounds DEF ClientStep, IInv, RunInv, ExchangeInv
  <1>3. wire' = [request |-> None, reply |-> None]
    BY DEF Finish, NoWire
  <1>4. WireInv'
    BY <1>3 DEF WireInv, AnswersReachTheirPrompt
  <1>5. AdmissionInv'
    BY <1>3 DEF ClientStep, IInv, RunInv, AdmissionInv, Finish
  <1>6. AppInv'
    BY DEF ClientStep, IInv, AppInv, Finish
  <1> QED
    BY <1>1, <1>2, <1>4, <1>5, <1>6 DEF IInv, ClientStep

LEMMA SendKeeps ==
    ASSUME ClientStep, Spent(machine') >= Spent(machine) + 1,
           NEW method \in Methods, NEW values, NEW typedFor, Send(method, values, typedFor),
           \/ typedFor = None
           \/ typedFor = [layer |-> run.layer,
                          round |-> IF method = "respond" THEN machine'.nextRound - 1 ELSE 0]
    PROVE  IInv'
  <1>1. run'.requests \in {run.requests, run.requests + 1} /\ RunInv'
    <2>1. run.requests \in Nat
      BY DEF ClientStep, IInv, RunInv
    <2>2. Counted(run.requests) \in {run.requests, run.requests + 1} /\ Counted(run.requests) \in Nat
      BY <2>1 DEF Counted
    <2>3. run' = [run EXCEPT !.phase = "exchange", !.asked = None, !.requests = Counted(run.requests)]
      BY DEF Send
    <2> QED
      BY <2>2, <2>3 DEF ClientStep, IInv, RunInv
  <1>2. ExchangeInv'
    BY <1>1, SpentBounds DEF ClientStep, IInv, RunInv, ExchangeInv
  <1>3. wire' = [request |-> [method |-> method, values |-> values, typedFor |-> typedFor],
                 reply |-> None]
    BY DEF Send, Asking, Request
  <1>4. run'.layer = run.layer /\ run'.phase = "exchange" /\ run'.outcome = run.outcome
    BY DEF ClientStep, IInv, RunInv, Send
  <1>5. WireInv'
    BY <1>3, <1>4 DEF WireInv, AnswersReachTheirPrompt
  <1>6. AdmissionInv'
    BY <1>3, <1>4 DEF ClientStep, IInv, AdmissionInv
  <1>7. AppInv'
    BY DEF ClientStep, IInv, AppInv, Send
  <1> QED
    BY <1>1, <1>2, <1>5, <1>6, <1>7 DEF IInv, ClientStep

LEMMA PromptKeeps ==
    ASSUME ClientStep, NEW kind \in Kind, NEW round, NEW prompts,
           kind # "responses" => round = 0,
           Prompt(kind, round, prompts)
    PROVE  IInv'
  <1>1. CASE Finish("callback")
    BY <1>1, FinishKeeps DEF Outcome, Failure
  <1>2. CASE /\ run' = [run EXCEPT !.phase = "command", !.asked = kind]
             /\ wire' = NoWire
             /\ app' = [app EXCEPT !.prompt = Answer(run.layer, kind, round, prompts)]
    <2>1. run'.requests = run.requests /\ run'.outcome = run.outcome /\ RunInv'
      BY <1>2 DEF ClientStep, IInv, RunInv
    <2>2. ExchangeInv'
      BY <2>1, SpentBounds DEF ClientStep, IInv, RunInv, ExchangeInv
    <2>3. wire' = [request |-> None, reply |-> None]
      BY <1>2 DEF NoWire
    <2>4. WireInv'
      BY <2>3 DEF WireInv, AnswersReachTheirPrompt
    <2>5. AdmissionInv'
      BY <2>1, <2>3 DEF ClientStep, IInv, AdmissionInv
    <2>6. AnswerInv(Answer(run.layer, kind, round, prompts))
      BY DEF AnswerInv, Answer
    <2>7. AppInv'
      BY <1>2, <2>6 DEF ClientStep, IInv, AppInv
    <2> QED
      BY <2>1, <2>2, <2>4, <2>5, <2>7 DEF IInv, ClientStep
  <1> QED
    BY <1>1, <1>2 DEF Prompt

-----------------------------------------------------------------------------
(* One step for each action.                                                *)

LEMMA PaidStep ==
    ASSUME IInv, run.phase # "done", NEW next, Paid(machine, next), machine' = next.machine,
           server' = server, ChannelInv'
    PROVE  ClientStep
  BY DEF ClientStep, Paid

LEMMA RestingStep ==
    ASSUME IInv, run.phase # "done", machine' = machine, server' = server, ChannelInv'
    PROVE  ClientStep
  <1>1. MachineInv(machine) /\ Spent(machine) \in Nat
    BY SpentBounds DEF IInv, ExchangeInv
  <1>2. Spent(machine') = Spent(machine) /\ MachineInv(machine')
    BY <1>1
  <1> QED
    BY <1>1, <1>2 DEF ClientStep

LEMMA ServerAnswersKeeps ==
    ASSUME IInv, ServerAnswers
    PROVE  IInv'
  <1>1. PICK r \in ServerReplies(server, wire.request) :
            server' = r.server /\ wire' = [wire EXCEPT !.reply = r.reply]
    BY DEF ServerAnswers
  <1>2. Sound(r)
    <2>1. ServerInv(server) /\ wire.request.method \in Methods
      BY DEF IInv, AdmissionInv, WireInv, ServerAnswers
    <2> QED
      BY <2>1, ServerRepliesSound
  <1>3. wire' = [request |-> wire.request, reply |-> r.reply]
    BY <1>1 DEF IInv, WireInv
  <1>4. run.outcome # "authenticated"
    BY DEF ServerAnswers, IInv, WireInv, RunInv
  <1>5. AdmissionInv'
    BY <1>1, <1>2, <1>3, <1>4 DEF ServerAnswers, AdmissionInv, Sound
  <1>6. WireInv'
    BY <1>3 DEF ServerAnswers, IInv, WireInv, AnswersReachTheirPrompt
  <1>7. RunInv' /\ ExchangeInv' /\ ChannelInv' /\ AppInv'
    BY DEF ServerAnswers, IInv, RunInv, ExchangeInv, ChannelInv, AppInv
  <1> QED
    BY <1>5, <1>6, <1>7 DEF IInv

LEMMA OnFailureReplyKeeps ==
    ASSUME IInv, run.phase = "exchange", NEW reply, reply.partial \in BOOLEAN,
           OnFailureReply(reply), server' = server, channel' = channel
    PROVE  IInv'
  <1> DEFINE next == SelectNextMethod(machine, reply.offered \cap AuthMethodKind, reply.partial)
  <1>1. Paid(machine, next)
    BY SelectNextMethodPaid DEF IInv, ExchangeInv
  <1>2. machine' = next.machine
    BY DEF OnFailureReply
  <1>3. ChannelInv'
    BY DEF IInv, ChannelInv
  <1>4. ClientStep
    BY <1>1, <1>2, <1>3, PaidStep
  <1>5. next.action \in {"AttemptPublicKey", "StartKeyboardInteractive"} =>
          Spent(machine') >= Spent(machine) + 1
    BY <1>1, <1>2 DEF Paid
  <1>6. next.action \in AuthFailure \cup {"AttemptPublicKey", "RequestPrivateKeyPassphrase",
                                         "RequestPassword", "StartKeyboardInteractive"}
    BY DEF SelectNextMethod, Try, Then, NextMethod, AuthFailure
  <1>7. CASE next.action = "AttemptPublicKey"
    <2>1. SendPublicKey(TRUE, None)
      BY <1>7 DEF OnFailureReply
    <2>2. "publickey" \in Methods /\ "key" \in Outcome
      BY DEF Methods, Outcome, Failure
    <2> QED
      BY <1>4, <1>5, <1>7, <2>1, <2>2, SendKeeps, FinishKeeps DEF SendPublicKey
  <1>8. CASE next.action \in {"RequestPrivateKeyPassphrase", "RequestPassword"}
    <2>1. Prompt("passphrase", 0, <<"passphrase">>) \/ Prompt("password", 0, <<"password">>)
      BY <1>8 DEF OnFailureReply
    <2> QED
      BY <1>4, <2>1, PromptKeeps DEF Kind
  <1>9. CASE next.action = "StartKeyboardInteractive"
    <2>1. Send("keyboard-interactive", <<>>, None)
      BY <1>9 DEF OnFailureReply
    <2>2. "keyboard-interactive" \in Methods
      BY DEF Methods
    <2> QED
      BY <1>4, <1>5, <1>9, <2>1, <2>2, SendKeeps
  <1>10. CASE next.action \in AuthFailure
    <2>1. Finish(next.action)
      BY <1>10 DEF OnFailureReply, AuthFailure
    <2>2. next.action \in Outcome /\ next.action # "authenticated"
      BY <1>10 DEF AuthFailure, Outcome, Failure
    <2> QED
      BY <1>4, <2>1, <2>2, FinishKeeps
  <1> QED
    BY <1>6, <1>7, <1>8, <1>9, <1>10

LEMMA OnInfoRequestKeeps ==
    ASSUME IInv, run.phase = "exchange", NEW reply, Len(reply.prompts) \in Nat,
           OnInfoRequest(reply), server' = server, channel' = channel
    PROVE  IInv'
  <1> DEFINE next == PresentChallenge(machine, Len(reply.prompts))
  <1>1. Paid(machine, next)
    BY PresentChallengePaid DEF IInv, ExchangeInv
  <1>2. machine' = next.machine
    BY DEF OnInfoRequest
  <1>3. ChannelInv'
    BY DEF IInv, ChannelInv
  <1>4. ClientStep
    BY <1>1, <1>2, <1>3, PaidStep
  <1>5. next.action \in AuthFailure \cup {"PresentChallenge"}
    BY DEF PresentChallenge, Then, AuthFailure
  <1>6. CASE next.action = "PresentChallenge"
    <2>1. Prompt("responses", next.machine.pending.round, reply.prompts)
      BY <1>6 DEF OnInfoRequest
    <2> QED
      BY <1>4, <2>1, PromptKeeps DEF Kind
  <1>7. CASE next.action # "PresentChallenge"
    <2>1. Finish(next.action)
      BY <1>7 DEF OnInfoRequest
    <2>2. next.action \in Outcome /\ next.action # "authenticated"
      BY <1>5, <1>7 DEF AuthFailure, Outcome, Failure
    <2> QED
      BY <1>4, <2>1, <2>2, FinishKeeps
  <1> QED
    BY <1>6, <1>7

LEMMA TakeReplyKeeps ==
    ASSUME IInv, TakeReply
    PROVE  IInv'
  <1>1. /\ run.phase = "exchange" /\ ReplyInv(server, wire.reply)
        /\ server' = server /\ channel' = channel
    BY DEF TakeReply, IInv, AdmissionInv
  <1>2. CASE wire.reply.kind = "success" /\ Finish("authenticated") /\ UNCHANGED machine
    <2>1. Admitted(server)
      BY <1>1, <1>2 DEF ReplyInv
    <2>2. ChannelInv'
      BY <1>1 DEF IInv, ChannelInv
    <2>3. ClientStep
      BY <1>1, <1>2, <2>2, RestingStep
    <2>4. "authenticated" \in Outcome
      BY DEF Outcome
    <2> QED
      BY <1>2, <2>1, <2>3, <2>4, FinishKeeps
  <1>3. CASE wire.reply.kind = "failure" /\ OnFailureReply(wire.reply)
    <2>1. wire.reply.partial \in BOOLEAN
      BY <1>1, <1>3 DEF ReplyInv
    <2> QED
      BY <1>1, <1>3, <2>1, OnFailureReplyKeeps
  <1>4. CASE wire.reply.kind = "info" /\ OnInfoRequest(wire.reply)
    <2>1. Len(wire.reply.prompts) \in Nat
      BY <1>1, <1>4 DEF ReplyInv
    <2> QED
      BY <1>1, <1>4, <2>1, OnInfoRequestKeeps
  <1> QED
    BY <1>2, <1>3, <1>4 DEF TakeReply

LEMMA UseAnswerKeeps ==
    ASSUME IInv, run.phase = "command", NEW answer, AnswerInv(answer), answer.layer = run.layer,
           UseAnswer(answer), server' = server, ChannelInv'
    PROVE  IInv'
  <1> DEFINE next == CASE answer.kind = "passphrase" -> SubmitPrivateKeyPassphrase(machine)
                       [] answer.kind = "password" -> SubmitPassword(machine)
                       [] answer.kind = "responses" ->
                             ValidateResponses(machine, answer.round, Len(answer.values))
  <1> HIDE DEF next
  <1>1. MachineInv(machine)
    BY DEF IInv, ExchangeInv
  <1>2. /\ Paid(machine, next)
        /\ next.action \in AuthFailure \cup {"AttemptPublicKey", "Submitted"}
        /\ next.action = "Submitted" =>
              \/ answer.kind = "password"
              \/ answer.kind = "responses" /\ answer.round = next.machine.nextRound - 1
        /\ next.action = "AttemptPublicKey" => answer.kind = "passphrase"
    <2>1. CASE answer.kind = "passphrase"
      <3>1. next = SubmitPrivateKeyPassphrase(machine)
        BY <2>1 DEF next
      <3>2. next.action \in {"UnexpectedCredential", "AttemptPublicKey"}
        BY <3>1 DEF SubmitPrivateKeyPassphrase, Then
      <3>3. Paid(machine, next)
        BY <1>1, <3>1, PassphrasePaid
      <3> QED
        BY <2>1, <3>2, <3>3 DEF AuthFailure
    <2>2. CASE answer.kind = "password"
      <3>1. next = SubmitPassword(machine)
        BY <2>2 DEF next
      <3>2. next.action \in {"UnexpectedCredential", "Submitted"}
        BY <3>1 DEF SubmitPassword, Then
      <3>3. Paid(machine, next)
        BY <1>1, <3>1, PasswordPaid
      <3> QED
        BY <2>2, <3>2, <3>3 DEF AuthFailure
    <2>3. CASE answer.kind = "responses"
      <3>1. next = ValidateResponses(machine, answer.round, Len(answer.values))
        BY <2>3 DEF next
      <3>2. next.action \in {"UnexpectedChallenge", "StaleChallenge", "ResponseCountMismatch", "Submitted"}
        BY <3>1 DEF ValidateResponses, Then
      <3>3. Paid(machine, next) /\ (next.action = "Submitted" => answer.round = next.machine.nextRound - 1)
        BY <1>1, <3>1, ValidateResponsesPaid
      <3> QED
        BY <2>3, <3>2, <3>3 DEF AuthFailure
    <2> QED
      BY <2>1, <2>2, <2>3 DEF AnswerInv, Kind
  <1>3. machine' = next.machine
    BY DEF UseAnswer, next
  <1>4. /\ next.action \in AuthFailure => Finish(next.action)
        /\ next.action = "AttemptPublicKey" =>
              SendPublicKey(answer.values = <<"passphrase">>, PromptOf(answer))
        /\ next.action = "Submitted" =>
              IF answer.kind = "password" THEN Send("password", answer.values, PromptOf(answer))
              ELSE Send("respond", answer.values, PromptOf(answer))
    BY DEF UseAnswer, AuthFailure, next
  <1>5. ClientStep
    BY <1>2, <1>3, PaidStep
  <1>6. next.action \in {"AttemptPublicKey", "Submitted"} => Spent(machine') >= Spent(machine) + 1
    BY <1>2, <1>3 DEF Paid
  <1>7. PromptOf(answer) = [layer |-> run.layer, round |-> answer.round]
    BY DEF PromptOf
  <1>8. CASE next.action \in AuthFailure
    <2>1. next.action \in Outcome /\ next.action # "authenticated"
      BY <1>8 DEF AuthFailure, Outcome, Failure
    <2> QED
      BY <1>4, <1>5, <1>8, <2>1, FinishKeeps
  <1>9. CASE next.action = "AttemptPublicKey"
    <2>1. "publickey" \in Methods /\ "key" \in Outcome
      BY DEF Methods, Outcome, Failure
    <2>2. answer.round = 0
      BY <1>2, <1>9 DEF AnswerInv
    <2>3. Send("publickey", <<>>, PromptOf(answer)) \/ Finish("key")
      BY <1>4, <1>9 DEF SendPublicKey
    <2> QED
      BY <1>5, <1>6, <1>7, <1>9, <2>1, <2>2, <2>3, SendKeeps, FinishKeeps
  <1>10. CASE next.action = "Submitted" /\ answer.kind = "password"
    <2>1. Send("password", answer.values, PromptOf(answer))
      BY <1>4, <1>10
    <2>2. answer.round = 0 /\ "password" \in Methods
      BY <1>10 DEF AnswerInv, Methods
    <2> QED
      BY <1>5, <1>6, <1>7, <1>10, <2>1, <2>2, SendKeeps
  <1>11. CASE next.action = "Submitted" /\ answer.kind # "password"
    <2>1. Send("respond", answer.values, PromptOf(answer))
      BY <1>4, <1>11
    <2>2. answer.round = machine'.nextRound - 1 /\ "respond" \in Methods
      BY <1>2, <1>3, <1>11 DEF Methods
    <2> QED
      BY <1>5, <1>6, <1>7, <1>11, <2>1, <2>2, SendKeeps
  <1> QED
    BY <1>2, <1>8, <1>9, <1>10, <1>11

LEMMA TakeCommandKeeps ==
    ASSUME IInv, TakeCommand
    PROVE  IInv'
  <1> DEFINE answer == channel.answer
  <1>1. /\ run.phase = "command" /\ AnswerInv(answer) /\ server' = server
        /\ channel' = [channel EXCEPT !.answer = None]
    BY DEF TakeCommand, IInv, ChannelInv
  <1>2. ChannelInv'
    BY <1>1 DEF IInv, ChannelInv
  <1>3. CASE UNCHANGED <<machine, run, wire, app>>
    BY <1>1, <1>2, <1>3
    DEF IInv, RunInv, ExchangeInv, WireInv, AnswersReachTheirPrompt, AdmissionInv, AppInv
  <1>4. CASE Finish("UnexpectedCredential") /\ UNCHANGED machine
    <2>1. ClientStep
      BY <1>1, <1>2, <1>4, RestingStep
    <2>2. "UnexpectedCredential" \in Outcome
      BY DEF Outcome, Failure, AuthFailure
    <2> QED
      BY <1>4, <2>1, <2>2, FinishKeeps
  <1>5. CASE ForThisLayer(answer) /\ UseAnswer(answer)
    <2>1. answer.layer = run.layer
      BY <1>5 DEF ForThisLayer
    <2> QED
      BY <1>1, <1>2, <1>5, <2>1, UseAnswerKeeps
  <1> QED
    BY <1>3, <1>4, <1>5 DEF TakeCommand

\* Deadlines, breaks and disconnect requests.
LEMMA GivingUpKeeps ==
    ASSUME IInv, ExchangeFails \/ ResponseTimesOut \/ Cancelled
    PROVE  IInv'
  <1>1. PICK outcome \in {"exchange", "response timed out", "cancelled"} : Finish(outcome)
    BY DEF ExchangeFails, ResponseTimesOut, Cancelled
  <1>2. ChannelInv'
    BY DEF ExchangeFails, ResponseTimesOut, Cancelled, IInv, ChannelInv
  <1>3. run.phase # "done" /\ machine' = machine /\ server' = server
    BY DEF ExchangeFails, ResponseTimesOut, Cancelled
  <1>4. ClientStep
    BY <1>2, <1>3, RestingStep
  <1>5. outcome \in Outcome /\ outcome # "authenticated"
    BY <1>1 DEF Outcome, Failure
  <1> QED
    BY <1>1, <1>4, <1>5, FinishKeeps

LEMMA ProceedToTargetKeeps ==
    ASSUME IInv, ProceedToTarget
    PROVE  IInv'
  <1>1. /\ machine' \in Machines /\ run' = Begun("target") /\ wire' = FirstRequest
        /\ server' \in Servers /\ channel' = channel
    BY DEF ProceedToTarget
  <1>2. RunInv'
    BY <1>1, NoneAssumption DEF Begun, RunInv, Outcome, Layer
  <1>3. ExchangeInv'
    BY <1>1, NewMachineSound DEF ExchangeInv, Begun
  <1>4. WireInv'
    BY <1>1 DEF Begun, WireInv, FirstRequest, Asking, Request, AnswersReachTheirPrompt, Methods
  <1>5. AdmissionInv'
    <2>1. PICK s \in Scenarios, installed \in BOOLEAN : server' = NewClient(s, installed)
      BY <1>1 DEF Servers
    <2>2. ServerInv(server')
      BY <2>1, AuthenticationAssumption DEF NewClient, ServerInv, ServerState
    <2> QED
      BY <1>1, <2>2, NoneAssumption DEF AdmissionInv, FirstRequest, Asking, Begun
  <1>6. ChannelInv' /\ AppInv'
    BY DEF ProceedToTarget, IInv, ChannelInv, AppInv
  <1> QED
    BY <1>2, <1>3, <1>4, <1>5, <1>6 DEF IInv

LEMMA ApplicationKeeps ==
    ASSUME IInv, UserAnswers \/ Misuse \/ Disconnect
    PROVE  IInv'
  <1>1. UNCHANGED <<machine, run, wire, server>>
    BY DEF UserAnswers, Misuse, Disconnect, Deliver
  <1>2. RunInv' /\ ExchangeInv' /\ WireInv' /\ AdmissionInv'
    BY <1>1 DEF IInv, RunInv, ExchangeInv, WireInv, AnswersReachTheirPrompt, AdmissionInv
  <1>3. CASE UserAnswers
    <2>1. PICK right \in BOOLEAN :
             /\ Deliver(IF right THEN app.prompt
                        ELSE [app.prompt EXCEPT !.values = [i \in DOMAIN @ |-> "wrong"]])
             /\ app' = [app EXCEPT !.prompt = None, !.erred = @ \/ ~right]
      BY <1>3 DEF UserAnswers
    <2>2. AnswerInv(app.prompt)
      BY <1>3 DEF UserAnswers, IInv, AppInv
    <2>3. AnswerInv([app.prompt EXCEPT !.values = [i \in DOMAIN @ |-> "wrong"]])
      BY <2>2 DEF AnswerInv
    <2>4. PICK answer : AnswerInv(answer) /\ Deliver(answer)
      BY <2>1, <2>2, <2>3
    <2>5. ChannelInv'
      BY <2>4 DEF Deliver, IInv, ChannelInv
    <2>6. AppInv'
      BY <2>1 DEF IInv, AppInv
    <2> QED
      BY <1>2, <2>5, <2>6 DEF IInv
  <1>4. CASE Misuse
    <2>1. PICK layer \in Layer, kind \in Kind :
             Deliver(Answer(layer, kind, IF kind = "responses" THEN 1 ELSE 0, <<"wrong">>))
      BY <1>4 DEF Misuse
    <2>2. AnswerInv(Answer(layer, kind, IF kind = "responses" THEN 1 ELSE 0, <<"wrong">>))
      BY DEF Answer, AnswerInv
    <2>3. ChannelInv'
      BY <2>1, <2>2 DEF Deliver, IInv, ChannelInv
    <2>4. AppInv'
      BY <1>4, AuthenticationAssumption DEF Misuse, IInv, AppInv
    <2> QED
      BY <1>2, <2>3, <2>4 DEF IInv
  <1>5. CASE Disconnect
    BY <1>2, <1>5 DEF Disconnect, IInv, ChannelInv, AppInv
  <1> QED
    BY <1>3, <1>4, <1>5

-----------------------------------------------------------------------------
(* The theorems.                                                            *)

LEMMA StepKeeps ==
    ASSUME IInv, [Next]_vars
    PROVE  IInv'
  <1>1. CASE TakeReply
    BY <1>1, TakeReplyKeeps
  <1>2. CASE TakeCommand
    BY <1>2, TakeCommandKeeps
  <1>3. CASE ExchangeFails \/ ResponseTimesOut \/ Cancelled
    BY <1>3, GivingUpKeeps
  <1>4. CASE ServerAnswers
    BY <1>4, ServerAnswersKeeps
  <1>5. CASE ProceedToTarget
    BY <1>5, ProceedToTargetKeeps
  <1>6. CASE UserAnswers \/ Misuse \/ Disconnect
    BY <1>6, ApplicationKeeps
  <1>7. CASE UNCHANGED vars
    BY <1>7 DEF vars, IInv, RunInv, ExchangeInv, WireInv, AnswersReachTheirPrompt, AdmissionInv,
                ChannelInv, AppInv
  <1> QED
    BY <1>1, <1>2, <1>3, <1>4, <1>5, <1>6, <1>7 DEF Next, Client

THEOREM IInvHolds == Spec => []IInv
  BY InitHolds, StepKeeps, PTL DEF Spec

\* Every state is made of what the client and the application can hold (TypeOK).
THEOREM TypeCorrect == Spec => []TypeOK
  <1>1. IInv => TypeOK
    BY DEF IInv, RunInv, ExchangeInv, MachineInv, ChannelInv, AppInv, TypeOK
  <1> QED
    BY <1>1, IInvHolds, PTL

\* For all limits, and whatever the server replies, run_authentication sends a
\* bounded number of requests in a layer (BoundedExchange): every one is paid for
\* by a stage, a method of that stage or a round.
THEOREM ExchangeBounded == Spec => []BoundedExchange
  <1>1. IInv => BoundedExchange
    <2>1. RequestBound \in Nat
      BY LimitsAssumption DEF RequestBound
    <2>2. IInv => /\ run.requests \in Nat /\ run.requests <= 1 + Spent(machine)
                  /\ Spent(machine) \in Nat /\ Spent(machine) + 1 <= RequestBound
      BY SpentBounds DEF IInv, RunInv, ExchangeInv
    <2> QED
      BY <2>1, <2>2 DEF BoundedExchange
  <1> QED
    BY <1>1, IInvHolds, PTL

\* An answer typed for one prompt is never sent as the answer to another, of
\* another layer or of another round (AnswersReachTheirPrompt), misuses included.
THEOREM AnswersReach == Spec => []AnswersReachTheirPrompt
  <1>1. IInv => AnswersReachTheirPrompt
    BY DEF IInv, WireInv
  <1> QED
    BY <1>1, IInvHolds, PTL

\* The repository's server says success only to a client that has shown every
\* factor of its scenario (AcceptedMeansProved), however the exchange went.
THEOREM AdmittedHaveProved == Spec => []AcceptedMeansProved
  <1>1. IInv => AcceptedMeansProved
    BY DEF IInv, AdmissionInv, Admitted, AcceptedMeansProved
  <1> QED
    BY <1>1, IInvHolds, PTL
-----------------------------------------------------------------------------
(* An honest user: nobody calls the functions of the application without a  *)
(* prompt.                                                                  *)

Guard == {"UnexpectedCredential", "UnexpectedChallenge", "StaleChallenge", "ResponseCountMismatch"}
Refusal == {"Rejected", "NoSupportedMethod", "ProtocolLimitExceeded"}

Interactive == {"keyboard-interactive", "respond"}

\* The prompt on the screen, or its answer on the way.
Question(a, c) == IF a.prompt # None THEN a.prompt ELSE c.answer

NoQuestion(a, c) == a.prompt = None /\ c.answer = None

\* Nothing is asked of the user while a request is under way, and challenges come only
\* to those who have asked for one.
AskingInv(m, w) ==
    /\ m.waitingFor = None /\ m.pending = None
    /\ w.reply # None => w.reply \in ReplyRecord
    /\ w.request.method \in Interactive => "keyboard-interactive" \in m.attempted
    /\ w.reply # None /\ w.reply.kind = "info" => w.request.method \in Interactive

\* The question is the one the machine waits to have answered.
AskedInv(m, layer, asked, q) ==
    /\ q \in AnswerRecord /\ q.layer = layer /\ q.kind = asked
    /\ asked \in {"passphrase", "password"} => m.waitingFor = asked /\ m.pending = None
    /\ asked = "responses" =>
        /\ m.waitingFor = None
        /\ "keyboard-interactive" \in m.attempted
        /\ m.pending # None
        /\ q.round = m.pending.round /\ Len(q.values) = m.pending.prompts

\* What the repository's server waits to be shown next.
Goal(s) ==
    CASE s.scenario \in {"Password", "KeyInstall"} -> "password"
      [] s.scenario = "PublicKey" -> "publickey"
      [] s.scenario = "PasswordKeyboardInteractive" ->
            IF s.passwordComplete THEN "keyboard-interactive" ELSE "password"
      [] s.scenario = "PublicKeyPassword" ->
            IF s.publicKeyComplete THEN "password" ELSE "publickey"
      [] s.scenario = "PublicKeyKeyboardInteractive" ->
            IF s.publicKeyComplete THEN "keyboard-interactive" ELSE "publickey"
      [] OTHER -> "keyboard-interactive"

Expected(s) ==
    CASE s.scenario = "KeyboardInteractiveZeroPrompt" -> <<>>
      [] s.scenario = "KeyboardInteractiveMultiRound" ->
            IF s.waitingForSecond THEN <<"second token">> ELSE <<"account">>
      [] OTHER -> <<"account", "token">>

\* The first of two factors has been shown.
Halfway(s) ==
    \/ s.scenario = "PasswordKeyboardInteractive" /\ s.passwordComplete
    \/ s.scenario \in {"PublicKeyPassword", "PublicKeyKeyboardInteractive"} /\ s.publicKeyComplete

StageOf(s) == IF Halfway(s) THEN 2 ELSE 1
RoundOf(s) == IF s.waitingForSecond THEN 2 ELSE 1

\* No challenge has been answered yet.
Fresh(m, s) == m.rounds = 0 /\ ~s.waitingForSecond

\* The way to the goal is open: it has not been tried in this stage.
Untried(m, s) == Fresh(m, s) /\ m.stages = StageOf(s) /\ Goal(s) \notin m.attempted

RequestHope(m, s, q) ==
    /\ q.method = "password" => q.values = <<"password">>
    /\ q.method = "respond" =>
        Goal(s) = "keyboard-interactive" /\ q.values = Expected(s) /\ m.rounds = RoundOf(s)
    /\ q.method = Goal(s) => Fresh(m, s) /\ m.stages = StageOf(s)
    /\ q.method \notin {"respond", Goal(s)} => StageOf(s) = 1 /\ Untried(m, s)

ReplyHope(m, s, r) ==
    /\ r.kind = "failure" /\ r.partial =>
        r.offered = {Goal(s)} /\ Fresh(m, s) /\ m.stages = 1 /\ StageOf(s) = 2
    /\ r.kind = "failure" /\ ~r.partial =>
        Goal(s) \in r.offered /\ StageOf(s) = 1 /\ Untried(m, s)
    /\ r.kind = "info" =>
        Goal(s) = "keyboard-interactive" /\ r.prompts = Expected(s) /\ m.rounds = RoundOf(s) - 1

CommandHope(m, s, asked, values) ==
    /\ asked = "responses" =>
        Goal(s) = "keyboard-interactive" /\ values = Expected(s) /\ m.rounds = RoundOf(s)
    /\ asked = "password" =>
        values = <<"password">> /\ Untried(m, s) /\ (Goal(s) = "password" \/ StageOf(s) = 1)
    /\ asked = "passphrase" =>
        values = <<"passphrase">> /\ Untried(m, s) /\ (Goal(s) = "publickey" \/ StageOf(s) = 1)

\* A server that can be satisfied by a client that makes no mistakes and has the key.
Served(m, s) ==
    /\ s \in ServerState /\ s.scenario \notin {"any", "UnsupportedMethod", "unknown"}
    /\ s.scenario \in NeedsKey => m.hasKey

HopeInv(m, s, rn, w, q) ==
    /\ rn.phase = "exchange" /\ w.reply = None => RequestHope(m, s, w.request)
    /\ rn.phase = "exchange" /\ w.reply # None => ReplyHope(m, s, w.reply)
    /\ rn.phase = "command" => CommandHope(m, s, rn.asked, q.values)
    /\ rn.outcome \notin Refusal

Honest ==
    /\ run.outcome \notin Guard
    /\ run.phase = "exchange" => NoQuestion(app, channel) /\ AskingInv(machine, wire)
    /\ run.outcome = "authenticated" => NoQuestion(app, channel)
    /\ run.phase = "command" =>
        /\ app.prompt = None <=> channel.answer # None
        /\ AskedInv(machine, run.layer, run.asked, Question(app, channel))
    /\ Served(machine, server) /\ ~app.erred =>
        HopeInv(machine, server, run, wire, Question(app, channel))

HonestInv == app.misuses = 0 => Honest

-----------------------------------------------------------------------------
(* The repository's server, asked by a client on its way.                   *)

\* What a reply leaves of the hope.
Hopeful(m, s, r) == r.server.scenario = s.scenario /\ ReplyHope(m, r.server, r.reply)

LEMMA RejectHopeful ==
    ASSUME NEW m, NEW s \in ServerState, StageOf(s) = 1, Untried(m, s), NEW methods, Goal(s) \in methods
    PROVE  Hopeful(m, s, Reply(s, Reject(methods, FALSE)))
  BY DEF Hopeful, Reply, Reject, ReplyHope

LEMMA AcceptHopeful ==
    ASSUME NEW m, NEW s, NEW t, t.scenario = s.scenario
    PROVE  Hopeful(m, s, Reply(t, Accept))
  BY DEF Hopeful, Reply, Accept, ReplyHope

\* A factor has been shown, and the server asks for the next.
LEMMA RejectedHopeful ==
    ASSUME NEW m, NEW s, NEW t, t.scenario = s.scenario, Fresh(m, t), m.stages = 1, StageOf(t) = 2
    PROVE  Hopeful(m, s, Reply(t, Reject({Goal(t)}, TRUE)))
  BY DEF Hopeful, Reply, Reject, ReplyHope

\* A challenge is presented.
LEMMA ChallengeHopeful ==
    ASSUME NEW m, NEW s, NEW t, t.scenario = s.scenario, Goal(t) = "keyboard-interactive",
           m.rounds = RoundOf(t) - 1
    PROVE  Hopeful(m, s, Reply(t, InteractivePrompt(Expected(t))))
  BY DEF Hopeful, Reply, InteractivePrompt, ReplyHope

LEMMA InitialMethodsGoal ==
    ASSUME NEW m, NEW s, Served(m, s), StageOf(s) = 1
    PROVE  Goal(s) \in InitialMethods(s.scenario)
  BY DEF Served, ServerState, Scenario, StageOf, Halfway, Goal, InitialMethods

LEMMA GoalIsMethod ==
    ASSUME NEW m, NEW s, Served(m, s)
    PROVE  Goal(s) \in AuthMethodKind
  BY DEF Served, ServerState, Scenario, Goal, AuthMethodKind

LEMMA OnNoneHopeful ==
    ASSUME NEW m, NEW s, Served(m, s), StageOf(s) = 1, Untried(m, s)
    PROVE  Hopeful(m, s, OnNone(s))
  <1>1. Goal(s) \in {"publickey", "password", "keyboard-interactive", "hostbased"}
    BY GoalIsMethod DEF AuthMethodKind
  <1>2. s.scenario # "UnsupportedMethod" /\ s \in ServerState
    BY DEF Served
  <1> QED
    BY <1>1, <1>2, RejectHopeful DEF OnNone

LEMMA OnPasswordHopeful ==
    ASSUME NEW m, NEW s, Served(m, s), NEW q, q.method = "password", RequestHope(m, s, q)
    PROVE  Hopeful(m, s, OnPassword(s, "password"))
  <1> DEFINE shown == Proved(s, {"password"})
  <1>1. /\ shown \in ServerState /\ shown.scenario = s.scenario
        /\ shown.passwordComplete = s.passwordComplete
        /\ shown.publicKeyComplete = s.publicKeyComplete
        /\ shown.waitingForSecond = s.waitingForSecond
    BY DEF Served, ServerState, Proved, Factor
  <1>2. Goal(shown) = Goal(s) /\ StageOf(shown) = StageOf(s) /\ (Untried(m, s) => Untried(m, shown))
    BY <1>1 DEF Goal, StageOf, Halfway, Untried, Fresh
  <1>3. /\ Goal(s) = "password" => Fresh(m, s) /\ m.stages = StageOf(s)
        /\ Goal(s) # "password" => StageOf(s) = 1 /\ Untried(m, s)
    BY DEF RequestHope
  <1> HIDE DEF shown
  <1>4. CASE s.scenario \in {"Password", "KeyInstall"}
    <2>1. OnPassword(s, "password") = Reply(shown, Accept)
      BY <1>4 DEF OnPassword, shown
    <2> QED
      BY <1>1, <2>1, AcceptHopeful
  <1>5. CASE s.scenario = "PasswordKeyboardInteractive"
    <2> DEFINE t == [shown EXCEPT !.passwordComplete = TRUE]
    <2>1. OnPassword(s, "password") = Reply(t, Reject({"keyboard-interactive"}, TRUE))
      BY <1>5 DEF OnPassword, shown
    <2>3. Fresh(m, s) /\ m.stages = 1
      BY <1>3, <1>5 DEF Goal, StageOf, Halfway, Fresh, Untried, Served, ServerState
    <2>4. t.scenario = s.scenario /\ t.passwordComplete = TRUE /\ t.waitingForSecond = s.waitingForSecond
      BY <1>1 DEF ServerState
    <2> HIDE DEF t
    <2>5. Goal(t) = "keyboard-interactive" /\ StageOf(t) = 2 /\ Fresh(m, t)
      BY <1>5, <2>3, <2>4 DEF Goal, StageOf, Halfway, Fresh
    <2> QED
      BY <2>1, <2>3, <2>4, <2>5, RejectedHopeful, Zenon
  <1>6. CASE s.scenario = "PublicKeyPassword"
    <2>1. OnPassword(s, "password") =
            Reply(shown, IF s.publicKeyComplete THEN Accept ELSE Reject({"publickey"}, FALSE))
      BY <1>6 DEF OnPassword, shown
    <2>2. CASE s.publicKeyComplete
      BY <1>1, <2>1, <2>2, AcceptHopeful
    <2>3. CASE ~s.publicKeyComplete
      <3>1. Goal(s) = "publickey"
        BY <1>6, <2>3 DEF Goal
      <3>2. Hopeful(m, shown, Reply(shown, Reject({"publickey"}, FALSE)))
        BY <1>1, <1>2, <1>3, <3>1, RejectHopeful
      <3> QED
        BY <1>1, <2>1, <2>3, <3>2 DEF Hopeful
    <2> QED
      BY <2>2, <2>3
  <1>7. CASE s.scenario \notin {"Password", "KeyInstall", "PasswordKeyboardInteractive", "PublicKeyPassword"}
    <2>1. OnPassword(s, "password") = Reply(shown, Reject(InitialMethods(s.scenario), FALSE))
      BY <1>7 DEF OnPassword, shown, Served
    <2>2. Goal(s) # "password"
      BY <1>7 DEF Goal
    <2>3. Goal(s) \in InitialMethods(s.scenario)
      BY <1>3, <2>2, InitialMethodsGoal
    <2>4. Hopeful(m, shown, Reply(shown, Reject(InitialMethods(s.scenario), FALSE)))
      BY <1>1, <1>2, <1>3, <2>2, <2>3, RejectHopeful
    <2> QED
      BY <1>1, <2>1, <2>4 DEF Hopeful
  <1> QED
    BY <1>4, <1>5, <1>6, <1>7

LEMMA OnPublicKeyHopeful ==
    ASSUME NEW m, NEW s, Served(m, s), NEW q, q.method = "publickey", RequestHope(m, s, q)
    PROVE  Hopeful(m, s, OnPublicKey(s))
  <1> DEFINE shown == Proved(s, {"publickey"})
  <1>1. /\ shown \in ServerState /\ shown.scenario = s.scenario
        /\ shown.passwordComplete = s.passwordComplete
        /\ shown.publicKeyComplete = s.publicKeyComplete
        /\ shown.waitingForSecond = s.waitingForSecond
    BY DEF Served, ServerState, Proved, Factor
  <1>2. Goal(shown) = Goal(s) /\ StageOf(shown) = StageOf(s) /\ (Untried(m, s) => Untried(m, shown))
    BY <1>1 DEF Goal, StageOf, Halfway, Untried, Fresh
  <1>3. /\ Goal(s) = "publickey" => Fresh(m, s) /\ m.stages = StageOf(s)
        /\ Goal(s) # "publickey" => StageOf(s) = 1 /\ Untried(m, s)
    BY DEF RequestHope
  <1> HIDE DEF shown
  <1>4. CASE s.scenario = "PublicKey"
    <2>1. OnPublicKey(s) = Reply(shown, Accept)
      BY <1>4 DEF OnPublicKey, shown
    <2> QED
      BY <1>1, <2>1, AcceptHopeful
  <1>5. CASE s.scenario = "KeyInstall"
    <2>1. OnPublicKey(s) = Reply(shown, IF s.keyInstalled THEN Accept ELSE Reject({"password"}, FALSE))
      BY <1>5 DEF OnPublicKey, shown
    <2>2. Goal(s) = "password"
      BY <1>5 DEF Goal
    <2>3. Hopeful(m, shown, Reply(shown, Reject({"password"}, FALSE)))
      BY <1>1, <1>2, <1>3, <2>2, RejectHopeful
    <2>4. Hopeful(m, s, Reply(shown, Accept))
      BY <1>1, AcceptHopeful
    <2> QED
      BY <1>1, <2>1, <2>3, <2>4 DEF Hopeful
  <1>6. CASE s.scenario \in {"PublicKeyPassword", "PublicKeyKeyboardInteractive"}
    <2> DEFINE t == [shown EXCEPT !.publicKeyComplete = TRUE]
    <2>1. t.scenario = s.scenario /\ t.publicKeyComplete = TRUE /\ t.waitingForSecond = s.waitingForSecond
      BY <1>1 DEF ServerState
    <2>2. \/ s.scenario = "PublicKeyPassword" /\ OnPublicKey(s) = Reply(t, Reject({"password"}, TRUE))
          \/ /\ s.scenario = "PublicKeyKeyboardInteractive"
             /\ OnPublicKey(s) = Reply(t, Reject({"keyboard-interactive"}, TRUE))
      BY <1>6 DEF OnPublicKey, shown
    <2>3. Fresh(m, s) /\ m.stages = 1
      BY <1>3, <1>6 DEF Goal, StageOf, Halfway, Fresh, Untried, Served, ServerState
    <2> HIDE DEF t
    <2>4. OnPublicKey(s) = Reply(t, Reject({Goal(t)}, TRUE)) /\ StageOf(t) = 2 /\ Fresh(m, t)
      BY <2>1, <2>2, <2>3 DEF Goal, StageOf, Halfway, Fresh
    <2> QED
      BY <2>1, <2>3, <2>4, RejectedHopeful, Zenon
  <1>7. CASE s.scenario \notin {"PublicKey", "KeyInstall", "PublicKeyPassword",
                                "PublicKeyKeyboardInteractive"}
    <2>1. OnPublicKey(s) = Reply(s, Reject(InitialMethods(s.scenario), FALSE))
      BY <1>7 DEF OnPublicKey
    <2>2. Goal(s) # "publickey"
      BY <1>7 DEF Goal
    <2>3. Goal(s) \in InitialMethods(s.scenario)
      BY <1>3, <2>2, InitialMethodsGoal
    <2> QED
      BY <1>3, <2>1, <2>2, <2>3, RejectHopeful DEF Served
  <1> QED
    BY <1>4, <1>5, <1>6, <1>7

\* The request that starts the method.
LEMMA OnStartHopeful ==
    ASSUME NEW m, NEW s, Served(m, s), NEW q, q.method = "keyboard-interactive", RequestHope(m, s, q)
    PROVE  Hopeful(m, s, OnKeyboardInteractive(s, <<>>))
  <1>1. /\ Goal(s) = "keyboard-interactive" => Fresh(m, s) /\ m.stages = StageOf(s)
        /\ Goal(s) # "keyboard-interactive" => StageOf(s) = 1 /\ Untried(m, s)
    BY DEF RequestHope
  <1>2. CASE Goal(s) = "keyboard-interactive"
    <2>1. OnKeyboardInteractive(s, <<>>) = Reply(s, InteractivePrompt(Expected(s)))
      <3>1. ~s.waitingForSecond
        BY <1>1, <1>2 DEF Fresh
      <3>2. CASE s.scenario \in {"PasswordKeyboardInteractive", "PublicKeyKeyboardInteractive"}
        BY <1>2, <3>2 DEF Goal, OnKeyboardInteractive, OnTwoValues, Expected
      <3>3. CASE s.scenario = "KeyboardInteractiveMultiRound"
        BY <3>1, <3>3 DEF OnKeyboardInteractive, OnTwoRounds, Expected
      <3>4. CASE s.scenario = "KeyboardInteractiveZeroPrompt"
        BY <3>4 DEF OnKeyboardInteractive, OnNoPrompts, Expected
      <3>5. s.scenario \in {"PasswordKeyboardInteractive", "PublicKeyKeyboardInteractive",
                            "KeyboardInteractiveMultiRound", "KeyboardInteractiveZeroPrompt"}
        BY <1>2 DEF Goal, Served, ServerState, Scenario
      <3> QED
        BY <3>2, <3>3, <3>4, <3>5
    <2> QED
      BY <1>1, <1>2, <2>1, ChallengeHopeful DEF Fresh, RoundOf
  <1>3. CASE Goal(s) # "keyboard-interactive"
    <2>1. PICK methods : OnKeyboardInteractive(s, <<>>) = Reply(s, Reject(methods, FALSE)) /\ Goal(s) \in methods
      <3>1. CASE s.scenario = "PasswordKeyboardInteractive"
        BY <1>3, <3>1 DEF Goal, OnKeyboardInteractive
      <3>2. CASE s.scenario = "PublicKeyKeyboardInteractive"
        BY <1>3, <3>2 DEF Goal, OnKeyboardInteractive
      <3>3. CASE s.scenario \notin {"PasswordKeyboardInteractive", "PublicKeyKeyboardInteractive"}
        <4>1. s.scenario \notin {"KeyboardInteractiveMultiRound", "KeyboardInteractiveZeroPrompt"}
          BY <1>3 DEF Goal
        <4>2. OnKeyboardInteractive(s, <<>>) = Reply(s, Reject(InitialMethods(s.scenario), FALSE))
          BY <3>3, <4>1 DEF OnKeyboardInteractive
        <4> QED
          BY <1>1, <1>3, <4>2, InitialMethodsGoal
      <3> QED
        BY <3>1, <3>2, <3>3
    <2> QED
      BY <1>1, <1>3, <2>1, RejectHopeful DEF Served
  <1> QED
    BY <1>2, <1>3

\* An answer to a challenge.
LEMMA OnRespondHopeful ==
    ASSUME NEW m, NEW s, Served(m, s), NEW q, q.method = "respond", RequestHope(m, s, q)
    PROVE  Hopeful(m, s, OnKeyboardInteractive(s, <<q.values>>))
  <1>1. /\ Goal(s) = "keyboard-interactive" /\ q.values = Expected(s) /\ m.rounds = RoundOf(s)
    BY DEF RequestHope
  <1>2. s.scenario \in {"PasswordKeyboardInteractive", "PublicKeyKeyboardInteractive",
                        "KeyboardInteractiveMultiRound", "KeyboardInteractiveZeroPrompt"}
    BY <1>1 DEF Goal, Served, ServerState, Scenario
  <1>3. CASE s.scenario \in {"PasswordKeyboardInteractive", "PublicKeyKeyboardInteractive"}
    <2>1. OnKeyboardInteractive(s, <<q.values>>) = OnTwoValues(s, << <<"account", "token">> >>)
      BY <1>1, <1>3 DEF Goal, OnKeyboardInteractive, Expected
    <2>2. OnTwoValues(s, << <<"account", "token">> >>) = Reply(Proved(s, {"account", "token"}), Accept)
      BY DEF OnTwoValues
    <2>3. Proved(s, {"account", "token"}).scenario = s.scenario
      BY DEF Proved, Served, ServerState
    <2> QED
      BY <2>1, <2>2, <2>3, AcceptHopeful
  <1>4. CASE s.scenario = "KeyboardInteractiveZeroPrompt"
    <2>1. OnKeyboardInteractive(s, <<q.values>>) = Reply(s, Accept)
      BY <1>1, <1>4 DEF OnKeyboardInteractive, OnNoPrompts, Expected
    <2> QED
      BY <2>1, AcceptHopeful
  <1>5. CASE s.scenario = "KeyboardInteractiveMultiRound" /\ s.waitingForSecond
    <2>1. OnKeyboardInteractive(s, <<q.values>>) = Reply(Proved(s, {"second token"}), Accept)
      BY <1>1, <1>5 DEF OnKeyboardInteractive, OnTwoRounds, Expected
    <2>2. Proved(s, {"second token"}).scenario = s.scenario
      BY DEF Proved, Served, ServerState
    <2> QED
      BY <2>1, <2>2, AcceptHopeful
  <1>6. CASE s.scenario = "KeyboardInteractiveMultiRound" /\ ~s.waitingForSecond
    <2> DEFINE t == [Proved(s, {"account"}) EXCEPT !.waitingForSecond = TRUE]
    <2>1. OnKeyboardInteractive(s, <<q.values>>) = Reply(t, InteractivePrompt(<<"second token">>))
      BY <1>1, <1>6 DEF OnKeyboardInteractive, OnTwoRounds, Expected
    <2>2. t.scenario = s.scenario /\ t.waitingForSecond = TRUE
      BY DEF Proved, Served, ServerState
    <2>3. m.rounds = 1
      BY <1>1, <1>6 DEF RoundOf
    <2> HIDE DEF t
    <2>4. Goal(t) = "keyboard-interactive"
      BY <1>6, <2>2 DEF Goal
    <2>5. Expected(t) = <<"second token">>
      BY <1>6, <2>2 DEF Expected
    <2>6. RoundOf(t) - 1 = 1
      BY <2>2 DEF RoundOf
    <2>7. m.rounds = RoundOf(t) - 1
      BY <2>3, <2>6
    <2> QED
      BY <2>1, <2>2, <2>4, <2>5, <2>7, ChallengeHopeful, Zenon
  <1> QED
    BY <1>2, <1>3, <1>4, <1>5, <1>6

\* Whatever the client on its way asks, it stays on its way.
LEMMA ServerRepliesHopeful ==
    ASSUME NEW m, NEW s, Served(m, s), NEW q, q.method \in Methods, RequestHope(m, s, q),
           NEW r \in ServerReplies(s, q)
    PROVE  Hopeful(m, s, r)
  <1>1. s.scenario # "any" /\ Goal(s) \in AuthMethodKind
    BY GoalIsMethod DEF Served
  <1>2. CASE q.method = "none"
    <2>1. StageOf(s) = 1 /\ Untried(m, s)
      BY <1>1, <1>2 DEF RequestHope, AuthMethodKind
    <2>2. r = OnNone(s)
      BY <1>1, <1>2 DEF ServerReplies
    <2> QED
      BY <2>1, <2>2, OnNoneHopeful
  <1>3. CASE q.method = "publickey"
    BY <1>1, <1>3, OnPublicKeyHopeful DEF ServerReplies
  <1>4. CASE q.method = "password"
    <2>1. q.values[1] = "password"
      BY <1>4 DEF RequestHope
    <2> QED
      BY <1>1, <1>4, <2>1, OnPasswordHopeful DEF ServerReplies
  <1>5. CASE q.method = "keyboard-interactive"
    BY <1>1, <1>5, OnStartHopeful DEF ServerReplies
  <1>6. CASE q.method = "respond"
    BY <1>1, <1>6, OnRespondHopeful DEF ServerReplies
  <1> QED
    BY <1>2, <1>3, <1>4, <1>5, <1>6 DEF Methods
-----------------------------------------------------------------------------
(* The state machine, when nothing is asked out of turn.                    *)

LEMMA SelectAsks ==
    ASSUME NEW m, MachineInv(m), m.waitingFor = None, m.pending = None,
           NEW offered \in SUBSET AuthMethodKind, NEW partial \in BOOLEAN
    PROVE  LET next == SelectNextMethod(m, offered, partial) IN
           /\ next.machine.hasKey = m.hasKey /\ next.machine.pending = None
           /\ \/ next.action \in Refusal
              \/ next.action = "AttemptPublicKey" /\ next.machine.waitingFor = None
              \/ /\ next.action = "StartKeyboardInteractive" /\ next.machine.waitingFor = None
                 /\ "keyboard-interactive" \in next.machine.attempted
              \/ next.action = "RequestPrivateKeyPassphrase" /\ next.machine.waitingFor = "passphrase"
              \/ next.action = "RequestPassword" /\ next.machine.waitingFor = "password"
  <1> DEFINE fresh == StageFor(m, partial)
             method == NextMethod(fresh, offered)
             tried == [fresh EXCEPT !.attempted = @ \cup {method}]
             Asks(w) == [fresh EXCEPT !.waitingFor = w]
  <1>1. fresh.hasKey = m.hasKey /\ fresh.pending = None /\ fresh.waitingFor = None
    BY DEF StageFor, MachineInv, Machine
  <1>2. fresh = [hasKey |-> fresh.hasKey, locked |-> fresh.locked, attempted |-> fresh.attempted,
                 waitingFor |-> fresh.waitingFor, pending |-> fresh.pending,
                 nextRound |-> fresh.nextRound, rounds |-> fresh.rounds, stages |-> fresh.stages]
    BY DEF StageFor, MachineInv, Machine
  <1>3. method \in {"publickey", "keyboard-interactive", "password", None}
    BY DEF NextMethod
  <1>4. SelectNextMethod(m, offered, partial) =
          IF partial /\ m.stages >= MaxAuthStages THEN Then("ProtocolLimitExceeded", m)
          ELSE Try(fresh, method, partial)
    BY DEF SelectNextMethod
  <1>5. /\ tried.hasKey = fresh.hasKey /\ tried.pending = fresh.pending
        /\ tried.waitingFor = fresh.waitingFor /\ tried.attempted = fresh.attempted \cup {method}
    BY <1>2
  <1>6. \A w : Asks(w).hasKey = fresh.hasKey /\ Asks(w).pending = fresh.pending /\ Asks(w).waitingFor = w
    BY <1>2
  <1>7. None \notin AuthMethodKind
    BY NoneAssumption
  <1>8. \/ Try(fresh, method, partial) = Then("AttemptPublicKey", tried)
        \/ /\ Try(fresh, method, partial) = Then("StartKeyboardInteractive", tried)
           /\ method = "keyboard-interactive"
        \/ Try(fresh, method, partial) = Then("RequestPrivateKeyPassphrase", Asks("passphrase"))
        \/ Try(fresh, method, partial) = Then("RequestPassword", Asks("password"))
        \/ \E refusal \in Refusal : Try(fresh, method, partial) = Then(refusal, fresh)
    BY <1>3, <1>7 DEF Try, AuthMethodKind, Refusal
  <1> HIDE DEF fresh, method, tried, Asks
  <1>9. \A action, n : Then(action, n).action = action /\ Then(action, n).machine = n
    BY DEF Then
  <1>10. CASE partial /\ m.stages >= MaxAuthStages
    <2>1. SelectNextMethod(m, offered, partial) = Then("ProtocolLimitExceeded", m)
      BY <1>4, <1>10
    <2>2. "ProtocolLimitExceeded" \in Refusal
      BY DEF Refusal
    <2>3. /\ SelectNextMethod(m, offered, partial).action = "ProtocolLimitExceeded"
          /\ SelectNextMethod(m, offered, partial).machine = m
      BY <1>9, <2>1
    <2> QED
      BY <2>2, <2>3
  <1>11. CASE ~(partial /\ m.stages >= MaxAuthStages)
    <2> DEFINE next == Try(fresh, method, partial)
    <2>1. SelectNextMethod(m, offered, partial) = next
      BY <1>4, <1>11
    <2>2. /\ next.machine.hasKey = m.hasKey /\ next.machine.pending = None
          /\ \/ next.action \in Refusal
             \/ next.action = "AttemptPublicKey" /\ next.machine.waitingFor = None
             \/ /\ next.action = "StartKeyboardInteractive" /\ next.machine.waitingFor = None
                /\ "keyboard-interactive" \in next.machine.attempted
             \/ next.action = "RequestPrivateKeyPassphrase" /\ next.machine.waitingFor = "passphrase"
             \/ next.action = "RequestPassword" /\ next.machine.waitingFor = "password"
      <3> HIDE DEF next
      <3>1. CASE next = Then("AttemptPublicKey", tried)
        BY <1>1, <1>5, <1>9, <3>1
      <3>2. CASE next = Then("StartKeyboardInteractive", tried) /\ method = "keyboard-interactive"
        BY <1>1, <1>5, <1>9, <3>2
      <3>3. CASE next = Then("RequestPrivateKeyPassphrase", Asks("passphrase"))
        BY <1>1, <1>6, <1>9, <3>3
      <3>4. CASE next = Then("RequestPassword", Asks("password"))
        BY <1>1, <1>6, <1>9, <3>4
      <3>5. CASE \E refusal \in Refusal : next = Then(refusal, fresh)
        BY <1>1, <1>9, <3>5
      <3> QED
        BY <1>8, <3>1, <3>2, <3>3, <3>4, <3>5 DEF next
    <2> QED
      BY <2>1, <2>2
  <1> QED
    BY <1>10, <1>11

LEMMA PresentAsks ==
    ASSUME NEW m, MachineInv(m), m.waitingFor = None, m.pending = None,
           "keyboard-interactive" \in m.attempted, NEW count \in Nat
    PROVE  LET next == PresentChallenge(m, count) IN
           /\ next.machine.hasKey = m.hasKey
           /\ \/ next.action = "ProtocolLimitExceeded"
              \/ /\ next.action = "PresentChallenge"
                 /\ next.machine.pending = [round |-> m.nextRound, prompts |-> count]
                 /\ next.machine.pending # None /\ next.machine.pending.round \in Nat
                 /\ next.machine.waitingFor = None
                 /\ "keyboard-interactive" \in next.machine.attempted
                 /\ next.machine.rounds = m.rounds + 1
  <1>1. m.nextRound \in Nat /\ None # [round |-> m.nextRound, prompts |-> count]
    BY NoneAssumption, LimitsAssumption DEF MachineInv, Machine
  <1> QED
    BY <1>1 DEF PresentChallenge, Then, MachineInv, Machine

LEMMA PassphraseTaken ==
    ASSUME NEW m, MachineInv(m), m.waitingFor = "passphrase"
    PROVE  LET next == SubmitPrivateKeyPassphrase(m) IN
           /\ next.action = "AttemptPublicKey"
           /\ next.machine.hasKey = m.hasKey /\ next.machine.pending = m.pending
           /\ next.machine.waitingFor = None
           /\ next.machine.attempted = m.attempted \cup {"publickey"}
           /\ next.machine.rounds = m.rounds /\ next.machine.stages = m.stages
  BY DEF SubmitPrivateKeyPassphrase, Then, MachineInv, Machine

LEMMA PasswordTaken ==
    ASSUME NEW m, MachineInv(m), m.waitingFor = "password"
    PROVE  LET next == SubmitPassword(m) IN
           /\ next.action = "Submitted"
           /\ next.machine.hasKey = m.hasKey /\ next.machine.pending = m.pending
           /\ next.machine.waitingFor = None
           /\ next.machine.attempted = m.attempted \cup {"password"}
           /\ next.machine.rounds = m.rounds /\ next.machine.stages = m.stages
  BY DEF SubmitPassword, Then, MachineInv, Machine

LEMMA ResponsesTaken ==
    ASSUME NEW m, MachineInv(m), m.pending # None
    PROVE  LET next == ValidateResponses(m, m.pending.round, m.pending.prompts) IN
           /\ next.action = "Submitted"
           /\ next.machine.hasKey = m.hasKey /\ next.machine.pending = None
           /\ next.machine.waitingFor = m.waitingFor
           /\ next.machine.attempted = m.attempted
           /\ next.machine.rounds = m.rounds
  BY DEF ValidateResponses, Then, MachineInv, Machine

-----------------------------------------------------------------------------
(* The state machine of a client on its way.                                *)

LEMMA GoalNeedsKey ==
    ASSUME NEW m, NEW s, Served(m, s), Goal(s) = "publickey"
    PROVE  m.hasKey
  BY DEF Served, ServerState, Scenario, Goal, NeedsKey

\* Another method is tried, on the way to the goal.
LEMMA TryHopeful ==
    ASSUME NEW m, NEW s, NEW n, Untried(m, s), NEW method,
           n.attempted = m.attempted \cup {method},
           n.rounds = m.rounds, n.stages = m.stages,
           StageOf(s) = 1 \/ method = Goal(s)
    PROVE  \A q : /\ q.method = method /\ method # "respond"
                  /\ (method = "password" => q.values = <<"password">>)
                  => RequestHope(n, s, q)
  BY DEF Untried, Fresh, RequestHope
LEMMA SelectHopeful ==
    ASSUME MaxAuthStages >= 2,
           NEW m, MachineInv(m), m.waitingFor = None, m.pending = None,
           NEW s, Served(m, s), NEW r, r.kind = "failure", r.partial \in BOOLEAN, ReplyHope(m, s, r)
    PROVE  LET next == SelectNextMethod(m, r.offered \cap AuthMethodKind, r.partial) IN
           \/ /\ next.action = "AttemptPublicKey"
              /\ \A q : q.method = "publickey" => RequestHope(next.machine, s, q)
           \/ /\ next.action = "StartKeyboardInteractive"
              /\ \A q : q.method = "keyboard-interactive" => RequestHope(next.machine, s, q)
           \/ /\ next.action = "RequestPrivateKeyPassphrase"
              /\ CommandHope(next.machine, s, "passphrase", <<"passphrase">>)
           \/ /\ next.action = "RequestPassword"
              /\ CommandHope(next.machine, s, "password", <<"password">>)
  <1> DEFINE offered == r.offered \cap AuthMethodKind
             fresh == StageFor(m, r.partial)
             method == NextMethod(fresh, offered)
             tried == [fresh EXCEPT !.attempted = @ \cup {method}]
             Asks(w) == [fresh EXCEPT !.waitingFor = w]
  <1>1. Goal(s) \in AuthMethodKind /\ (Goal(s) = "publickey" => m.hasKey)
    BY GoalIsMethod, GoalNeedsKey
  <1>2. m.stages \in Nat /\ ~(r.partial /\ m.stages >= MaxAuthStages)
    BY LimitsAssumption DEF ReplyHope, MachineInv, Machine
  <1>3. /\ fresh.hasKey = m.hasKey /\ fresh.rounds = m.rounds
        /\ fresh.attempted = IF r.partial THEN {} ELSE m.attempted
        /\ fresh.stages = IF r.partial THEN m.stages + 1 ELSE m.stages
        /\ fresh = [hasKey |-> fresh.hasKey, locked |-> fresh.locked, attempted |-> fresh.attempted,
                    waitingFor |-> fresh.waitingFor, pending |-> fresh.pending,
                    nextRound |-> fresh.nextRound, rounds |-> fresh.rounds, stages |-> fresh.stages]
        /\ fresh.locked \in BOOLEAN
    BY DEF StageFor, MachineInv, Machine
  <1>4. Goal(s) \in offered /\ (StageOf(s) = 1 \/ offered = {Goal(s)})
    BY <1>1 DEF ReplyHope
  <1>5. Untried(fresh, s)
    <2>1. CASE r.partial
      <3>1. Fresh(m, s) /\ m.stages = 1 /\ StageOf(s) = 2
        BY <2>1 DEF ReplyHope
      <3>2. fresh.stages = 2 /\ fresh.attempted = {}
        BY <1>3, <2>1, <3>1
      <3> QED
        BY <1>3, <3>1, <3>2 DEF Untried, Fresh
    <2>2. CASE ~r.partial
      <3>1. Untried(m, s)
        BY <2>2 DEF ReplyHope
      <3> QED
        BY <1>3, <2>2, <3>1 DEF Untried, Fresh
    <2> QED
      BY <2>1, <2>2
  <1>6. SelectNextMethod(m, offered, r.partial) = Try(fresh, method, r.partial)
    BY <1>2 DEF SelectNextMethod
  <1>7. method \in offered /\ method \in AuthMethodKind
    <2>1. Goal(s) \in offered \ fresh.attempted
      BY <1>4, <1>5 DEF Untried
    <2>2. method \in (offered \ fresh.attempted) \cup {None}
      BY DEF NextMethod
    <2>3. Goal(s) \in {"publickey", "password", "keyboard-interactive"}
      BY <1>1 DEF AuthMethodKind
    <2>4. method # None
      BY <1>1, <1>3, <2>1, <2>3, NoneAssumption DEF NextMethod, AuthMethodKind
    <2> QED
      BY <2>2, <2>4
  <1>8. StageOf(s) = 1 \/ method = Goal(s)
    BY <1>4, <1>7
  <1>9. /\ tried.attempted = fresh.attempted \cup {method}
        /\ tried.rounds = fresh.rounds /\ tried.stages = fresh.stages
    BY <1>3
  <1>10. \A w : /\ Asks(w).attempted = fresh.attempted /\ Asks(w).rounds = fresh.rounds
               /\ Asks(w).stages = fresh.stages
    BY <1>3
  <1> HIDE DEF offered, fresh, method, tried, Asks
  <1>11. \A q : q.method = method /\ method # "password" => RequestHope(tried, s, q)
    <2>1. method # "respond"
      BY <1>7 DEF AuthMethodKind
    <2> QED
      BY <1>5, <1>8, <1>9, <2>1, TryHopeful
  <1>12. \A w : Untried(Asks(w), s)
    BY <1>5, <1>10 DEF Untried, Fresh
  <1>13. \A action, n : Then(action, n).action = action /\ Then(action, n).machine = n
    BY DEF Then
  <1>14. CASE method = "publickey" /\ ~fresh.locked
    <2>1. Try(fresh, method, r.partial) = Then("AttemptPublicKey", tried)
      BY <1>14, NoneAssumption DEF Try, tried, AuthMethodKind
    <2>2. SelectNextMethod(m, offered, r.partial).action = "AttemptPublicKey"
      BY <1>6, <1>13, <2>1
    <2>3. SelectNextMethod(m, offered, r.partial).machine = tried
      BY <1>6, <1>13, <2>1
    <2> QED
      BY <1>11, <1>14, <2>2, <2>3 DEF offered
  <1>15. CASE method = "publickey" /\ fresh.locked
    <2>1. Try(fresh, method, r.partial) =
            Then("RequestPrivateKeyPassphrase", Asks("passphrase"))
      BY <1>15, NoneAssumption DEF Try, Asks, AuthMethodKind
    <2>2. CommandHope(Asks("passphrase"), s, "passphrase", <<"passphrase">>)
      BY <1>8, <1>12, <1>15 DEF CommandHope
    <2>3. SelectNextMethod(m, offered, r.partial).action = "RequestPrivateKeyPassphrase"
      BY <1>6, <1>13, <2>1
    <2>4. SelectNextMethod(m, offered, r.partial).machine = Asks("passphrase")
      BY <1>6, <1>13, <2>1
    <2> QED
      BY <2>2, <2>3, <2>4 DEF offered
  <1>16. CASE method = "keyboard-interactive"
    <2>1. Try(fresh, method, r.partial) = Then("StartKeyboardInteractive", tried)
      BY <1>16, NoneAssumption DEF Try, tried, AuthMethodKind
    <2>2. SelectNextMethod(m, offered, r.partial).action = "StartKeyboardInteractive"
      BY <1>6, <1>13, <2>1
    <2>3. SelectNextMethod(m, offered, r.partial).machine = tried
      BY <1>6, <1>13, <2>1
    <2> QED
      BY <1>11, <1>16, <2>2, <2>3 DEF offered
  <1>17. CASE method = "password"
    <2>1. Try(fresh, method, r.partial) = Then("RequestPassword", Asks("password"))
      BY <1>17, NoneAssumption DEF Try, Asks, AuthMethodKind
    <2>2. CommandHope(Asks("password"), s, "password", <<"password">>)
      BY <1>8, <1>12, <1>17 DEF CommandHope
    <2>3. SelectNextMethod(m, offered, r.partial).action = "RequestPassword"
      BY <1>6, <1>13, <2>1
    <2>4. SelectNextMethod(m, offered, r.partial).machine = Asks("password")
      BY <1>6, <1>13, <2>1
    <2> QED
      BY <2>2, <2>3, <2>4 DEF offered
  <1> QED
    BY <1>3, <1>7, <1>14, <1>15, <1>16, <1>17 DEF AuthMethodKind

LEMMA PresentHopeful ==
    ASSUME MaxInteractiveRounds >= 2, MaxPromptsPerRound >= 2,
           NEW m, MachineInv(m), m.pending = None, "keyboard-interactive" \in m.attempted,
           NEW s, Served(m, s), NEW r, r.kind = "info", ReplyHope(m, s, r)
    PROVE  LET next == PresentChallenge(m, Len(r.prompts)) IN
           /\ next.action = "PresentChallenge"
           /\ CommandHope(next.machine, s, "responses", r.prompts)
  <1> DEFINE count == Len(r.prompts)
             n == [m EXCEPT !.pending = [round |-> m.nextRound, prompts |-> count],
                            !.nextRound = @ + 1, !.rounds = @ + 1]
  <1>1. Goal(s) = "keyboard-interactive" /\ r.prompts = Expected(s) /\ m.rounds = RoundOf(s) - 1
    BY DEF ReplyHope
  <1>2. RoundOf(s) \in {1, 2}
    BY DEF RoundOf
  <1>3. count \in {0, 1, 2}
    <2>1. Expected(s) \in {<<>>, <<"second token">>, <<"account">>, <<"account", "token">>}
      BY DEF Expected
    <2>2. Len(<<>>) = 0 /\ Len(<<"second token">>) = 1 /\ Len(<<"account">>) = 1
          /\ Len(<<"account", "token">>) = 2
      OBVIOUS
    <2>3. Len(Expected(s)) \in {0, 1, 2}
      BY <2>1, <2>2
    <2> QED
      BY <1>1, <2>3
  <1> HIDE DEF count
  <1>4. m.rounds < MaxInteractiveRounds /\ ~(m.rounds >= MaxInteractiveRounds)
    BY <1>1, <1>2, LimitsAssumption
  <1>5. ~(count > MaxPromptsPerRound)
    BY <1>3, LimitsAssumption
  <1>6. PresentChallenge(m, count) = Then("PresentChallenge", n)
    BY <1>4, <1>5 DEF PresentChallenge
  <1>7. n.rounds = RoundOf(s)
    BY <1>1, <1>2 DEF MachineInv, Machine
  <1> HIDE DEF n
  <1> QED
    BY <1>1, <1>6, <1>7 DEF count, Then, CommandHope
LEMMA CredentialHopeful ==
    ASSUME NEW m, NEW s, NEW n, NEW asked \in {"passphrase", "password"}, NEW values,
           CommandHope(m, s, asked, values), n.rounds = m.rounds, n.stages = m.stages,
           n.attempted = m.attempted \cup {IF asked = "passphrase" THEN "publickey" ELSE "password"}
    PROVE  /\ asked = "passphrase" => \A q : q.method = "publickey" => RequestHope(n, s, q)
           /\ asked = "password" =>
                \A q : q.method = "password" /\ q.values = values => RequestHope(n, s, q)
  <1>1. CASE asked = "passphrase"
    <2>1. Untried(m, s) /\ (StageOf(s) = 1 \/ "publickey" = Goal(s))
      BY <1>1 DEF CommandHope
    <2>2. \A q : q.method = "publickey" => RequestHope(n, s, q)
      BY <1>1, <2>1, TryHopeful
    <2> QED
      BY <1>1, <2>2
  <1>2. CASE asked = "password"
    <2>1. Untried(m, s) /\ (StageOf(s) = 1 \/ "password" = Goal(s)) /\ values = <<"password">>
      BY <1>2 DEF CommandHope
    <2>2. \A q : q.method = "password" /\ q.values = values => RequestHope(n, s, q)
      BY <1>2, <2>1, TryHopeful
    <2> QED
      BY <1>2, <2>2
  <1> QED
    BY <1>1, <1>2

LEMMA ResponsesHopeful ==
    ASSUME NEW m, NEW s, NEW n, NEW values, CommandHope(m, s, "responses", values),
           n.rounds = m.rounds
    PROVE  \A q : q.method = "respond" /\ q.values = values => RequestHope(n, s, q)
  BY DEF CommandHope, RequestHope

-----------------------------------------------------------------------------
(* What a step leaves of an honest exchange.                                *)

LEMMA FinishHonest ==
    ASSUME IInv, Honest, NEW outcome, Finish(outcome), server' = server,
           machine'.hasKey = machine.hasKey, outcome \notin Guard,
           outcome = "authenticated" => NoQuestion(app, channel'),
           Served(machine, server) /\ ~app.erred => outcome \notin Refusal
    PROVE  Honest'
  <1>1. run'.phase = "done" /\ run'.outcome = outcome /\ app' = app
    BY DEF IInv, RunInv, Finish
  <1>2. Served(machine', server') => Served(machine, server)
    BY DEF Served
  <1> QED
    BY <1>1, <1>2 DEF Honest, HopeInv

LEMMA SendHonest ==
    ASSUME IInv, Honest, run.phase # "done", server' = server, NoQuestion(app, channel'),
           NEW method, NEW values, NEW typedFor, Send(method, values, typedFor),
           machine'.hasKey = machine.hasKey, machine'.waitingFor = None, machine'.pending = None,
           method \in Interactive => "keyboard-interactive" \in machine'.attempted,
           Served(machine, server) /\ ~app.erred =>
                RequestHope(machine', server, Request(method, values, typedFor))
    PROVE  Honest'
  <1>1. run'.phase = "exchange" /\ run'.outcome = run.outcome /\ app' = app
    BY DEF IInv, RunInv, Send
  <1>2. wire'.request = Request(method, values, typedFor) /\ wire'.reply = None
    BY DEF Send, Asking
  <1>3. wire'.request.method = method
    BY <1>2 DEF Request
  <1>4. run.outcome # "authenticated"
    BY DEF IInv, RunInv
  <1>5. AskingInv(machine', wire')
    BY <1>2, <1>3 DEF AskingInv
  <1>6. ASSUME Served(machine', server'), ~app'.erred
        PROVE  HopeInv(machine', server', run', wire', Question(app', channel'))
    <2>1. Served(machine, server) /\ ~app.erred
      BY <1>1, <1>6 DEF Served
    <2>2. run.outcome \notin Refusal
      BY <2>1 DEF Honest, HopeInv
    <2> QED
      BY <1>1, <1>2, <2>1, <2>2 DEF HopeInv
  <1> QED
    BY <1>1, <1>4, <1>5, <1>6 DEF Honest, NoQuestion

LEMMA PromptHonest ==
    ASSUME IInv, Honest, run.phase = "exchange", server' = server, channel' = channel,
           NEW kind \in Kind, NEW round \in Nat, NEW prompts \in Seq(Text),
           Prompt(kind, round, prompts),
           machine'.hasKey = machine.hasKey,
           AskedInv(machine', run.layer, kind, Answer(run.layer, kind, round, prompts)),
           Served(machine, server) /\ ~app.erred => CommandHope(machine', server, kind, prompts)
    PROVE  Honest'
  <1>1. CASE Finish("callback")
    BY <1>1, FinishHonest DEF Guard, Refusal
  <1>2. CASE /\ run' = [run EXCEPT !.phase = "command", !.asked = kind]
             /\ wire' = NoWire
             /\ app' = [app EXCEPT !.prompt = Answer(run.layer, kind, round, prompts)]
    <2> DEFINE q == Answer(run.layer, kind, round, prompts)
    <2>1. /\ run'.phase = "command" /\ run'.asked = kind /\ run'.layer = run.layer
          /\ run'.outcome = run.outcome
      BY <1>2 DEF IInv, RunInv
    <2>2. app'.prompt = q /\ app'.erred = app.erred
      BY <1>2 DEF IInv, AppInv
    <2>3. q # None
      BY NothingAssumption DEF AskedInv
    <2>4. channel.answer = None /\ run.outcome # "authenticated"
      BY DEF Honest, NoQuestion, IInv, RunInv
    <2>5. Question(app', channel') = q
      BY <2>2, <2>3 DEF Question
    <2>6. q.values = prompts
      BY DEF Answer
    <2> HIDE DEF q
    <2>7. ASSUME Served(machine', server'), ~app'.erred
          PROVE  HopeInv(machine', server', run', wire', Question(app', channel'))
      <3>1. Served(machine, server) /\ ~app.erred
        BY <2>2, <2>7 DEF Served
      <3>2. run.outcome \notin Refusal
        BY <3>1 DEF Honest, HopeInv
      <3> QED
        BY <2>1, <2>5, <2>6, <3>1, <3>2 DEF HopeInv
    <2>8. AskedInv(machine', run'.layer, run'.asked, Question(app', channel'))
      BY <2>1, <2>5 DEF q
    <2> QED
      BY <2>1, <2>2, <2>3, <2>4, <2>7, <2>8 DEF Honest
  <1> QED
    BY <1>1, <1>2 DEF Prompt

-----------------------------------------------------------------------------
(* One step for each action.                                                *)

\* What a reply is, whoever the server is: only an interactive request is challenged.
Offered(methods) == methods \subseteq AuthMethodKind \cup {"hostbased"}
Shown(prompts) == prompts \in Seq(Text)

Shaped(s, r) == r.reply \in ReplyRecord /\ r.server.scenario = s.scenario
Plain(s, r) == Shaped(s, r) /\ r.reply.kind # "info"

LEMMA RejectPlain ==
    ASSUME NEW s, NEW t, t.scenario = s.scenario, NEW methods, Offered(methods), NEW partial \in BOOLEAN
    PROVE  Plain(s, Reply(t, Reject(methods, partial)))
  BY DEF Plain, Shaped, Reply, Reject, ReplyRecord, Offered

LEMMA AcceptPlain ==
    ASSUME NEW s, NEW t, t.scenario = s.scenario
    PROVE  Plain(s, Reply(t, Accept))
  BY DEF Plain, Shaped, Reply, Accept, ReplyRecord

LEMMA PromptShaped ==
    ASSUME NEW s, NEW t, t.scenario = s.scenario, NEW prompts, Shown(prompts)
    PROVE  Shaped(s, Reply(t, InteractivePrompt(prompts)))
  BY DEF Shaped, Reply, InteractivePrompt, ReplyRecord, Shown

LEMMA Offers ==
    ASSUME NEW s, ServerInv(s), s.scenario # "any"
    PROVE  /\ Offered(InitialMethods(s.scenario))
           /\ Offered({}) /\ Offered({"password"}) /\ Offered({"publickey"})
           /\ Offered({"keyboard-interactive"}) /\ Offered({"hostbased"})
           /\ Offered({"publickey", "password", "keyboard-interactive", "hostbased"})
  BY DEF ServerInv, ServerState, Scenario, InitialMethods, Offered, AuthMethodKind

LEMMA Prompts ==
    /\ Shown(<<>>) /\ Shown(<<"account">>) /\ Shown(<<"second token">>) /\ Shown(<<"account", "token">>)
  BY DEF Shown, Text

LEMMA SameScenario ==
    ASSUME NEW s, ServerInv(s), NEW factors
    PROVE  LET shown == Proved(s, factors) IN
           /\ shown.scenario = s.scenario
           /\ [shown EXCEPT !.passwordComplete = TRUE].scenario = s.scenario
           /\ [shown EXCEPT !.publicKeyComplete = TRUE].scenario = s.scenario
           /\ [shown EXCEPT !.waitingForSecond = TRUE].scenario = s.scenario
           /\ [s EXCEPT !.waitingForSecond = FALSE].scenario = s.scenario
  BY DEF ServerInv, ServerState, Proved

LEMMA OnNoneShaped ==
    ASSUME NEW s, ServerInv(s), s.scenario # "any"
    PROVE  Plain(s, OnNone(s))
  BY Offers, RejectPlain DEF OnNone

LEMMA OnPasswordShaped ==
    ASSUME NEW s, ServerInv(s), s.scenario # "any", NEW password
    PROVE  Plain(s, OnPassword(s, password))
  <1> DEFINE shown == Proved(s, {"password"})
             complete == [shown EXCEPT !.passwordComplete = TRUE]
  <1>1. shown.scenario = s.scenario /\ complete.scenario = s.scenario
    BY SameScenario
  <1> HIDE DEF shown, complete
  <1>2. s.publicKeyComplete \in BOOLEAN
    BY DEF ServerInv, ServerState
  <1>3. Plain(s, Reply(s, Reject({}, FALSE))) /\ Plain(s, Reply(s, Reject({"password"}, s.publicKeyComplete)))
    BY <1>2, Offers, RejectPlain
  <1>4. Plain(s, Reply(shown, Accept)) /\ Plain(s, Reply(complete, Reject({"keyboard-interactive"}, TRUE)))
    BY <1>1, Offers, RejectPlain, AcceptPlain
  <1>5. /\ Plain(s, Reply(shown, Reject({"publickey"}, FALSE)))
        /\ Plain(s, Reply(shown, Reject(InitialMethods(s.scenario), FALSE)))
    BY <1>1, Offers, RejectPlain
  <1>6. OnPassword(s, password) \in
          {Reply(s, Reject({}, FALSE)), Reply(s, Reject({"password"}, s.publicKeyComplete)),
           Reply(shown, Accept), Reply(complete, Reject({"keyboard-interactive"}, TRUE)),
           Reply(shown, Reject({"publickey"}, FALSE)),
           Reply(shown, Reject(InitialMethods(s.scenario), FALSE))}
    <2>1. CASE s.scenario = "unknown" \/ password # "password"
      BY <2>1 DEF OnPassword
    <2>2. CASE s.scenario # "unknown" /\ password = "password"
      BY <2>2 DEF OnPassword, shown, complete
    <2> QED
      BY <2>1, <2>2
  <1> QED
    BY <1>3, <1>4, <1>5, <1>6

LEMMA OnPublicKeyShaped ==
    ASSUME NEW s, ServerInv(s), s.scenario # "any"
    PROVE  Plain(s, OnPublicKey(s))
  <1> DEFINE shown == Proved(s, {"publickey"})
             complete == [shown EXCEPT !.publicKeyComplete = TRUE]
  <1>1. shown.scenario = s.scenario /\ complete.scenario = s.scenario
    BY SameScenario
  <1> HIDE DEF shown, complete
  <1>2. /\ Plain(s, Reply(shown, Accept)) /\ Plain(s, Reply(shown, Reject({"password"}, FALSE)))
        /\ Plain(s, Reply(complete, Reject({"password"}, TRUE)))
        /\ Plain(s, Reply(complete, Reject({"keyboard-interactive"}, TRUE)))
        /\ Plain(s, Reply(s, Reject(InitialMethods(s.scenario), FALSE)))
    BY <1>1, Offers, RejectPlain, AcceptPlain
  <1>3. OnPublicKey(s) \in
          {Reply(shown, Accept), Reply(shown, Reject({"password"}, FALSE)),
           Reply(complete, Reject({"password"}, TRUE)),
           Reply(complete, Reject({"keyboard-interactive"}, TRUE)),
           Reply(s, Reject(InitialMethods(s.scenario), FALSE))}
    BY DEF OnPublicKey, shown, complete
  <1> QED
    BY <1>2, <1>3

LEMMA OnKeyboardInteractiveShaped ==
    ASSUME NEW s, ServerInv(s), s.scenario # "any", NEW answers
    PROVE  Shaped(s, OnKeyboardInteractive(s, answers))
  <1> DEFINE both == Proved(s, {"account", "token"})
             second == Proved(s, {"second token"})
             first == [Proved(s, {"account"}) EXCEPT !.waitingForSecond = TRUE]
             again == [s EXCEPT !.waitingForSecond = FALSE]
  <1>1. /\ both.scenario = s.scenario /\ second.scenario = s.scenario
        /\ first.scenario = s.scenario /\ again.scenario = s.scenario
    BY SameScenario
  <1> HIDE DEF both, second, first, again
  <1>2. /\ Shaped(s, Reply(both, Accept)) /\ Shaped(s, Reply(second, Accept)) /\ Shaped(s, Reply(s, Accept))
        /\ Shaped(s, Reply(s, Reject({"keyboard-interactive"}, TRUE)))
        /\ Shaped(s, Reply(s, Reject({"keyboard-interactive"}, FALSE)))
        /\ Shaped(s, Reply(again, Reject({"keyboard-interactive"}, FALSE)))
    BY <1>1, Offers, RejectPlain, AcceptPlain DEF Plain
  <1>3. /\ Shaped(s, Reply(s, Reject({"password"}, FALSE))) /\ Shaped(s, Reply(s, Reject({"publickey"}, FALSE)))
        /\ Shaped(s, Reply(s, Reject(InitialMethods(s.scenario), FALSE)))
    BY <1>1, Offers, RejectPlain DEF Plain
  <1>4. /\ Shaped(s, Reply(s, InteractivePrompt(<<>>)))
        /\ Shaped(s, Reply(s, InteractivePrompt(<<"account">>)))
        /\ Shaped(s, Reply(s, InteractivePrompt(<<"second token">>)))
        /\ Shaped(s, Reply(first, InteractivePrompt(<<"second token">>)))
        /\ Shaped(s, Reply(s, InteractivePrompt(<<"account", "token">>)))
    BY <1>1, Prompts, PromptShaped
  <1>5. Shaped(s, OnTwoValues(s, answers))
    BY <1>2, <1>4 DEF OnTwoValues, both
  <1>6. Shaped(s, OnTwoRounds(s, answers))
    BY <1>2, <1>4 DEF OnTwoRounds, first, second, again
  <1>7. Shaped(s, OnNoPrompts(s, answers))
    BY <1>2, <1>4 DEF OnNoPrompts
  <1> QED
    BY <1>3, <1>5, <1>6, <1>7 DEF OnKeyboardInteractive

LEMMA ServerRepliesShaped ==
    ASSUME NEW s, ServerInv(s), NEW request, request.method \in Methods,
           NEW r \in ServerReplies(s, request)
    PROVE  Shaped(s, r) /\ (request.method \in Interactive \/ Plain(s, r))
  <1>1. CASE s.scenario = "any"
    <2>1. PICK reply \in AnyReply(request.method) : r = Reply(s, reply)
      BY <1>1 DEF ServerReplies
    <2>2. CASE reply = Accept
      BY <2>1, <2>2, AcceptPlain DEF Plain
    <2>3. ASSUME NEW methods \in SUBSET AuthMethodKind, NEW partial \in BOOLEAN,
                 reply = Reject(methods, partial)
          PROVE  Plain(s, r)
      <3>1. Offered(methods)
        BY DEF Offered
      <3> QED
        BY <2>1, <2>3, <3>1, RejectPlain
    <2>4. ASSUME NEW n \in {0, 1, MaxPromptsPerRound + 1}, request.method \in Interactive,
                 reply = InteractivePrompt([i \in 1..n |-> "account"])
          PROVE  Shaped(s, r)
      <3>1. n \in Nat
        BY LimitsAssumption
      <3>2. Shown([i \in 1..n |-> "account"])
        BY <3>1 DEF Text, Shown
      <3> QED
        BY <2>1, <2>4, <3>2, PromptShaped
    <2> QED
      BY <2>2, <2>3, <2>4 DEF AnyReply, Interactive, Plain
  <1>2. CASE s.scenario # "any"
    <2>1. \A password : Plain(s, OnPassword(s, password))
      BY <1>2, OnPasswordShaped
    <2>2. \A answers : Shaped(s, OnKeyboardInteractive(s, answers))
      BY <1>2, OnKeyboardInteractiveShaped
    <2> QED
      BY <1>2, <2>1, <2>2, OnNoneShaped, OnPublicKeyShaped DEF ServerReplies, Methods, Interactive, Plain
  <1> QED
    BY <1>1, <1>2

LEMMA ServerAnswersHonest ==
    ASSUME IInv, Honest, ServerAnswers
    PROVE  Honest'
  <1>1. PICK r \in ServerReplies(server, wire.request) :
            server' = r.server /\ wire' = [wire EXCEPT !.reply = r.reply]
    BY DEF ServerAnswers
  <1>2. /\ run.phase = "exchange" /\ wire.request.method \in Methods /\ ServerInv(server)
        /\ wire.reply = None
        /\ machine' = machine /\ run' = run /\ channel' = channel /\ app' = app
    BY DEF ServerAnswers, IInv, WireInv, AdmissionInv
  <1>3. wire'.request = wire.request /\ wire'.reply = r.reply
    BY <1>1 DEF IInv, WireInv
  <1>4. Shaped(server, r) /\ (wire.request.method \in Interactive \/ Plain(server, r))
    BY <1>2, ServerRepliesShaped
  <1>5. r.reply # None
    BY <1>4, NothingAssumption DEF Shaped
  <1>6. AskingInv(machine', wire')
    BY <1>2, <1>3, <1>4 DEF Honest, AskingInv, Shaped, Plain
  <1>7. ASSUME Served(machine', server'), ~app'.erred
        PROVE  HopeInv(machine', server', run', wire', Question(app', channel'))
    <2>1. Served(machine, server) /\ ~app.erred
      BY <1>1, <1>2, <1>4, <1>7 DEF Served, ServerInv, Shaped
    <2>2. RequestHope(machine, server, wire.request) /\ run.outcome \notin Refusal
      BY <1>2, <2>1 DEF Honest, HopeInv
    <2>3. Hopeful(machine, server, r)
      BY <1>2, <2>1, <2>2, ServerRepliesHopeful
    <2> QED
      BY <1>1, <1>2, <1>3, <1>5, <2>2, <2>3 DEF HopeInv, Hopeful
  <1> QED
    BY <1>2, <1>6, <1>7 DEF Honest
\* Room for two factors and two rounds of two prompts: authentication.rs has 8, 8 and 16.
Roomy == MaxAuthStages >= 2 /\ MaxInteractiveRounds >= 2 /\ MaxPromptsPerRound >= 2

LEMMA OnFailureReplyHonest ==
    ASSUME Roomy, IInv, Honest, run.phase = "exchange", wire.reply # None, wire.reply.kind = "failure",
           OnFailureReply(wire.reply), server' = server, channel' = channel
    PROVE  Honest'
  <1> DEFINE r == wire.reply
             next == SelectNextMethod(machine, r.offered \cap AuthMethodKind, r.partial)
  <1>1. MachineInv(machine) /\ machine.waitingFor = None /\ machine.pending = None
        /\ NoQuestion(app, channel)
    BY DEF IInv, ExchangeInv, Honest, AskingInv
  <1>2. r.partial \in BOOLEAN
    BY DEF IInv, AdmissionInv, ReplyInv
  <1>3. machine' = next.machine
    BY DEF OnFailureReply
  <1>4. /\ next.machine.hasKey = machine.hasKey /\ next.machine.pending = None
        /\ \/ next.action \in Refusal
           \/ next.action = "AttemptPublicKey" /\ next.machine.waitingFor = None
           \/ /\ next.action = "StartKeyboardInteractive" /\ next.machine.waitingFor = None
              /\ "keyboard-interactive" \in next.machine.attempted
           \/ next.action = "RequestPrivateKeyPassphrase" /\ next.machine.waitingFor = "passphrase"
           \/ next.action = "RequestPassword" /\ next.machine.waitingFor = "password"
    BY <1>1, <1>2, SelectAsks
  <1>5. ASSUME Served(machine, server), ~app.erred
        PROVE  \/ /\ next.action = "AttemptPublicKey"
                  /\ \A q : q.method = "publickey" => RequestHope(next.machine, server, q)
               \/ /\ next.action = "StartKeyboardInteractive"
                  /\ \A q : q.method = "keyboard-interactive" => RequestHope(next.machine, server, q)
               \/ /\ next.action = "RequestPrivateKeyPassphrase"
                  /\ CommandHope(next.machine, server, "passphrase", <<"passphrase">>)
               \/ /\ next.action = "RequestPassword"
                  /\ CommandHope(next.machine, server, "password", <<"password">>)
    <2>1. ReplyHope(machine, server, r)
      BY <1>5 DEF Honest, HopeInv
    <2> QED
      BY <1>1, <1>2, <1>5, <2>1, SelectHopeful DEF Roomy
  <1>6. \A method, values, typedFor : Request(method, values, typedFor).method = method
    BY DEF Request
  <1>7. /\ next.action = "AttemptPublicKey" => SendPublicKey(TRUE, None)
        /\ next.action = "RequestPrivateKeyPassphrase" => Prompt("passphrase", 0, <<"passphrase">>)
        /\ next.action = "RequestPassword" => Prompt("password", 0, <<"password">>)
        /\ next.action = "StartKeyboardInteractive" => Send("keyboard-interactive", <<>>, None)
        /\ next.action \in Refusal => Finish(next.action)
    BY DEF OnFailureReply, Refusal
  <1>8. <<"passphrase">> \in Seq(Text) /\ <<"password">> \in Seq(Text)
    BY DEF Text
  <1> HIDE DEF next, r
  <1>9. CASE next.action = "AttemptPublicKey"
    <2>1. Send("publickey", <<>>, None) \/ Finish("key")
      BY <1>7, <1>9 DEF SendPublicKey
    <2>2. CASE Finish("key")
      BY <1>3, <1>4, <2>2, FinishHonest DEF Guard, Refusal
    <2>3. CASE Send("publickey", <<>>, None)
      <3>1. Served(machine, server) /\ ~app.erred =>
               RequestHope(machine', server, Request("publickey", <<>>, None))
        BY <1>3, <1>5, <1>6, <1>9
      <3>2. "publickey" \notin Interactive /\ machine'.waitingFor = None
        BY <1>3, <1>4, <1>9 DEF Interactive, Refusal
      <3> QED
        BY <1>1, <1>3, <1>4, <2>3, <3>1, <3>2, SendHonest
    <2> QED
      BY <2>1, <2>2, <2>3
  <1>10. CASE next.action = "StartKeyboardInteractive"
    <2>1. Served(machine, server) /\ ~app.erred =>
             RequestHope(machine', server, Request("keyboard-interactive", <<>>, None))
      BY <1>3, <1>5, <1>6, <1>10
    <2>2. "keyboard-interactive" \in machine'.attempted /\ machine'.waitingFor = None
      BY <1>3, <1>4, <1>10 DEF Refusal
    <2> QED
      BY <1>1, <1>3, <1>4, <1>7, <1>10, <2>1, <2>2, SendHonest
  <1>11. ASSUME NEW kind \in {"passphrase", "password"},
                Prompt(kind, 0, <<kind>>), machine'.waitingFor = kind,
                Served(machine, server) /\ ~app.erred => CommandHope(machine', server, kind, <<kind>>)
         PROVE  Honest'
    <2>0. kind \in Text /\ kind \in Kind
      BY DEF Text, Kind
    <2>1. <<kind>> \in Seq(Text) /\ kind \in Kind
      BY <2>0
    <2>2. AskedInv(machine', run.layer, kind, Answer(run.layer, kind, 0, <<kind>>))
      <3>1. Answer(run.layer, kind, 0, <<kind>>) \in AnswerRecord
        BY <2>1 DEF Answer, AnswerRecord, IInv, RunInv
      <3> QED
        BY <1>3, <1>4, <1>11, <3>1 DEF AskedInv, Answer
    <2> QED
      BY <1>3, <1>4, <1>11, <2>1, <2>2, PromptHonest
  <1>12. CASE next.action = "RequestPrivateKeyPassphrase"
    BY <1>3, <1>4, <1>5, <1>7, <1>11, <1>12 DEF Refusal
  <1>13. CASE next.action = "RequestPassword"
    BY <1>3, <1>4, <1>5, <1>7, <1>11, <1>13 DEF Refusal
  <1>14. CASE next.action \in Refusal
    <2>1. ~(Served(machine, server) /\ ~app.erred)
      BY <1>5, <1>14 DEF Refusal
    <2>2. next.action \notin Guard /\ next.action # "authenticated"
      BY <1>14 DEF Refusal, Guard
    <2> QED
      BY <1>3, <1>4, <1>7, <1>14, <2>1, <2>2, FinishHonest
  <1> QED
    BY <1>4, <1>9, <1>10, <1>12, <1>13, <1>14

LEMMA OnInfoRequestHonest ==
    ASSUME Roomy, IInv, Honest, run.phase = "exchange", wire.reply # None, wire.reply.kind = "info",
           OnInfoRequest(wire.reply), server' = server, channel' = channel
    PROVE  Honest'
  <1> DEFINE r == wire.reply
             next == PresentChallenge(machine, Len(r.prompts))
  <1>1. /\ MachineInv(machine) /\ machine.waitingFor = None /\ machine.pending = None
        /\ "keyboard-interactive" \in machine.attempted
    BY DEF IInv, ExchangeInv, Honest, AskingInv
  <1>2. r.prompts \in Seq(Text) /\ Len(r.prompts) \in Nat
    BY DEF Honest, AskingInv, ReplyRecord
  <1>3. machine' = next.machine
    BY DEF OnInfoRequest
  <1>4. /\ next.machine.hasKey = machine.hasKey
        /\ \/ next.action = "ProtocolLimitExceeded"
           \/ /\ next.action = "PresentChallenge"
              /\ next.machine.pending = [round |-> machine.nextRound, prompts |-> Len(r.prompts)]
              /\ next.machine.pending # None /\ next.machine.pending.round \in Nat
              /\ next.machine.waitingFor = None
              /\ "keyboard-interactive" \in next.machine.attempted
              /\ next.machine.rounds = machine.rounds + 1
    BY <1>1, <1>2, PresentAsks
  <1>5. ASSUME Served(machine, server), ~app.erred
        PROVE  /\ next.action = "PresentChallenge"
               /\ CommandHope(next.machine, server, "responses", r.prompts)
    <2>1. ReplyHope(machine, server, r)
      BY <1>5 DEF Honest, HopeInv
    <2> QED
      BY <1>1, <1>5, <2>1, PresentHopeful DEF Roomy
  <1>6. IF next.action = "PresentChallenge"
        THEN Prompt("responses", next.machine.pending.round, r.prompts)
        ELSE Finish(next.action)
    BY DEF OnInfoRequest
  <1> HIDE DEF next, r
  <1>7. CASE next.action = "PresentChallenge"
    <2> DEFINE q == Answer(run.layer, "responses", next.machine.pending.round, r.prompts)
    <2>1. q \in AnswerRecord
      BY <1>2, <1>4, <1>7 DEF Answer, AnswerRecord, IInv, RunInv, Kind
    <2>2. /\ q.layer = run.layer /\ q.kind = "responses" /\ q.round = next.machine.pending.round
          /\ q.values = r.prompts
      BY DEF Answer
    <2>3. next.machine.pending.prompts = Len(r.prompts)
      BY <1>4, <1>7
    <2> HIDE DEF q
    <2>4. AskedInv(machine', run.layer, "responses", q)
      BY <1>3, <1>4, <1>7, <2>1, <2>2, <2>3 DEF AskedInv
    <2>5. "responses" \in Kind /\ next.machine.pending.round \in Nat
      BY <1>4, <1>7 DEF Kind
    <2>6. Prompt("responses", next.machine.pending.round, r.prompts)
      BY <1>6, <1>7
    <2> QED
      BY <1>2, <1>3, <1>4, <1>5, <2>4, <2>5, <2>6, PromptHonest DEF q
  <1>8. CASE next.action = "ProtocolLimitExceeded"
    BY <1>3, <1>4, <1>5, <1>6, <1>8, FinishHonest DEF Guard
  <1> QED
    BY <1>4, <1>7, <1>8

LEMMA TakeReplyHonest ==
    ASSUME Roomy, IInv, Honest, TakeReply
    PROVE  Honest'
  <1>1. run.phase = "exchange" /\ wire.reply # None /\ server' = server /\ channel' = channel
    BY DEF TakeReply
  <1>2. CASE wire.reply.kind = "success" /\ Finish("authenticated") /\ UNCHANGED machine
    <2>1. NoQuestion(app, channel')
      BY <1>1 DEF Honest
    <2> QED
      BY <1>1, <1>2, <2>1, FinishHonest DEF Guard, Refusal
  <1>3. CASE wire.reply.kind = "failure" /\ OnFailureReply(wire.reply)
    BY <1>1, <1>3, OnFailureReplyHonest
  <1>4. CASE wire.reply.kind = "info" /\ OnInfoRequest(wire.reply)
    BY <1>1, <1>4, OnInfoRequestHonest
  <1> QED
    BY <1>2, <1>3, <1>4 DEF TakeReply

LEMMA TakeCommandHonest ==
    ASSUME IInv, Honest, TakeCommand
    PROVE  Honest'
  <1> DEFINE answer == channel.answer
  <1>1. /\ run.phase = "command" /\ answer # None /\ server' = server
        /\ channel' = [channel EXCEPT !.answer = None]
    BY DEF TakeCommand
  <1>2. NoQuestion(app, channel') /\ app.prompt = None
    BY <1>1 DEF Honest, IInv, ChannelInv, NoQuestion
  <1>3. Question(app, channel) = answer /\ AskedInv(machine, run.layer, run.asked, answer)
    BY <1>1, <1>2 DEF Honest, Question
  <1>4. /\ answer \in AnswerRecord /\ answer.layer = run.layer /\ answer.kind = run.asked
        /\ run.asked \in Kind /\ MachineInv(machine)
    BY <1>3 DEF AskedInv, AnswerRecord, IInv, ExchangeInv
  <1>5. UseAnswer(answer)
    BY <1>1, <1>4 DEF TakeCommand, ForThisLayer
  <1>6. Served(machine, server) /\ ~app.erred => CommandHope(machine, server, run.asked, answer.values)
    BY <1>1, <1>3 DEF Honest, HopeInv
  <1>7. \A method, values, typedFor :
            LET q == Request(method, values, typedFor) IN q.method = method /\ q.values = values
    BY DEF Request
  <1> HIDE DEF answer
  <1>8. CASE run.asked = "passphrase"
    <2> DEFINE next == SubmitPrivateKeyPassphrase(machine)
    <2>1. /\ next.action = "AttemptPublicKey"
          /\ next.machine.hasKey = machine.hasKey /\ next.machine.pending = machine.pending
          /\ next.machine.waitingFor = None
          /\ next.machine.attempted = machine.attempted \cup {"publickey"}
          /\ next.machine.rounds = machine.rounds /\ next.machine.stages = machine.stages
      BY <1>3, <1>4, <1>8, PassphraseTaken DEF AskedInv
    <2>2. machine' = next.machine /\ SendPublicKey(answer.values = <<"passphrase">>, PromptOf(answer))
      BY <1>4, <1>5, <1>8, <2>1 DEF UseAnswer, AuthFailure
    <2> HIDE DEF next
    <2>3. machine'.pending = None
      BY <1>3, <1>8, <2>1, <2>2 DEF AskedInv
    <2>4. CASE Finish("key")
      BY <1>1, <2>1, <2>2, <2>4, FinishHonest DEF Guard, Refusal
    <2>5. CASE Send("publickey", <<>>, PromptOf(answer))
      <3>1. Served(machine, server) /\ ~app.erred =>
               RequestHope(machine', server, Request("publickey", <<>>, PromptOf(answer)))
        <4> SUFFICES ASSUME Served(machine, server), ~app.erred
                     PROVE  RequestHope(machine', server, Request("publickey", <<>>, PromptOf(answer)))
          OBVIOUS
        <4>1. CommandHope(machine, server, "passphrase", answer.values)
          BY <1>6, <1>8
        <4>2. /\ machine'.rounds = machine.rounds /\ machine'.stages = machine.stages
              /\ machine'.attempted = machine.attempted \cup {"publickey"}
          BY <2>1, <2>2
        <4>3. \A q : q.method = "publickey" => RequestHope(machine', server, q)
          BY <4>1, <4>2, CredentialHopeful
        <4> QED
          BY <4>3, <1>7
      <3>2. "publickey" \notin Interactive
        BY DEF Interactive
      <3> QED
        BY <1>1, <1>2, <2>1, <2>2, <2>3, <2>5, <3>1, <3>2, SendHonest
    <2> QED
      BY <2>2, <2>4, <2>5 DEF SendPublicKey
  <1>9. CASE run.asked = "password"
    <2> DEFINE next == SubmitPassword(machine)
    <2>1. /\ next.action = "Submitted"
          /\ next.machine.hasKey = machine.hasKey /\ next.machine.pending = machine.pending
          /\ next.machine.waitingFor = None
          /\ next.machine.attempted = machine.attempted \cup {"password"}
          /\ next.machine.rounds = machine.rounds /\ next.machine.stages = machine.stages
      BY <1>3, <1>4, <1>9, PasswordTaken DEF AskedInv
    <2>2. machine' = next.machine /\ Send("password", answer.values, PromptOf(answer))
      BY <1>4, <1>5, <1>9, <2>1 DEF UseAnswer, AuthFailure
    <2> HIDE DEF next
    <2>3. machine'.pending = None /\ "password" \notin Interactive
      BY <1>3, <1>9, <2>1, <2>2 DEF AskedInv, Interactive
    <2>4. Served(machine, server) /\ ~app.erred =>
             RequestHope(machine', server, Request("password", answer.values, PromptOf(answer)))
      <3> SUFFICES ASSUME Served(machine, server), ~app.erred
                   PROVE  RequestHope(machine', server, Request("password", answer.values, PromptOf(answer)))
        OBVIOUS
      <3>1. CommandHope(machine, server, "password", answer.values)
        BY <1>6, <1>9
      <3>2. /\ machine'.rounds = machine.rounds /\ machine'.stages = machine.stages
            /\ machine'.attempted = machine.attempted \cup {"password"}
        BY <2>1, <2>2
      <3>3. \A q : q.method = "password" /\ q.values = answer.values => RequestHope(machine', server, q)
        BY <3>1, <3>2, CredentialHopeful
      <3> QED
        BY <3>3, <1>7
    <2> QED
      BY <1>1, <1>2, <2>1, <2>2, <2>3, <2>4, SendHonest
  <1>10. CASE run.asked = "responses"
    <2> DEFINE next == ValidateResponses(machine, machine.pending.round, machine.pending.prompts)
    <2>1. /\ machine.pending # None /\ machine.waitingFor = None
          /\ "keyboard-interactive" \in machine.attempted
          /\ answer.round = machine.pending.round /\ Len(answer.values) = machine.pending.prompts
      BY <1>3, <1>10 DEF AskedInv
    <2>2. /\ next.action = "Submitted"
          /\ next.machine.hasKey = machine.hasKey /\ next.machine.pending = None
          /\ next.machine.waitingFor = machine.waitingFor
          /\ next.machine.attempted = machine.attempted
          /\ next.machine.rounds = machine.rounds
      BY <1>4, <2>1, ResponsesTaken
    <2>3. machine' = next.machine /\ Send("respond", answer.values, PromptOf(answer))
      BY <1>4, <1>5, <1>10, <2>1, <2>2 DEF UseAnswer, AuthFailure
    <2> HIDE DEF next
    <2>4. Served(machine, server) /\ ~app.erred =>
             RequestHope(machine', server, Request("respond", answer.values, PromptOf(answer)))
      BY <1>6, <1>7, <1>10, <2>2, <2>3, ResponsesHopeful
    <2> QED
      BY <1>1, <1>2, <2>1, <2>2, <2>3, <2>4, SendHonest
  <1> QED
    BY <1>4, <1>8, <1>9, <1>10 DEF Kind

LEMMA GivingUpHonest ==
    ASSUME IInv, Honest, ExchangeFails \/ ResponseTimesOut \/ Cancelled
    PROVE  Honest'
  <1>1. PICK outcome \in {"exchange", "response timed out", "cancelled"} : Finish(outcome)
    BY DEF ExchangeFails, ResponseTimesOut, Cancelled
  <1>2. machine' = machine /\ server' = server
    BY DEF ExchangeFails, ResponseTimesOut, Cancelled
  <1> QED
    BY <1>1, <1>2, FinishHonest DEF Guard, Refusal

\* Where a layer begins: nothing has been tried.
LEMMA BeginningHopeful ==
    ASSUME NEW m \in Machines, NEW s \in Servers, Served(m, s)
    PROVE  RequestHope(m, s, FirstRequest.request)
  <1>1. /\ m.attempted = {} /\ m.stages = 1 /\ m.rounds = 0
    BY DEF Machines, NewMachine
  <1>2. ~s.passwordComplete /\ ~s.publicKeyComplete /\ ~s.waitingForSecond
    BY DEF Servers, NewClient
  <1>3. Goal(s) # "none"
    BY GoalIsMethod DEF AuthMethodKind
  <1>4. FirstRequest.request.method = "none"
    BY DEF FirstRequest, Asking, Request
  <1>5. StageOf(s) = 1 /\ Untried(m, s)
    BY <1>1, <1>2 DEF StageOf, Halfway, Untried, Fresh
  <1> QED
    BY <1>3, <1>4, <1>5 DEF RequestHope

LEMMA BeginningAsks ==
    ASSUME NEW m \in Machines
    PROVE  AskingInv(m, FirstRequest)
  <1>1. m.waitingFor = None /\ m.pending = None
    BY DEF Machines, NewMachine
  <1>2. FirstRequest.reply = None /\ FirstRequest.request.method = "none"
    BY DEF FirstRequest, Asking, Request
  <1> QED
    BY <1>1, <1>2 DEF AskingInv, Interactive

LEMMA ProceedToTargetHonest ==
    ASSUME IInv, Honest, ProceedToTarget
    PROVE  Honest'
  <1>1. /\ machine' \in Machines /\ run' = Begun("target") /\ wire' = FirstRequest
        /\ server' \in Servers /\ channel' = channel /\ app'.prompt = app.prompt
        /\ run.outcome = "authenticated"
    BY DEF ProceedToTarget, IInv, AppInv
  <1>2. NoQuestion(app', channel')
    BY <1>1 DEF Honest, NoQuestion
  <1>3. run'.phase = "exchange" /\ run'.outcome = None
    BY <1>1 DEF Begun
  <1>4. None \notin Guard \cup Refusal \cup {"authenticated"}
    BY NothingAssumption, NoneAssumption DEF Guard, Refusal, Failure, AuthFailure
  <1>5. FirstRequest.reply = None
    BY DEF FirstRequest, Asking
  <1>6. Served(machine', server') => HopeInv(machine', server', run', wire', Question(app', channel'))
    BY <1>1, <1>3, <1>4, <1>5, BeginningHopeful DEF HopeInv
  <1>7. AskingInv(machine', wire')
    BY <1>1, BeginningAsks
  <1> QED
    BY <1>2, <1>3, <1>4, <1>6, <1>7 DEF Honest

LEMMA UserAnswersHonest ==
    ASSUME IInv, Honest, UserAnswers
    PROVE  Honest'
  <1>1. PICK right \in BOOLEAN :
           /\ Deliver(IF right THEN app.prompt
                      ELSE [app.prompt EXCEPT !.values = [i \in DOMAIN @ |-> "wrong"]])
           /\ app' = [app EXCEPT !.prompt = None, !.erred = @ \/ ~right]
    BY DEF UserAnswers
  <1> DEFINE q == app.prompt
             a == IF right THEN q ELSE [q EXCEPT !.values = [i \in DOMAIN @ |-> "wrong"]]
  <1>2. /\ q # None /\ ~Over /\ channel.answer = None
        /\ UNCHANGED <<machine, run, wire, server>>
        /\ channel' = [channel EXCEPT !.answer = a]
    BY <1>1 DEF UserAnswers, Deliver
  <1>3. run.phase = "command"
    BY <1>2 DEF Over, Honest, NoQuestion, IInv, RunInv
  <1>4. AskedInv(machine, run.layer, run.asked, q)
    BY <1>2, <1>3 DEF Honest, Question
  <1>5. app'.prompt = None /\ app'.erred = (app.erred \/ ~right) /\ channel'.answer = a
    BY <1>1, <1>2 DEF IInv, AppInv, ChannelInv
  <1>6. /\ a \in AnswerRecord /\ a.layer = q.layer /\ a.kind = q.kind /\ a.round = q.round
        /\ Len(a.values) = Len(q.values) /\ (right => a.values = q.values)
    <2>1. q \in AnswerRecord
      BY <1>4 DEF AskedInv
    <2>2. CASE right
      BY <2>1, <2>2
    <2>3. CASE ~right
      <3> DEFINE wrong == [i \in DOMAIN q.values |-> "wrong"]
      <3>1. wrong \in Seq(Text) /\ Len(wrong) = Len(q.values)
        <4>1. q.values \in Seq(Text) /\ "wrong" \in Text
          BY <2>1 DEF AnswerRecord, Text
        <4>2. PICK n \in Nat : q.values \in [1..n -> Text] /\ Len(q.values) = n
          BY <4>1
        <4>3. wrong \in [1..n -> Text]
          BY <4>1, <4>2
        <4> HIDE DEF wrong
        <4> QED
          BY <4>2, <4>3
      <3>2. a = [q EXCEPT !.values = wrong]
        BY <2>3
      <3> HIDE DEF wrong, a
      <3> QED
        BY <2>1, <2>3, <3>1, <3>2 DEF AnswerRecord
    <2> QED
      BY <2>2, <2>3
  <1> HIDE DEF a, q
  <1>7. a # None
    BY <1>6, NothingAssumption
  <1>8. AskedInv(machine', run'.layer, run'.asked, a)
    BY <1>2, <1>4, <1>6 DEF AskedInv
  <1>9. Question(app', channel') = a /\ Question(app, channel) = q
    BY <1>2, <1>5 DEF Question, q
  <1>10. ASSUME Served(machine', server'), ~app'.erred
         PROVE  HopeInv(machine', server', run', wire', Question(app', channel'))
    <2>1. Served(machine, server) /\ ~app.erred /\ right
      BY <1>2, <1>5, <1>10
    <2> QED
      BY <1>2, <1>3, <1>6, <1>9, <2>1 DEF Honest, HopeInv
  <1>11. run.outcome # "authenticated"
    BY <1>3 DEF IInv, RunInv
  <1> QED
    BY <1>2, <1>3, <1>5, <1>7, <1>8, <1>9, <1>10, <1>11 DEF Honest

\* Nothing but a misuse is counted as one.
LEMMA MisusesCounted ==
    ASSUME IInv, [Next]_vars, ~Misuse
    PROVE  app'.misuses = app.misuses
  <1> DEFINE same == app'.misuses = app.misuses
  <1>1. app = [prompt |-> app.prompt, erred |-> app.erred, misuses |-> app.misuses]
    BY DEF IInv, AppInv
  <1>2. \A outcome : Finish(outcome) => same
    BY DEF Finish
  <1>3. \A method, values, typedFor : Send(method, values, typedFor) => same
    BY DEF Send
  <1>4. \A kind, round, prompts : Prompt(kind, round, prompts) => same
    <2> SUFFICES ASSUME NEW kind, NEW round, NEW prompts, Prompt(kind, round, prompts) PROVE same
      OBVIOUS
    <2>1. CASE app' = [app EXCEPT !.prompt = Answer(run.layer, kind, round, prompts)]
      BY <1>1, <2>1
    <2> QED
      BY <1>2, <2>1 DEF Prompt
  <1>5. \A opens, typedFor : SendPublicKey(opens, typedFor) => same
    BY <1>2, <1>3 DEF SendPublicKey
  <1> HIDE DEF same
  <1>6. ASSUME TakeReply PROVE same
    <2>1. OnFailureReply(wire.reply) => same
      BY <1>2, <1>3, <1>4, <1>5 DEF OnFailureReply
    <2>2. OnInfoRequest(wire.reply) => same
      BY <1>2, <1>4 DEF OnInfoRequest
    <2> QED
      BY <1>2, <1>6, <2>1, <2>2 DEF TakeReply
  <1>7. ASSUME TakeCommand PROVE same
    <2>0. channel.answer.kind \in Kind
      BY <1>7 DEF TakeCommand, IInv, ChannelInv, AnswerInv
    <2>1. ASSUME UseAnswer(channel.answer) PROVE same
      <3> DEFINE answer == channel.answer
                 next == CASE answer.kind = "passphrase" -> SubmitPrivateKeyPassphrase(machine)
                           [] answer.kind = "password" -> SubmitPassword(machine)
                           [] answer.kind = "responses" ->
                                 ValidateResponses(machine, answer.round, Len(answer.values))
      <3> HIDE DEF next
      <3>1. next.action \in AuthFailure \cup {"AttemptPublicKey", "Submitted"}
        <4>1. CASE answer.kind = "passphrase"
          <5>1. next = SubmitPrivateKeyPassphrase(machine)
            BY <4>1 DEF next
          <5> QED
            BY <5>1 DEF SubmitPrivateKeyPassphrase, Then, AuthFailure
        <4>2. CASE answer.kind = "password"
          <5>1. next = SubmitPassword(machine)
            BY <4>2 DEF next
          <5> QED
            BY <5>1 DEF SubmitPassword, Then, AuthFailure
        <4>3. CASE answer.kind = "responses"
          <5>1. next = ValidateResponses(machine, answer.round, Len(answer.values))
            BY <4>3 DEF next
          <5> QED
            BY <5>1 DEF ValidateResponses, Then, AuthFailure
        <4> QED
          BY <2>0, <4>1, <4>2, <4>3 DEF Kind
      <3>2. /\ next.action \in AuthFailure => Finish(next.action)
            /\ next.action = "AttemptPublicKey" =>
                  SendPublicKey(answer.values = <<"passphrase">>, PromptOf(answer))
            /\ next.action = "Submitted" =>
                  \/ Send("password", answer.values, PromptOf(answer))
                  \/ Send("respond", answer.values, PromptOf(answer))
        BY <2>1 DEF UseAnswer, AuthFailure, next
      <3> QED
        BY <1>2, <1>3, <1>5, <3>1, <3>2
    <2>2. CASE UNCHANGED <<machine, run, wire, app>>
      BY <2>2 DEF same
    <2> QED
      BY <1>2, <1>7, <2>1, <2>2 DEF TakeCommand
  <1>8. ASSUME ExchangeFails \/ ResponseTimesOut \/ Cancelled PROVE same
    BY <1>2, <1>8 DEF ExchangeFails, ResponseTimesOut, Cancelled
  <1>9. ASSUME ServerAnswers \/ Disconnect \/ UNCHANGED vars PROVE same
    BY <1>9 DEF ServerAnswers, Disconnect, vars, same
  <1>10. ASSUME ProceedToTarget \/ UserAnswers PROVE same
    BY <1>1, <1>10 DEF ProceedToTarget, UserAnswers, same
  <1> QED
    BY <1>6, <1>7, <1>8, <1>9, <1>10 DEF Next, Client, same

\* A step of an exchange without misuse is one an honest user is a part of.
LEMMA StepHonest ==
    ASSUME Roomy, IInv, HonestInv, [Next]_vars
    PROVE  HonestInv'
  <1> SUFFICES ASSUME app'.misuses = 0 PROVE Honest'
    BY DEF HonestInv
  <1>1. ~Misuse /\ app.misuses = 0
    <2>1. app.misuses \in Nat
      BY AuthenticationAssumption DEF IInv, AppInv
    <2>2. Misuse => app'.misuses = app.misuses + 1
      BY DEF Misuse, IInv, AppInv
    <2>3. ~Misuse => app'.misuses = app.misuses
      BY MisusesCounted
    <2> QED
      BY <2>1, <2>2, <2>3
  <1>2. Honest
    BY <1>1 DEF HonestInv
  <1>3. CASE TakeReply
    BY <1>2, <1>3, TakeReplyHonest
  <1>4. CASE TakeCommand
    BY <1>2, <1>4, TakeCommandHonest
  <1>5. CASE ExchangeFails \/ ResponseTimesOut \/ Cancelled
    BY <1>2, <1>5, GivingUpHonest
  <1>6. CASE ServerAnswers
    BY <1>2, <1>6, ServerAnswersHonest
  <1>7. CASE ProceedToTarget
    BY <1>2, <1>7, ProceedToTargetHonest
  <1>8. CASE UserAnswers
    BY <1>2, <1>8, UserAnswersHonest
  <1>9. CASE Disconnect
    <2>1. channel'.answer = channel.answer /\ UNCHANGED <<machine, run, wire, server, app>>
      BY <1>9 DEF Disconnect, IInv, ChannelInv
    <2> QED
      BY <1>2, <2>1 DEF Honest, HopeInv, Question, NoQuestion
  <1>10. CASE UNCHANGED vars
    BY <1>2, <1>10 DEF vars, Honest
  <1> QED
    BY <1>1, <1>3, <1>4, <1>5, <1>6, <1>7, <1>8, <1>9, <1>10 DEF Next, Client

LEMMA InitHonest ==
    ASSUME Init
    PROVE  HonestInv
  <1>1. /\ machine \in Machines /\ wire = FirstRequest /\ server \in Servers
        /\ run.phase = "exchange" /\ run.outcome = None /\ NoQuestion(app, channel)
    BY DEF Init, Begun, NoQuestion
  <1>2. None \notin Guard \cup Refusal \cup {"authenticated"}
    BY NothingAssumption, NoneAssumption DEF Guard, Refusal, Failure, AuthFailure
  <1>3. FirstRequest.reply = None
    BY DEF FirstRequest, Asking
  <1>4. Served(machine, server) => HopeInv(machine, server, run, wire, Question(app, channel))
    BY <1>1, <1>2, <1>3, BeginningHopeful DEF HopeInv
  <1>5. AskingInv(machine, wire)
    BY <1>1, BeginningAsks
  <1> QED
    BY <1>1, <1>2, <1>4, <1>5 DEF HonestInv, Honest

\* A user who answers each prompt once, and right, is not turned away
\* (HonestUserAdmitted): the guards of the state machine stop nobody who is asked, and
\* what the repository's server waits for is always within reach of the client.
THEOREM HonestAdmitted ==
    ASSUME Roomy
    PROVE  Spec => []HonestUserAdmitted
  <1>1. Init => IInv /\ HonestInv
    BY InitHolds, InitHonest
  <1>2. IInv /\ HonestInv /\ [Next]_vars => (IInv /\ HonestInv)'
    BY StepKeeps, StepHonest
  <1>3. IInv /\ HonestInv => HonestUserAdmitted
    <2> SUFFICES ASSUME IInv, HonestInv, app.misuses = 0
                 PROVE  /\ run.outcome \notin Guard
                        /\ run.outcome \in Refusal =>
                              \/ server.scenario \in {"any", "UnsupportedMethod", "unknown"}
                              \/ app.erred
                              \/ server.scenario \in NeedsKey /\ ~machine.hasKey
      BY DEF HonestUserAdmitted, Guard, Refusal
    <2>1. Honest /\ server \in ServerState
      BY DEF HonestInv, IInv, AdmissionInv, ServerInv
    <2> QED
      BY <2>1 DEF Honest, HopeInv, Served
  <1> QED
    BY <1>1, <1>2, <1>3, PTL DEF Spec
=============================================================================
