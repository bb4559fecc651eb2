------------------------------- MODULE AuthFixture -------------------------------
(***************************************************************************)
(* The answers of the repository's own SSH server to a client's            *)
(* authentication requests (ssh-auth-fixture, main.rs): one scenario per   *)
(* user name.  Each operator gives the server's state and its reply.       *)
(***************************************************************************)
Scenario ==
    {"Password", "PublicKey", "PasswordKeyboardInteractive", "PublicKeyPassword",
     "PublicKeyKeyboardInteractive", "KeyboardInteractiveMultiRound",
     "KeyboardInteractiveZeroPrompt", "UnsupportedMethod", "KeyInstall", "unknown"}

\* ChannelDenied, Navigation and Mosh authenticate as Password does.

NewClient(scenario, keyInstalled) ==
    [scenario |-> scenario, keyInstalled |-> keyInstalled,
     passwordComplete |-> FALSE, publicKeyComplete |-> FALSE, waitingForSecond |-> FALSE,
     proved |-> {}]            \* ghost: the factors the client has shown

Accept == [kind |-> "success"]
Reject(methods, partial) == [kind |-> "failure", offered |-> methods, partial |-> partial]
InteractivePrompt(prompts) == [kind |-> "info", prompts |-> prompts]

Reply(server, reply) == [server |-> server, reply |-> reply]
Proved(server, factors) == [server EXCEPT !.proved = @ \cup factors]

InitialMethods(scenario) ==
    CASE scenario = "KeyInstall" -> {"publickey", "password"}
      [] scenario \in {"Password", "PasswordKeyboardInteractive"} -> {"password"}
      [] scenario \in {"PublicKey", "PublicKeyPassword", "PublicKeyKeyboardInteractive"} -> {"publickey"}
      [] scenario \in {"KeyboardInteractiveMultiRound", "KeyboardInteractiveZeroPrompt"} ->
            {"keyboard-interactive"}
      [] scenario = "UnsupportedMethod" -> {"hostbased"}
      [] scenario = "unknown" -> {}

-----------------------------------------------------------------------------
OnNone(s) ==
    Reply(s, Reject(IF s.scenario = "UnsupportedMethod" THEN {"hostbased"}
                    ELSE {"publickey", "password", "keyboard-interactive", "hostbased"}, FALSE))

OnPassword(s, password) ==
    LET shown == Proved(s, {"password"}) IN
    CASE s.scenario = "unknown" -> Reply(s, Reject({}, FALSE))
      [] s.scenario # "unknown" /\ password # "password" ->
            Reply(s, Reject({"password"}, s.publicKeyComplete))
      [] OTHER ->
            CASE s.scenario \in {"Password", "KeyInstall"} -> Reply(shown, Accept)
              [] s.scenario = "PasswordKeyboardInteractive" ->
                    Reply([shown EXCEPT !.passwordComplete = TRUE],
                          Reject({"keyboard-interactive"}, TRUE))
              [] s.scenario = "PublicKeyPassword" ->
                    Reply(shown, IF s.publicKeyComplete THEN Accept ELSE Reject({"publickey"}, FALSE))
              [] OTHER -> Reply(shown, Reject(InitialMethods(s.scenario), FALSE))

OnPublicKey(s) ==
    LET shown == Proved(s, {"publickey"})
        complete == [shown EXCEPT !.publicKeyComplete = TRUE]
    IN
    CASE s.scenario = "PublicKey" -> Reply(shown, Accept)
      [] s.scenario = "KeyInstall" ->
            Reply(shown, IF s.keyInstalled THEN Accept ELSE Reject({"password"}, FALSE))
      [] s.scenario = "PublicKeyPassword" -> Reply(complete, Reject({"password"}, TRUE))
      [] s.scenario = "PublicKeyKeyboardInteractive" ->
            Reply(complete, Reject({"keyboard-interactive"}, TRUE))
      [] OTHER -> Reply(s, Reject(InitialMethods(s.scenario), FALSE))

-----------------------------------------------------------------------------
\* answers: none, or one list.  Two values in one round, after the first factor.
OnTwoValues(s, answers) ==
    CASE answers = <<>> -> Reply(s, InteractivePrompt(<<"account", "token">>))
      [] answers = << <<"account", "token">> >> -> Reply(Proved(s, {"account", "token"}), Accept)
      [] OTHER -> Reply(s, Reject({"keyboard-interactive"}, TRUE))

\* MUTANT: the first round's answer is not compared.
OnTwoRoundsUnchecked(s, answers) ==
    CASE answers = <<>> /\ ~s.waitingForSecond -> Reply(s, InteractivePrompt(<<"account">>))
      [] answers # <<>> /\ ~s.waitingForSecond ->
            Reply([s EXCEPT !.waitingForSecond = TRUE], InteractivePrompt(<<"second token">>))
      [] answers = <<>> /\ s.waitingForSecond -> Reply(s, InteractivePrompt(<<"second token">>))
      [] answers = << <<"second token">> >> /\ s.waitingForSecond ->
            Reply(Proved(s, {"second token"}), Accept)
      [] OTHER -> Reply([s EXCEPT !.waitingForSecond = FALSE], Reject({"keyboard-interactive"}, FALSE))

\* One value in each of two rounds; a mistake starts over.
OnTwoRounds(s, answers) ==
    CASE answers = <<>> /\ ~s.waitingForSecond -> Reply(s, InteractivePrompt(<<"account">>))
      [] answers = << <<"account">> >> /\ ~s.waitingForSecond ->
            Reply([Proved(s, {"account"}) EXCEPT !.waitingForSecond = TRUE],
                  InteractivePrompt(<<"second token">>))
      [] answers = <<>> /\ s.waitingForSecond -> Reply(s, InteractivePrompt(<<"second token">>))
      [] answers = << <<"second token">> >> /\ s.waitingForSecond ->
            Reply(Proved(s, {"second token"}), Accept)
      [] OTHER -> Reply([s EXCEPT !.waitingForSecond = FALSE], Reject({"keyboard-interactive"}, FALSE))

OnNoPrompts(s, answers) ==
    Reply(s, CASE answers = <<>> -> InteractivePrompt(<<>>)
               [] answers = << <<>> >> -> Accept
               [] OTHER -> Reject({"keyboard-interactive"}, FALSE))

\* The request that starts the method brings no list of answers, a later one a list.
OnKeyboardInteractive(s, answers) ==
    CASE s.scenario = "PasswordKeyboardInteractive" ->
            IF s.passwordComplete THEN OnTwoValues(s, answers)
            ELSE Reply(s, Reject({"password"}, FALSE))
      [] s.scenario = "PublicKeyKeyboardInteractive" ->
            IF s.publicKeyComplete THEN OnTwoValues(s, answers)
            ELSE Reply(s, Reject({"publickey"}, FALSE))
      [] s.scenario = "KeyboardInteractiveMultiRound" -> OnTwoRounds(s, answers)
      [] s.scenario = "KeyboardInteractiveZeroPrompt" -> OnNoPrompts(s, answers)
      [] OTHER -> Reply(s, Reject(InitialMethods(s.scenario), FALSE))

\* The factors without which the scenario lets nobody in: one of these sets.
Required(s) ==
    CASE s.scenario = "Password" -> {{"password"}}
      [] s.scenario = "PublicKey" -> {{"publickey"}}
      [] s.scenario = "PasswordKeyboardInteractive" -> {{"password", "account", "token"}}
      [] s.scenario = "PublicKeyPassword" -> {{"publickey", "password"}}
      [] s.scenario = "PublicKeyKeyboardInteractive" -> {{"publickey", "account", "token"}}
      [] s.scenario = "KeyboardInteractiveMultiRound" -> {{"account", "second token"}}
      [] s.scenario = "KeyboardInteractiveZeroPrompt" -> {{}}
      [] s.scenario = "KeyInstall" ->
            {{"password"}} \cup (IF s.keyInstalled THEN {{"publickey"}} ELSE {})
      [] OTHER -> {}
=============================================================================
