---------------------------- MODULE AuthStateMachine ----------------------------
(***************************************************************************)
(* Which authentication method a client tries next, and what it accepts of *)
(* its server and its user (AuthStateMachine, authentication.rs).  A       *)
(* machine is a record; each operator gives the machine and the action     *)
(* that follow.  The lengths of texts and answers are left out.            *)
(***************************************************************************)
EXTENDS Naturals, Sequences

CONSTANTS
    MaxInteractiveRounds,
    MaxAuthStages,
    MaxPromptsPerRound,
    None

ASSUME LimitsAssumption ==
    /\ MaxInteractiveRounds \in Nat
    /\ MaxAuthStages \in Nat \ {0}
    /\ MaxPromptsPerRound \in Nat

AuthMethodKind == {"publickey", "password", "keyboard-interactive"}

AuthFailure == {"NoSupportedMethod", "Rejected", "UnexpectedCredential", "UnexpectedChallenge",
                "StaleChallenge", "ResponseCountMismatch", "ProtocolLimitExceeded"}

AuthAction == {"AttemptPublicKey", "RequestPrivateKeyPassphrase", "RequestPassword",
               "StartKeyboardInteractive", "PresentChallenge", "Submitted"}

ASSUME NoneAssumption ==
    None \notin AuthMethodKind \cup {"passphrase", "authenticated"} /\ None \notin [round : Nat, prompts : Nat]

\* any_method_attempted says that attempted is not empty.
Machine ==
    [hasKey : BOOLEAN, locked : BOOLEAN,
     attempted : SUBSET AuthMethodKind,
     waitingFor : {None, "passphrase", "password"},
     pending : {None} \cup [round : 1..MaxInteractiveRounds, prompts : 0..MaxPromptsPerRound],
     nextRound : 1..(MaxInteractiveRounds + 1),
     rounds : 0..MaxInteractiveRounds, stages : 1..MaxAuthStages]

NewMachine(hasKey, locked) ==
    [hasKey |-> hasKey, locked |-> locked, attempted |-> {}, waitingFor |-> None,
     pending |-> None, nextRound |-> 1, rounds |-> 0, stages |-> 1]

Then(action, m) == [action |-> action, machine |-> m]

-----------------------------------------------------------------------------

\* A partial success starts another stage: every method may be tried again.
StageFor(m, partial) ==
    IF partial THEN [m EXCEPT !.stages = @ + 1, !.attempted = {}] ELSE m

\* MUTANT: a method that was tried is tried again.
NextMethodAgain(m, offered) ==
    IF m.hasKey /\ "publickey" \in offered THEN "publickey"
    ELSE IF "keyboard-interactive" \in offered \ m.attempted THEN "keyboard-interactive"
    ELSE IF "password" \in offered \ m.attempted THEN "password" ELSE None

\* The order in which methods are tried.
NextMethod(m, offered) ==
    LET untried == offered \ m.attempted IN
    IF m.hasKey /\ "publickey" \in untried THEN "publickey"
    ELSE IF "keyboard-interactive" \in untried THEN "keyboard-interactive"
    ELSE IF "password" \in untried THEN "password" ELSE None

Try(m, method, partial) ==
    LET tried == [m EXCEPT !.attempted = @ \cup {method}] IN
    CASE method = "publickey" /\ m.locked ->
            Then("RequestPrivateKeyPassphrase", [m EXCEPT !.waitingFor = "passphrase"])
      [] method = "publickey" /\ ~m.locked -> Then("AttemptPublicKey", tried)
      [] method = "keyboard-interactive" -> Then("StartKeyboardInteractive", tried)
      [] method = "password" -> Then("RequestPassword", [m EXCEPT !.waitingFor = "password"])
      [] method = None ->
            Then(IF partial \/ m.attempted # {} THEN "Rejected" ELSE "NoSupportedMethod", m)

SelectNextMethod(m, offered, partial) ==
    IF m.waitingFor # None \/ m.pending # None THEN Then("UnexpectedCredential", m)
    ELSE IF partial /\ m.stages >= MaxAuthStages THEN Then("ProtocolLimitExceeded", m)
    ELSE LET fresh == StageFor(m, partial)
         IN  Try(fresh, NextMethod(fresh, offered), partial)

-----------------------------------------------------------------------------
SubmitPrivateKeyPassphrase(m) ==
    IF m.waitingFor # "passphrase" THEN Then("UnexpectedCredential", m)
    ELSE Then("AttemptPublicKey", [m EXCEPT !.waitingFor = None, !.attempted = @ \cup {"publickey"}])

SubmitPassword(m) ==
    IF m.waitingFor # "password" THEN Then("UnexpectedCredential", m)
    ELSE Then("Submitted", [m EXCEPT !.waitingFor = None, !.attempted = @ \cup {"password"}])

\* MUTANT: the rounds are not limited.
PresentChallengeUnlimited(m, count) ==
    IF "keyboard-interactive" \notin m.attempted \/ m.pending # None THEN
        Then("UnexpectedChallenge", m)
    ELSE
        Then("PresentChallenge", [m EXCEPT !.pending = [round |-> m.nextRound, prompts |-> count],
                                           !.nextRound = @ + 1])

PresentChallenge(m, count) ==
    IF "keyboard-interactive" \notin m.attempted \/ m.pending # None THEN
        Then("UnexpectedChallenge", m)
    ELSE IF m.rounds >= MaxInteractiveRounds \/ count > MaxPromptsPerRound THEN
        Then("ProtocolLimitExceeded", m)
    ELSE
        Then("PresentChallenge", [m EXCEPT !.pending = [round |-> m.nextRound, prompts |-> count],
                                           !.nextRound = @ + 1, !.rounds = @ + 1])

\* MUTANT: the challenge stays pending after its answer.
ValidateResponsesKept(m, round, count) ==
    IF m.pending = None THEN Then("UnexpectedChallenge", m)
    ELSE IF round # m.pending.round THEN Then("StaleChallenge", m)
    ELSE IF count # m.pending.prompts THEN Then("ResponseCountMismatch", m)
    ELSE Then("Submitted", m)

ValidateResponses(m, round, count) ==
    IF m.pending = None THEN Then("UnexpectedChallenge", m)
    ELSE IF round # m.pending.round THEN Then("StaleChallenge", m)
    ELSE IF count # m.pending.prompts THEN Then("ResponseCountMismatch", m)
    ELSE Then("Submitted", [m EXCEPT !.pending = None])
=============================================================================
