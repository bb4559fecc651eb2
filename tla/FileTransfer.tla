------------------------------ MODULE FileTransfer ------------------------------
(***************************************************************************)
(* The put and get commands of a pane: the preparation of the local file,  *)
(* the events of the native transfer, the commit of a download and what    *)
(* the user is told (SessionViewModel.ets, FileTransferLifecycle.ets,      *)
(* FileTransferClient.ets, TransferFileManager.ets).                       *)
(*                                                                         *)
(* The pane runs on one thread; the transfer, the server and other         *)
(* processes run beside it.  A transfer has a queue of stage events and    *)
(* one of host-key events, which may be delivered in either order.         *)
(***************************************************************************)
EXTENDS SftpTransfer

VARIABLES pane

vars == <<native, pane>>

-----------------------------------------------------------------------------
\* FileTransferPhase.
Active == {"PREPARING", "TRANSFERRING", "FINALIZING"}
Ended == {"SUCCEEDED", "FAILED", "CANCELLED"}
FileTransferPhase == {"IDLE"} \cup Active \cup Ended

\* PROMPT stands for the modes in which a question of the transfer is answered.
Mode == {"IDLE", "TRANSFERRING", "PROMPT"}

NoneYet == 0

\* current: the transfer the client, the command and the completion belong to.
\* told, a ghost: the outcome the user was given.
PaneRecord ==
    [phase : FileTransferPhase, mode : Mode, current : {NoneYet} \cup Transfer,
     begun : {NoneYet} \cup Transfer, awaiting : BOOLEAN, cancel : BOOLEAN,
     controlFailure : BOOLEAN, closing : BOOLEAN, closed : BOOLEAN,
     told : [Transfer -> {None} \cup Ended]]

Init ==
    /\ native = [t \in Transfer |-> NoTransfer("put")]
    /\ pane = [phase |-> "IDLE", mode |-> "IDLE", current |-> NoneYet, begun |-> NoneYet,
               awaiting |-> FALSE, cancel |-> FALSE, controlFailure |-> FALSE,
               closing |-> FALSE, closed |-> FALSE, told |-> [t \in Transfer |-> None]]

-----------------------------------------------------------------------------
CanTransition(current, next) ==
    \/ current = next /\ current \in Active
    \/ <<current, next>> \in {<<"IDLE", "PREPARING">>, <<"PREPARING", "TRANSFERRING">>,
                             <<"TRANSFERRING", "FINALIZING">>, <<"FINALIZING", "SUCCEEDED">>}
    \/ current \in Active /\ next \in {"FAILED", "CANCELLED"}
    \/ current \in Ended /\ next = "IDLE"

\* setFileTransferPhase: a transition that is not allowed is only logged.
To(phase, next) == IF CanTransition(phase, next) THEN next ELSE phase

\* finishFileTransferState; whoever closes the pane has waited for it.
FinishTransfer(p, outcome) ==
    [p EXCEPT !.phase = To(To(@, outcome), "IDLE"), !.mode = "IDLE",
              !.current = NoneYet, !.awaiting = FALSE, !.controlFailure = FALSE,
              !.cancel = FALSE, !.told[p.current] = outcome, !.closed = @ \/ p.closing]

-----------------------------------------------------------------------------
(* A put or a get command.                                                  *)

\* What it may find: the server and its files, the names in Downloads.
Found ==
    {[NoTransfer("put") EXCEPT !.remote = file, !.fault = fault] :
        file \in {Absent, Other, Directory}, fault \in Faults}
    \cup
    {[NoTransfer("get") EXCEPT !.remote = file, !.fault = fault, !.automatic = automatic,
                               !.names = names] :
        file \in {Absent, Other, Directory}, fault \in Faults, automatic \in BOOLEAN,
        names \in {[NoTransfer("get").names EXCEPT ![0] = name] : name \in {Absent, Other}}}

\* Nothing is left of it but host-key events on their way.
AtRest(t) ==
    /\ native[t].phase \in {"none", "ended"} /\ pane.current # t
    /\ native[t].requests = <<>> /\ native[t].events = <<>>

\* A transfer begins when the others are at rest, and these are forgotten.
Forgetting(t, found) ==
    [u \in Transfer |-> IF u = t THEN found
                        ELSE [NoTransfer("put") EXCEPT !.phase = native[u].phase,
                                                       !.control = native[u].control]]

\* startFileTransfer, up to the wait for access to Downloads.
Begin ==
    LET t == pane.begun + 1 IN
    /\ pane.mode = "IDLE" /\ ~pane.closed /\ t \in Transfer
    /\ CanTransition(pane.phase, "PREPARING") /\ \A u \in Transfer : AtRest(u)
    /\ \E found \in Found : native' = Forgetting(t, found)
    /\ pane' = [pane EXCEPT !.phase = "PREPARING", !.mode = "TRANSFERRING", !.current = t,
                            !.begun = t, !.awaiting = TRUE, !.cancel = FALSE,
                            !.controlFailure = FALSE,
                            !.told = [u \in Transfer |-> None]]

\* prepareGet refuses an explicit name that is taken.
NameRefused(n) == n.direction = "get" /\ ~n.automatic /\ n.names[0].kind # "absent"

\* Access to Downloads is granted or denied, or the wait for it is cancelled.
PreparationEnds ==
    /\ pane.awaiting
    /\ \/ /\ ~pane.cancel /\ ~NameRefused(native[pane.current])
          /\ native' = [native EXCEPT ![pane.current] = Started(@)]
          /\ pane' = [pane EXCEPT !.awaiting = FALSE]
       \/ /\ pane' = FinishTransfer(pane, IF pane.cancel THEN "CANCELLED" ELSE "FAILED")
          /\ UNCHANGED native

-----------------------------------------------------------------------------
(* The events of the transfer; those of another than the current are stale. *)

\* moveFileSync without replacement; an automatic name is the first one free.
CommitNames(n) ==
    LET allowed == IF n.automatic THEN 0..(MaxNames - 1) ELSE {0} IN
    {i \in allowed : n.names[i].kind = "absent"
                     /\ \A j \in 0..(i - 1) : n.names[j].kind # "absent"}

Cleaned(n) == [n EXCEPT !.localTemp = Absent]

\* completeFileTransfer: what becomes of the files, and the outcome.
Completion(n) ==
    IF n.direction = "put" THEN <<n, "SUCCEEDED">>
    ELSE IF CommitNames(n) = {} THEN <<Cleaned(n), "FAILED">>
    ELSE LET i == CHOOSE i \in CommitNames(n) : TRUE IN
         <<[n EXCEPT !.names[i] = n.localTemp, !.localTemp = Absent], "SUCCEEDED">>

\* Any other final event: the local file is removed.
Failing(n, event) ==
    <<Cleaned(n), IF event = "cancelled" /\ ~pane.controlFailure THEN "CANCELLED" ELSE "FAILED">>

StagePhase(event) ==
    CASE event = "preparing" -> "PREPARING"
      [] event = "transferring" -> "TRANSFERRING"
      [] event = "finalizing" -> "FINALIZING"

\* MUTANT: the transfer that an event comes from is not looked at.
OfAnyTransfer(t) == TRUE

\* handleNativeTransferEvent, handleNativeControlEvent: others are rejected as stale.
IsCurrent(t) == pane.current = t

\* onFileTransferProgress.
TakeEvent(t) ==
    LET n == native[t]
        event == Head(n.events)
        taken == [n EXCEPT !.events = Tail(@)]
        ended == IF event = "completed" THEN Completion(taken) ELSE Failing(taken, event)
    IN
    /\ n.events # <<>>
    /\ IF ~IsCurrent(t) \/ event = "progress"
       THEN Become(t, taken) /\ UNCHANGED pane
       ELSE IF event \in Terminal
       THEN Become(t, ended[1]) /\ pane' = FinishTransfer(pane, ended[2])
       ELSE /\ Become(t, taken)
            /\ pane' = [pane EXCEPT !.phase = To(@, StagePhase(event)), !.mode = "TRANSFERRING"]

\* onTransferAuthEvent.
TakeControl(t) ==
    LET n == native[t]
        taken == [native EXCEPT ![t].control = Tail(@)]
    IN
    /\ n.control # <<>>
    /\ IF ~IsCurrent(t) THEN native' = taken /\ UNCHANGED pane
       ELSE IF Head(n.control) = "prompt"
       THEN native' = taken /\ pane' = [pane EXCEPT !.mode = "PROMPT"]
       ELSE /\ native' = [Signalled(t) EXCEPT ![t].control = Tail(@)]
            /\ pane' = [pane EXCEPT !.controlFailure = TRUE]

-----------------------------------------------------------------------------
(* The user.                                                                *)

\* An answer to a session that has gone is not accepted, and the mode stays.
AnswerPrompt ==
    LET t == pane.current IN
    /\ pane.mode = "PROMPT"
    /\ native[t].phase # "ended"
    /\ \E answered \in PromptAnswered(t) : native' = answered
    /\ pane' = [pane EXCEPT !.mode = "TRANSFERRING"]

\* The approved host key cannot be stored: the mode stays.
HostKeyNotRetained ==
    LET t == pane.current IN
    /\ pane.mode = "PROMPT" /\ t # NoneYet
    /\ native' = Signalled(t)
    /\ pane' = [pane EXCEPT !.controlFailure = TRUE]

\* MUTANT: only the wait for Downloads is cancelled.
RequestPreparationOnly == native

\* requestFileTransferCancellation: the wait for Downloads, and the native transfer.
Request == IF pane.current = NoneYet THEN native ELSE Signalled(pane.current)

\* Ctrl-C.
CancelTransfer ==
    /\ pane.mode # "IDLE" /\ pane.phase \in Active
    /\ native' = Request
    /\ pane' = [pane EXCEPT !.cancel = TRUE, !.mode = "TRANSFERRING"]

\* disconnect: it waits for the transfer to end.
Close ==
    /\ ~pane.closing /\ ~pane.closed
    /\ IF pane.phase \in Active
       THEN /\ native' = Request
            /\ pane' = IF pane.current = NoneYet
                       THEN [pane EXCEPT !.cancel = TRUE, !.closed = TRUE]
                       ELSE [pane EXCEPT !.cancel = TRUE, !.closing = TRUE]
       ELSE pane' = [pane EXCEPT !.closed = TRUE] /\ UNCHANGED native

-----------------------------------------------------------------------------
Native(t) == NativeStep(t) /\ UNCHANGED pane
Around(t) == Surroundings(t) /\ UNCHANGED pane

Next ==
    \/ Begin \/ PreparationEnds
    \/ \E t \in Transfer : TakeEvent(t) \/ TakeControl(t) \/ Native(t) \/ Around(t)
    \/ AnswerPrompt \/ HostKeyNotRetained \/ CancelTransfer \/ Close

Spec == Init /\ [][Next]_vars

\* A cancelled wait ends, events are delivered, the transfer goes on and its deadlines
\* pass.  The server need not answer, the connection need not end, nobody needs to act.
Fairness ==
    /\ WF_vars(PreparationEnds /\ pane.cancel)
    /\ \A t \in Transfer :
          WF_vars(TakeEvent(t)) /\ WF_vars(TakeControl(t)) /\ WF_vars(Progress(t) /\ UNCHANGED pane)

FairSpec == Spec /\ Fairness

-----------------------------------------------------------------------------
(* Properties.                                                              *)

\* native and pane only hold values of their types.
TypeOK == native \in [Transfer -> Record] /\ pane \in PaneRecord

LocalNames(n) == {n.names[i] : i \in DOMAIN n.names}

\* A final name, on the server or in Downloads, only ever gets a whole file, and a file
\* that has one is not replaced, removed or written to, also when it appeared while the
\* transfer ran (rename, moveFileSync): whatever is cut short, cancelled or fails.
FinalNamesSafe ==
    [][pane'.begun = pane.begun => \A t \in Transfer :
          /\ native[t].remote.kind \in {"other", "directory"} => native'[t].remote = native[t].remote
          /\ \A i \in DOMAIN native[t].names :
                native[t].names[i].kind = "other" => native'[t].names[i] = native[t].names[i]
          /\ \A file \in {native'[t].remote} \cup LocalNames(native'[t]) :
                file.kind = "ours" => file.blocks = Blocks]_vars

Arrived(n) ==
    IF n.direction = "put" THEN n.remote.kind = "ours"
    ELSE \E file \in LocalNames(n) : file.kind = "ours"

\* The user is told of success only when the file has its name, and of the failure or
\* the cancellation of a download only when no file of it is left in Downloads.
ToldTheTruth ==
    \A t \in Transfer :
        LET n == native[t] IN
        /\ pane.told[t] = "SUCCEEDED" => Arrived(n) /\ n.temp.kind = "absent"
        /\ (pane.told[t] \in {"FAILED", "CANCELLED"} /\ n.direction = "get") =>
              ~Arrived(n) /\ n.localTemp.kind = "absent"

\* A transfer that is over leaves no temporary file: none in Downloads, and on the
\* server only if its removal failed and that is what the transfer reported, if the
\* connection was lost, or if the request that creates it was given up.
TemporaryFilesGone ==
    \A t \in Transfer : AtRest(t) =>
        /\ native[t].localTemp.kind = "absent"
        /\ native[t].temp.kind = "absent" \/ native[t].result = "REMOTE_CLEANUP" \/ native[t].abandoned

\* A pane that shows its prompt can transfer again, and one that has no transfer shows
\* its prompt: the mode and the lifecycle are idle together, whatever events come late.
PaneFreed == pane.mode = "IDLE" <=> pane.phase = "IDLE"

\* A transfer that is cancelled, by the user or by closing its pane, is over at some
\* time, whatever it waits for and however slow the server is.
CancellationSettles == pane.cancel ~> (pane.current = NoneYet)
=============================================================================
