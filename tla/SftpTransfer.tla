------------------------------ MODULE SftpTransfer ------------------------------
(***************************************************************************)
(* A file transfer as the native layer runs it (run_file_transfer, lib.rs; *)
(* execute, transfer.rs) against the repository's own SFTP server.         *)
(*                                                                         *)
(* Every remote call is a request the server handles in its turn.  A       *)
(* disconnect request or a deadline makes the client stop waiting; the     *)
(* server handles the request all the same.  PUT writes a temporary file   *)
(* and renames it; GET writes a local one, which the application commits.  *)
(* A file is as many blocks as were copied into it.                        *)
(***************************************************************************)
EXTENDS Integers, Sequences

CONSTANTS
    MaxTransfers,   \* bound: transfers in a behaviour
    Blocks,         \* bound: the blocks of a source
    MaxNames,       \* MAX_AUTOMATIC_NAMES
    QueueSize,      \* events a threadsafe function holds
    Faults,         \* the faults the server is started with
    Excluded,       \* situations left out: {"dropped stage"} or {}
    None

ASSUME SftpTransferAssumption ==
    /\ MaxTransfers \in Nat /\ Blocks \in Nat \ {0}
    /\ MaxNames \in Nat \ {0} /\ QueueSize \in Nat \ {0}
    /\ Faults \subseteq {"None", "PutWriteRemove", "PermissionDenied",
                         "RenameUnsupported", "Unavailable"}
    /\ Excluded \subseteq {"dropped stage"}
    /\ "None" \in Faults

\* None is no reply, no result and no outcome.
ASSUME NoneAssumption ==
    None \notin {"ok", "error", "absent", "directory", "eof", "cancelled", "NETWORK", "AUTH",
                 "SFTP_UNAVAILABLE", "SFTP_TIMEOUT", "REMOTE_PATH", "REMOTE_CONFLICT",
                 "REMOTE_NOT_FOUND", "REMOTE_ERROR", "SOURCE_CHANGED", "REMOTE_CLEANUP",
                 "LOCAL_IO", "SUCCEEDED", "FAILED", "CANCELLED"}

Transfer == 1..MaxTransfers

VARIABLE native

-----------------------------------------------------------------------------
\* A file: absent, another's, a directory, or this transfer's.
File == [kind : {"absent", "other", "directory", "ours"}, blocks : 0..(Blocks + 1)]
Absent == [kind |-> "absent", blocks |-> 0]
Ours(blocks) == [kind |-> "ours", blocks |-> blocks]
Other == [kind |-> "other", blocks |-> Blocks]
Directory == [kind |-> "directory", blocks |-> 0]

RemoteCall == {"lstat", "open", "fstat", "write", "read", "close", "rename", "conflict", "remove"}
LocalCall == {"flush", "sync"}
Executing == RemoteCall \cup LocalCall

Phase == {"none", "connecting", "prompt", "opening", "report", "leaving", "ended"} \cup Executing

Stage == {"preparing", "transferring", "progress", "finalizing"}
Terminal == {"completed", "failed", "cancelled"}

Failure == {"NETWORK", "AUTH", "SFTP_UNAVAILABLE", "SFTP_TIMEOUT", "REMOTE_PATH",
            "REMOTE_CONFLICT", "REMOTE_NOT_FOUND", "REMOTE_ERROR", "SOURCE_CHANGED",
            "REMOTE_CLEANUP", "LOCAL_IO"}

\* remote: the target of a PUT, the source of a GET.  size: where its source ends.
\* requests: what the server has not handled yet, each awaited or given up.
\* abandoned, a ghost: the client gave up the request that creates the temporary file.
Record ==
    [direction : {"put", "get"}, phase : Phase, result : Failure \cup {None, "ok", "cancelled"},
     remote : File, temp : File, size : 0..(Blocks + 1), copied : 0..(Blocks + 1),
     requests : Seq([call : RemoteCall, awaited : BOOLEAN]),
     reply : {None, "ok", "error", "absent", "directory", "eof"},
     localTemp : File, names : [0..(MaxNames - 1) -> File], automatic : BOOLEAN,
     fault : Faults, events : Seq(Stage \cup Terminal), control : Seq({"prompt", "changed"}),
     disconnect : BOOLEAN, abandoned : BOOLEAN]

NoTransfer(direction) ==
    [direction |-> direction, phase |-> "none", result |-> None,
     remote |-> Absent, temp |-> Absent, size |-> Blocks, copied |-> 0,
     requests |-> <<>>, reply |-> None,
     localTemp |-> Absent, names |-> [i \in 0..(MaxNames - 1) |-> Absent], automatic |-> FALSE,
     fault |-> "None", events |-> <<>>, control |-> <<>>,
     disconnect |-> FALSE, abandoned |-> FALSE]

Become(t, n) == native' = [native EXCEPT ![t] = n]

-----------------------------------------------------------------------------
(* Events.  A stage is dropped when the queue is full; the final event      *)
(* waits for room.                                                          *)

HasRoom(n) == Len(n.events) < QueueSize

\* Where the dropping of stages is left out, the queue has room for the next events.
CanTell(n, events) == "dropped stage" \notin Excluded \/ Len(n.events) + events <= QueueSize

Tell(n, stage) == IF HasRoom(n) THEN [n EXCEPT !.events = Append(@, stage)] ELSE n

TerminalEvent(result) ==
    CASE result = "ok" -> "completed"
      [] result = "cancelled" -> "cancelled"
      [] OTHER -> "failed"

-----------------------------------------------------------------------------
\* ssh_start_file_transfer: GET creates its temporary file, or throws.
Started(n) ==
    [n EXCEPT !.phase = "connecting", !.events = <<"preparing">>,
              !.localTemp = IF n.direction = "get" THEN Ours(0) ELSE Absent]

\* ssh_disconnect; nothing once the session has left the map.
Signalled(t) ==
    IF native[t].phase \in {"none", "ended"} THEN native
    ELSE [native EXCEPT ![t].disconnect = TRUE]

Finish(n, result) == [n EXCEPT !.phase = "report", !.result = result, !.reply = None]

\* The client asks the server, giving up whatever it asked before.
Ask(n, call) ==
    [n EXCEPT !.phase = call, !.reply = None,
              !.requests = Append([i \in DOMAIN @ |-> [@[i] EXCEPT !.awaited = FALSE]],
                                  [call |-> call, awaited |-> TRUE])]

-----------------------------------------------------------------------------
(* The connection, its authentication, and the SFTP channel.                *)

ConnectStep(t) ==
    LET n == native[t] IN
    /\ n.phase = "connecting"
    /\ \/ Become(t, [n EXCEPT !.phase = "opening"])
       \/ Become(t, [n EXCEPT !.phase = "prompt", !.control = Append(@, "prompt")])
       \/ Become(t, [Finish(n, "NETWORK") EXCEPT !.control = Append(@, "changed")])
       \/ \E failure \in {"NETWORK", "AUTH"} : Become(t, Finish(n, failure))

\* What the user's answer may lead to: it opens the connection, or ends it.
PromptAnswered(t) ==
    IF native[t].phase = "prompt"
    THEN {[native EXCEPT ![t].phase = "opening"], [native EXCEPT ![t] = Finish(@, "NETWORK")]}
    ELSE {native}

\* An unanswered prompt ends by a deadline: the host key's, or AUTH_RESPONSE_TIMEOUT.
PromptFails(t) ==
    /\ native[t].phase = "prompt"
    /\ Become(t, Finish(native[t], "AUTH"))

\* channel_open_session, request_subsystem, SftpSession::new.
OpenSftp(t) ==
    LET n == native[t]
        ready == Ask(Tell(n, "transferring"), "lstat")
    IN
    /\ n.phase = "opening"
    /\ \/ n.fault # "Unavailable" /\ CanTell(n, 1)
          /\ Become(t, IF n.direction = "put" THEN Tell(ready, "progress") ELSE ready)
       \/ n.fault = "Unavailable" /\ Become(t, Finish(n, "SFTP_UNAVAILABLE"))
       \/ Become(t, Finish(n, "SFTP_TIMEOUT"))

-----------------------------------------------------------------------------
(* The server, FixtureSftp: one request after another.                      *)

\* rename: a hard link, which fails when the target exists, then an unlink.
Renamed(n) ==
    IF n.fault = "RenameUnsupported" \/ n.remote.kind # "absent" \/ n.temp.kind = "absent"
    THEN <<n, "error">>
    ELSE <<[n EXCEPT !.remote = n.temp, !.temp = Absent], "ok">>

Opened(n) ==
    CASE n.fault = "PermissionDenied" -> <<n, "error">>
      [] n.fault # "PermissionDenied" /\ n.direction = "put" ->
            IF n.temp.kind = "absent" THEN <<[n EXCEPT !.temp = Ours(0)], "ok">> ELSE <<n, "error">>
      [] OTHER -> <<n, IF n.remote.kind = "absent" THEN "error" ELSE "ok">>

Written(n) ==
    IF n.fault = "PutWriteRemove" THEN <<n, "error">>
    ELSE <<[n EXCEPT !.temp.blocks = @ + 1], "ok">>

\* An lstat, of the target before a PUT or after a failed rename, of the source of a GET.
Inspected(n) ==
    <<n, CASE n.remote.kind = "absent" -> "absent"
           [] n.remote.kind = "directory" -> "directory"
           [] OTHER -> "ok">>

Removed(n) ==
    CASE n.fault = "PutWriteRemove" -> <<n, "error">>
      [] n.fault # "PutWriteRemove" /\ n.temp.kind = "absent" -> <<n, "absent">>
      [] OTHER -> <<[n EXCEPT !.temp = Absent], "ok">>

Handled(n, call) ==
    CASE call \in {"lstat", "conflict"} -> Inspected(n)
      [] call = "open" -> Opened(n)
      [] call = "write" -> Written(n)
      [] call = "rename" -> Renamed(n)
      [] call = "remove" -> Removed(n)
      [] call = "read" -> <<n, IF n.copied >= n.size THEN "eof" ELSE "ok">>
      [] call \in {"fstat", "close"} -> <<n, "ok">>

Serve(t) ==
    LET n == native[t]
        request == Head(n.requests)
        done == Handled([n EXCEPT !.requests = Tail(@)], request.call)
    IN
    /\ n.requests # <<>>
    /\ Become(t, IF request.awaited THEN [done[1] EXCEPT !.reply = done[2]] ELSE done[1])

-----------------------------------------------------------------------------
(* execute: what follows each answer.                                       *)

\* MUTANT: the cleanup of a failed upload is left out.
FailWithoutCleanup(n, result) == Finish(n, result)

\* The first error of a PUT is kept while its temporary file is removed.
RemoveTemp(n, result) == [Ask(n, "remove") EXCEPT !.result = result]

\* After a failed copy the file is closed, and the first error is kept.
CopyFails(n, result) == [Ask(n, "close") EXCEPT !.result = result]

\* MUTANT: the end of the source is taken for the end of the copy.
CopyEndsUnchecked(n) ==
    Ask(Tell(Tell(n, "progress"), "finalizing"), "close")

\* The source has ended: after as many blocks as it had when it was opened.
CopyEnds(n) ==
    IF n.copied # Blocks THEN CopyFails(n, "SOURCE_CHANGED")
    ELSE Ask(Tell(Tell(n, "progress"), "finalizing"), "close")

\* MUTANT: a block is written after the end of the source.
NextBlockPastEnd(n) ==
    IF n.direction = "get" THEN Ask(n, "read")
    ELSE IF n.copied > n.size THEN CopyEnds(n) ELSE Ask(n, "write")

\* The PUT reads its source locally and sends the block.
NextBlock(n) ==
    IF n.direction = "get" THEN Ask(n, "read")
    ELSE IF n.copied >= n.size THEN CopyEnds(n) ELSE Ask(n, "write")

\* MUTANT: a name that was claimed meanwhile counts as an upload.
ConflictIgnored(n) == RemoveTemp(n, "ok")

OnConflict(n) == RemoveTemp(n, IF n.reply \in {"ok", "directory"} THEN "REMOTE_CONFLICT" ELSE "REMOTE_ERROR")

AfterPut(n) ==
    CASE n.phase = "lstat" ->
            IF n.reply = "absent" THEN Ask(n, "open")
            ELSE Finish(n, IF n.reply = "directory" THEN "REMOTE_PATH" ELSE "REMOTE_CONFLICT")
      [] n.phase = "open" -> IF n.reply = "ok" THEN NextBlock(n) ELSE Finish(n, "REMOTE_ERROR")
      [] n.phase = "write" ->
            IF n.reply = "ok" THEN NextBlock([n EXCEPT !.copied = @ + 1])
            ELSE CopyFails(n, "REMOTE_ERROR")
      [] n.phase = "close" ->
            IF n.result # None THEN RemoveTemp(n, n.result) ELSE Ask(n, "rename")
      [] n.phase = "rename" -> IF n.reply = "ok" THEN Finish(n, "ok") ELSE Ask(n, "conflict")
      [] n.phase = "conflict" -> OnConflict(n)
      [] n.phase = "remove" ->
            Finish(n, IF n.reply = "error" THEN "REMOTE_CLEANUP" ELSE n.result)

AfterGet(n) ==
    CASE n.phase = "lstat" ->
            IF n.reply = "ok" THEN Ask(n, "open")
            ELSE Finish(n, IF n.reply = "absent" THEN "REMOTE_NOT_FOUND" ELSE "REMOTE_PATH")
      [] n.phase = "open" -> IF n.reply = "ok" THEN Ask(n, "fstat") ELSE Finish(n, "REMOTE_ERROR")
      [] n.phase = "fstat" -> NextBlock(Tell(n, "progress"))
      [] n.phase = "read" ->
            IF n.reply = "eof" THEN CopyEnds(n)
            ELSE NextBlock([n EXCEPT !.copied = @ + 1, !.localTemp.blocks = @ + 1])
      [] n.phase = "close" ->
            IF n.result # None THEN Finish(n, n.result) ELSE [n EXCEPT !.phase = "flush", !.reply = None]

After(n) == IF n.direction = "put" THEN AfterPut(n) ELSE AfterGet(n)

\* A copy that is over announces it.
Announces(n) == n.phase \in {"open", "write", "read"} /\ After(n).phase = "close" /\ After(n).result = None

\* The disconnect request is looked at first, but not while the temporary file is removed.
TakeReply(t) ==
    LET n == native[t] IN
    /\ n.phase \in RemoteCall /\ n.reply # None
    /\ n.disconnect => n.phase = "remove"
    /\ Announces(n) => CanTell(n, 2)
    /\ Become(t, After(n))

LocalStep(t) ==
    LET n == native[t] IN
    /\ n.phase \in LocalCall /\ ~n.disconnect
    /\ \/ Become(t, IF n.phase = "flush" THEN [n EXCEPT !.phase = "sync"] ELSE Finish(n, "ok"))
       \/ Become(t, Finish(n, "LOCAL_IO"))

-----------------------------------------------------------------------------
(* Giving up: on a disconnect request, on a deadline, on a lost connection. *)

\* What a call leads to that is given up; before the file is open, nothing is cleaned.
GivenUp(n, result) ==
    LET kept == IF n.result = None THEN result ELSE n.result
        left == [n EXCEPT !.abandoned = @ \/ (n.phase = "open" /\ n.direction = "put")]
    IN
    CASE n.phase \in {"write", "read"} -> CopyFails(left, kept)
      [] n.phase \in {"close", "rename"} /\ n.direction = "put" -> RemoveTemp(left, kept)
      [] n.phase = "conflict" -> RemoveTemp(left, "REMOTE_ERROR")
      [] n.phase = "remove" -> Finish(left, "REMOTE_CLEANUP")
      [] OTHER -> Finish(left, kept)

Cancelled(t) ==
    LET n == native[t] IN
    /\ n.disconnect
    /\ n.phase \in {"connecting", "prompt", "opening"} \cup (Executing \ {"remove"})
    /\ Become(t, [GivenUp(n, "cancelled") EXCEPT !.disconnect = FALSE])

\* SFTP_OPERATION_TIMEOUT, but for the copy, which has none.
TimesOut(t) ==
    LET n == native[t] IN
    /\ n.phase \in Executing \ {"write", "read"} /\ n.reply = None
    /\ Become(t, GivenUp(n, "SFTP_TIMEOUT"))

\* The transfer is dropped where it stands; the server may have received its requests.
ConnectionEnds(t) ==
    LET n == native[t]
        lost == [Finish(n, "NETWORK") EXCEPT !.abandoned = TRUE]
    IN
    /\ n.phase \in Executing
    /\ \/ Become(t, [lost EXCEPT !.requests = <<>>])
       \/ Become(t, [lost EXCEPT !.requests = [i \in DOMAIN @ |-> [@[i] EXCEPT !.awaited = FALSE]]])

-----------------------------------------------------------------------------
\* The final event, then the guards: the session leaves the map, and the
\* local file goes unless the application was told that it is complete.
Report(t) ==
    LET n == native[t] IN
    /\ n.phase = "report" /\ HasRoom(n)
    /\ Become(t, [n EXCEPT !.phase = "leaving", !.events = Append(@, TerminalEvent(n.result))])

Leave(t) ==
    LET n == native[t] IN
    /\ n.phase = "leaving"
    /\ Become(t, [n EXCEPT !.phase = "ended", !.disconnect = FALSE,
                           !.localTemp = IF n.result = "ok" THEN @ ELSE Absent])

-----------------------------------------------------------------------------
(* Others: a file appears under a name, or the source grows or is cut.  It   *)
(* matters when it happens only before the next look at the name or the     *)
(* source, so that is when it does here.                                    *)

ClaimsRemote(t) ==
    LET n == native[t] IN
    /\ n.requests # <<>> /\ Head(n.requests).call \in {"rename", "conflict"}
    /\ n.remote.kind = "absent"
    /\ Become(t, [n EXCEPT !.remote = Other])

SourceChanges(t) ==
    LET n == native[t] IN
    /\ n.phase \in (IF n.direction = "put" THEN {"open", "write"} ELSE {"read"})
    /\ n.size = Blocks /\ n.copied < Blocks
    /\ \E size \in {n.copied, Blocks + 1} : Become(t, [n EXCEPT !.size = size])

ClaimsLocal(t) ==
    LET n == native[t] IN
    /\ n.events # <<>> /\ Head(n.events) = "completed" /\ n.direction = "get"
    /\ \E i \in DOMAIN n.names :
          n.names[i].kind = "absent" /\ Become(t, [n EXCEPT !.names[i] = Other])

\* What the transfer does by itself, and what it may have to put up with.
Progress(t) ==
    \/ ConnectStep(t) \/ OpenSftp(t) \/ TakeReply(t) \/ LocalStep(t)
    \/ Cancelled(t) \/ TimesOut(t)
    \/ Report(t) \/ Leave(t)

NativeStep(t) == Progress(t) \/ PromptFails(t) \/ ConnectionEnds(t)

Surroundings(t) == Serve(t) \/ ClaimsRemote(t) \/ SourceChanges(t) \/ ClaimsLocal(t)
=============================================================================
