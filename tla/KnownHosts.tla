------------------------------ MODULE KnownHosts ------------------------------
(***************************************************************************)
(* Host trust: the .ssh/known_hosts file (KnownHostsFile.ets), the queue   *)
(* that serialises every operation on it, and the one-time migration of    *)
(* the record an older version kept in the durable store                   *)
(* (DurableStateManager.ets).                                              *)
(*                                                                         *)
(* Each await is a step: a platform call may fail there, and the process   *)
(* may die there, with or without loss of what was not yet synced.         *)
(***************************************************************************)
EXTENDS Naturals, Sequences

CONSTANTS
    Line,           \* known_hosts entries
    Host,
    HostOf,         \* [Line -> Host]
    Client,         \* the panes; each awaits one operation at a time
    None

ASSUME KnownHostsAssumption == HostOf \in [Line -> Host]

VARIABLES
    file,           \* known_hosts as it is read now
    synced,         \* known_hosts as a power loss would leave it
    tmp,            \* known_hosts.tmp, or None
    legacy,         \* the durable store's record, or None
    prepared,       \* knownHostsPrepared
    queue,          \* operations chained on knownHostsOperation
    pc,             \* the await at which the first of them is suspended
    content,        \* the text KnownHostsFile.write was given
    must, may       \* ghosts: entries acknowledged, entries ever asked for

disk == <<file, synced, tmp, legacy>>
trust == <<must, may>>
vars == <<disk, prepared, queue, pc, content, trust>>

-----------------------------------------------------------------------------
\* A file's lines, and whether its bytes were fsynced.
FileState == [lines : SUBSET Line, safe : BOOLEAN]

Operation ==
    [client : Client, kind : {"commit"}, line : Line]
        \cup [client : Client, kind : {"remove"}, host : Host]
        \cup [client : Client, kind : {"find", "prepare"}]

LinesOf(h) == {l \in Line : HostOf[l] = h}

\* What decides trust: the record that is not migrated yet, or the file.
Authority == IF legacy # None THEN legacy ELSE file.lines

\* The function given to updateKnownHosts.
Update(op, current) ==
    CASE op.kind = "commit" -> current \cup {op.line}
      [] op.kind = "remove" -> current \ LinesOf(op.host)
      [] OTHER -> current

Init ==
    /\ file \in [lines : SUBSET Line, safe : {TRUE}]
    /\ synced = file
    /\ tmp = None
    /\ legacy \in {None} \cup SUBSET Line
    /\ prepared = FALSE
    /\ queue = <<>>
    /\ pc = "idle"
    /\ content = {}
    /\ must = Authority
    /\ may = Authority

-----------------------------------------------------------------------------
(* write's awaits are the same in the migration and in an update.          *)

WriteSteps == {"open", "fill", "fsync", "rename", "directory"}
MigrateTo ==
    [open |-> "migrate open", fill |-> "migrate fill", fsync |-> "migrate fsync",
     rename |-> "migrate rename", directory |-> "migrate directory"]

Migrating == \E s \in WriteSteps : pc = MigrateTo[s]
Writing == pc \in WriteSteps \/ Migrating

At(s) == pc \in {s, MigrateTo[s]}
GoTo(s) == pc' = IF Migrating THEN MigrateTo[s] ELSE s

-----------------------------------------------------------------------------
(* runKnownHostsOperation *)

Request(op) ==
    /\ \A i \in DOMAIN queue : queue[i].client # op.client
    /\ queue' = Append(queue, op)
    /\ UNCHANGED <<disk, prepared, pc, content, trust>>

\* The operation at the head begins: until it settles its outcome is open.
Begin ==
    /\ pc = "idle"
    /\ queue # <<>>
    /\ LET op == Head(queue)
       IN /\ may' = may \cup (IF op.kind = "commit" THEN {op.line} ELSE {})
          /\ must' = must \ (IF op.kind = "remove" THEN LinesOf(op.host) ELSE {})
    /\ pc' = IF prepared THEN "update" ELSE "migrate"
    /\ UNCHANGED <<disk, prepared, queue, content>>

Settle(entriesIn, entriesOut) ==
    /\ must' = must \cup entriesIn
    /\ may' = may \ entriesOut
    /\ queue' = Tail(queue)
    /\ pc' = "idle"
    /\ content' = {}

Acknowledge ==
    LET op == Head(queue)
    IN Settle(IF op.kind = "commit" THEN {op.line} ELSE {},
              IF op.kind = "remove" THEN LinesOf(op.host) ELSE {})

\* A rejected operation settles too, and the next one begins.
Reject == Settle({}, {})

\* KnownHostsFile.write unlinks its temporary file, if that succeeds.
Unlink == tmp' \in {tmp, None}

\* Mutant: a failed operation stays at the head of the queue.
FailsAndRetries ==
    /\ pc # "idle"
    /\ pc' = "idle"
    /\ content' = {}
    /\ UNCHANGED <<disk, prepared, queue, trust>>

Fails ==
    /\ pc # "idle"
    /\ Reject
    /\ IF Writing THEN Unlink ELSE UNCHANGED tmp
    /\ UNCHANGED <<file, synced, legacy, prepared>>

-----------------------------------------------------------------------------
(* prepareKnownHosts *)

ReadLegacy ==
    /\ pc = "migrate"
    /\ IF legacy = None
       THEN pc' = "retire" /\ UNCHANGED content
       ELSE pc' = MigrateTo["open"] /\ content' = legacy
    /\ UNCHANGED <<disk, prepared, queue, trust>>

\* Mutant: the migration counts as done although the retirement failed.
RetireLegacyOrIgnore ==
    /\ pc = "retire"
    /\ legacy' \in {legacy, None}
    /\ prepared' = TRUE
    /\ pc' = "update"
    /\ UNCHANGED <<file, synced, tmp, queue, content, trust>>

\* removeAsync: the pointer is gone, the chunks may remain if it then fails.
RetireLegacy ==
    /\ pc = "retire"
    /\ legacy' = None
    /\ \/ /\ prepared' = TRUE
          /\ pc' = "update"
          /\ UNCHANGED <<queue, content, trust>>
       \/ /\ Reject
          /\ UNCHANGED prepared
    /\ UNCHANGED <<file, synced, tmp>>

-----------------------------------------------------------------------------
(* updateKnownHosts, readKnownHosts *)

ReadAndUpdate ==
    /\ pc = "update"
    /\ LET updated == Update(Head(queue), file.lines)
       IN IF Head(queue).kind = "commit" \/ updated # file.lines
          THEN /\ pc' = "open"
               /\ content' = updated
               /\ UNCHANGED <<disk, prepared, queue, trust>>
          ELSE /\ Settle({}, {})
               /\ UNCHANGED <<disk, prepared>>

-----------------------------------------------------------------------------
(* KnownHostsFile.write, of the migration or of an update *)

OpenTemporary ==
    /\ At("open")
    /\ tmp' = [lines |-> {}, safe |-> FALSE]
    /\ GoTo("fill")
    /\ UNCHANGED <<file, synced, legacy, prepared, queue, content, trust>>

\* Mutant: the bytes are not fsynced before the rename.
FillTemporaryUnsynced ==
    /\ At("fill")
    /\ tmp' = [tmp EXCEPT !.lines = content]
    /\ GoTo("rename")
    /\ UNCHANGED <<file, synced, legacy, prepared, queue, content, trust>>

\* A short write is an error.
FillTemporary ==
    /\ At("fill")
    /\ \E written \in SUBSET content :
        IF written = content
        THEN /\ tmp' = [tmp EXCEPT !.lines = written]
             /\ GoTo("fsync")
             /\ UNCHANGED <<queue, content, trust>>
        ELSE /\ Reject
             /\ Unlink
    /\ UNCHANGED <<file, synced, legacy, prepared>>

\* Mutant: the temporary file is unlinked as soon as it is closed.
SyncTemporaryAndUnlink ==
    /\ At("fsync")
    /\ tmp' = None
    /\ GoTo("rename")
    /\ UNCHANGED <<file, synced, legacy, prepared, queue, content, trust>>

SyncTemporary ==
    /\ At("fsync")
    /\ tmp' = [tmp EXCEPT !.safe = TRUE]
    /\ GoTo("rename")
    /\ UNCHANGED <<file, synced, legacy, prepared, queue, content, trust>>

Rename ==
    /\ At("rename")
    /\ file' = tmp
    /\ tmp' = None
    /\ GoTo("directory")
    /\ UNCHANGED <<synced, legacy, prepared, queue, content, trust>>

SyncDirectories ==
    /\ At("directory")
    /\ synced' = file
    /\ IF Migrating
       THEN /\ pc' = "retire"
            /\ UNCHANGED <<prepared, queue, content, trust>>
       ELSE /\ Acknowledge
            /\ UNCHANGED prepared
    /\ UNCHANGED <<file, tmp, legacy>>

-----------------------------------------------------------------------------
\* The process dies.  What was not fsynced may be lost, and a rename whose
\* directory was not synced may be undone.
Crash ==
    /\ \E survives \in {file, synced} :
        \E kept \in IF survives.safe THEN {survives.lines} ELSE SUBSET survives.lines :
            /\ file' = [lines |-> kept, safe |-> TRUE]
            /\ synced' = file'
    /\ prepared' = FALSE
    /\ queue' = <<>>
    /\ pc' = "idle"
    /\ content' = {}
    /\ UNCHANGED <<tmp, legacy, trust>>

Step ==
    \/ Begin
    \/ Fails
    \/ ReadLegacy
    \/ RetireLegacy
    \/ ReadAndUpdate
    \/ OpenTemporary
    \/ FillTemporary
    \/ SyncTemporary
    \/ Rename
    \/ SyncDirectories

Next ==
    \/ \E op \in Operation : Request(op)
    \/ Step
    \/ Crash

Spec == Init /\ [][Next]_vars

\* Every platform promise settles and the queue runs the next operation.
FairSpec == Spec /\ WF_vars(Step)

-----------------------------------------------------------------------------
(* Properties.                                                             *)

TypeOK ==
    /\ file \in FileState
    /\ synced \in FileState
    /\ tmp \in {None} \cup FileState
    /\ legacy \in {None} \cup SUBSET Line
    /\ prepared \in BOOLEAN
    /\ queue \in Seq(Operation)
    /\ pc \in {"idle", "migrate", "retire", "update"} 
              \cup WriteSteps \cup {MigrateTo[s] : s \in WriteSteps}
    /\ content \subseteq Line
    /\ must \subseteq may
    /\ may \subseteq Line

\* A host key whose approval was acknowledged stays trusted, and one of the
\* migrated record too, until its removal is asked for: through failed and
\* repeated migrations, failed writes of other operations, and crashes.
AcknowledgedTrustKept == must \subseteq Authority

\* A host key whose removal was acknowledged does not come back, and nothing
\* is trusted that was never approved.
ForgottenStaysForgotten == Authority \subseteq may

\* Every operation settles: one that failed does not hold up the rest.
EveryOperationSettles ==
    \A c \in Client : (\E i \in DOMAIN queue : queue[i].client = c)
                        ~> ~\E i \in DOMAIN queue : queue[i].client = c
=============================================================================
