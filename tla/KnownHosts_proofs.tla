--------------------------- MODULE KnownHosts_proofs ---------------------------
(***************************************************************************)
(* For all entries, hosts and panes: the type invariant of KnownHosts,     *)
(* that an acknowledged key stays trusted and that a forgotten one stays   *)
(* forgotten, through failures, migrations and crashes.                    *)
(***************************************************************************)
EXTENDS KnownHosts, SequenceTheorems, TLAPS

-----------------------------------------------------------------------------
(* The awaits of a write, of an update and of the migration.                *)

Steps == {"open", "fill", "fsync", "rename", "directory"}
MigrationSteps == {"migrate open", "migrate fill", "migrate fsync", "migrate rename", "migrate directory"}

LEMMA Names ==
    /\ MigrateTo["open"] = "migrate open" /\ MigrateTo["fill"] = "migrate fill"
    /\ MigrateTo["fsync"] = "migrate fsync" /\ MigrateTo["rename"] = "migrate rename"
    /\ MigrateTo["directory"] = "migrate directory"
  BY DEF MigrateTo

LEMMA Awaits ==
    /\ WriteSteps = Steps
    /\ Migrating <=> pc \in MigrationSteps
    /\ {MigrateTo[s] : s \in WriteSteps} = MigrationSteps
    /\ At("open") <=> pc \in {"open", "migrate open"}
    /\ At("fill") <=> pc \in {"fill", "migrate fill"}
    /\ At("fsync") <=> pc \in {"fsync", "migrate fsync"}
    /\ At("rename") <=> pc \in {"rename", "migrate rename"}
    /\ At("directory") <=> pc \in {"directory", "migrate directory"}
  <1>1. WriteSteps = Steps
    BY DEF WriteSteps, Steps
  <1>2. {MigrateTo[s] : s \in Steps} = MigrationSteps
    <2>1. \A x \in MigrationSteps : \E s \in Steps : x = MigrateTo[s]
      BY Names DEF Steps, MigrationSteps
    <2>2. \A s \in Steps : MigrateTo[s] \in MigrationSteps
      BY Names DEF Steps, MigrationSteps
    <2> QED
      BY <2>1, <2>2
  <1>3. Migrating <=> pc \in MigrationSteps
    BY <1>1, <1>2 DEF Migrating
  <1> QED
    BY Names, <1>1, <1>2, <1>3 DEF At

\* A write goes on as the write it is.
LEMMA Going ==
    ASSUME NEW from \in Steps, NEW to \in Steps, At(from), GoTo(to)
    PROVE  <<pc, pc'>> \in {<<from, to>>, <<MigrateTo[from], MigrateTo[to]>>}
  <1>1. from \notin MigrationSteps /\ MigrateTo[from] \in MigrationSteps
    BY Names DEF Steps, MigrationSteps
  <1>2. Migrating <=> pc \in MigrationSteps
    BY Awaits
  <1> QED
    BY <1>1, <1>2 DEF At, GoTo

-----------------------------------------------------------------------------
(* The invariant.                                                           *)

\* What carries trust has all that must, and nothing that may not, be trusted.
Between(lines) == must \subseteq lines /\ lines \subseteq may

\* What decides trust, now and after a crash: nothing of it is unsynced.
DiskInv ==
    /\ file.safe /\ synced.safe
    /\ legacy # None => Between(legacy)
    /\ legacy = None => Between(file.lines) /\ Between(synced.lines)

\* An operation that has begun asks for something: it may be trusted, it must not.
OpInv ==
    /\ queue # <<>>
    /\ Head(queue).kind = "commit" => Head(queue).line \in may
    /\ Head(queue).kind = "remove" => must \cap LinesOf(Head(queue).host) = {}

\* The migration rewrites the record; no update begins before it is retired.
MigrationInv ==
    /\ prepared => legacy = None
    /\ pc \in {"update"} \cup Steps => legacy = None
    /\ pc \in MigrationSteps => legacy # None /\ content = legacy
    /\ pc = "retire" /\ legacy # None => Between(file.lines) /\ Between(synced.lines)

\* What an update writes.
UpdateInv ==
    pc \in Steps =>
        /\ Between(content)
        /\ Head(queue).kind = "commit" => Head(queue).line \in content
        /\ Head(queue).kind = "remove" => content \cap LinesOf(Head(queue).host) = {}

\* The temporary file on its way.
TmpInv ==
    /\ pc \in {"fill", "migrate fill", "fsync", "migrate fsync", "rename", "migrate rename"} =>
          tmp \in FileState
    /\ pc \in {"fsync", "migrate fsync", "rename", "migrate rename"} => tmp.lines = content
    /\ pc \in {"rename", "migrate rename"} => tmp.safe
    /\ pc \in {"directory", "migrate directory"} => file.lines = content

IInv ==
    /\ TypeOK
    /\ DiskInv
    /\ pc # "idle" => OpInv
    /\ MigrationInv
    /\ UpdateInv
    /\ TmpInv

\* TypeOK without the names of the awaits.
Types ==
    /\ file \in FileState /\ synced \in FileState /\ tmp \in {None} \cup FileState
    /\ legacy \in {None} \cup SUBSET Line
    /\ prepared \in BOOLEAN
    /\ queue \in Seq(Operation)
    /\ pc \in {"idle", "migrate", "retire", "update"} \cup Steps \cup MigrationSteps
    /\ content \subseteq Line
    /\ must \subseteq may /\ may \subseteq Line

LEMMA TypesAre == TypeOK <=> Types
  BY Awaits DEF TypeOK, Types

LEMMA TypesAreNext == TypeOK' <=> Types'
  BY Awaits DEF TypeOK, Types

LEMMA InitHolds ==
    ASSUME Init
    PROVE  IInv
  <1>1. Authority \subseteq Line
    BY DEF Init, Authority
  <1>2. TypeOK
    <2>1. file \in FileState /\ synced \in FileState
      BY DEF Init, FileState
    <2>2. legacy \in {None} \cup SUBSET Line
      BY DEF Init
    <2> QED
      BY <1>1, <2>1, <2>2, EmptySeq, TypesAre DEF Init, Types
  <1>3. DiskInv
    BY DEF Init, DiskInv, Between, Authority
  <1>4. MigrationInv /\ UpdateInv /\ TmpInv
    BY DEF Init, MigrationInv, UpdateInv, TmpInv, Steps, MigrationSteps
  <1> QED
    BY <1>2, <1>3, <1>4 DEF IInv, Init

-----------------------------------------------------------------------------
(* Settling.                                                                *)

LEMMA SettleKeeps ==
    ASSUME IInv, pc # "idle", NEW entriesIn, NEW entriesOut, Settle(entriesIn, entriesOut),
           entriesIn \subseteq may \ entriesOut, must \cap entriesOut = {},
           file' \in FileState, synced' \in FileState, tmp' \in {None} \cup FileState,
           legacy' \in {legacy, None}, prepared' = prepared, DiskInv'
    PROVE  IInv'
  <1>1. queue # <<>> /\ queue \in Seq(Operation)
    BY TypesAre DEF IInv, OpInv, Types
  <1>2. queue' \in Seq(Operation)
    BY <1>1, HeadTailProperties DEF Settle
  <1>3. Types'
    BY <1>2, TypesAre DEF IInv, Types, Settle
  <1>4. MigrationInv' /\ UpdateInv' /\ TmpInv'
    BY DEF IInv, Settle, MigrationInv, UpdateInv, TmpInv, Steps, MigrationSteps
  <1> QED
    BY <1>3, <1>4, TypesAreNext DEF IInv, Settle

LEMMA RejectKeeps ==
    ASSUME IInv, pc # "idle", Reject, UNCHANGED <<file, synced, prepared>>,
           tmp' \in {None} \cup FileState,
           \/ legacy' = legacy
           \/ legacy' = None /\ Between(file.lines) /\ Between(synced.lines)
    PROVE  IInv'
  <1>1. must' = must /\ may' = may
    BY DEF Reject, Settle
  <1>2. DiskInv'
    BY <1>1 DEF IInv, DiskInv, Between
  <1>3. file' \in FileState /\ synced' \in FileState
    BY TypesAre DEF IInv, Types
  <1> QED
    BY <1>2, <1>3, SettleKeeps DEF Reject

-----------------------------------------------------------------------------
(* One step for each action.                                                *)

LEMMA RequestKeeps ==
    ASSUME IInv, NEW op \in Operation, Request(op)
    PROVE  IInv'
  <1>1. queue \in Seq(Operation) /\ queue' = Append(queue, op)
        /\ UNCHANGED <<disk, prepared, pc, content, trust>>
    BY TypesAre DEF IInv, Types, Request
  <1>2. queue' \in Seq(Operation) /\ queue' # <<>> /\ (queue # <<>> => Head(queue') = Head(queue))
    BY <1>1
  <1>3. Types' /\ DiskInv' /\ MigrationInv' /\ TmpInv'
    BY <1>1, <1>2, TypesAre
    DEF IInv, Types, DiskInv, Between, MigrationInv, TmpInv, disk, trust
  <1>4. pc # "idle" => OpInv' /\ Head(queue') = Head(queue)
    BY <1>1, <1>2 DEF IInv, OpInv, LinesOf, trust
  <1>5. UpdateInv'
    BY <1>1, <1>4 DEF IInv, UpdateInv, Between, LinesOf, trust, Steps
  <1> QED
    BY <1>1, <1>3, <1>4, <1>5, TypesAreNext DEF IInv

LEMMA BeginKeeps ==
    ASSUME IInv, Begin
    PROVE  IInv'
  <1> DEFINE op == Head(queue)
             asked == IF op.kind = "commit" THEN {op.line} ELSE {}
             barred == IF op.kind = "remove" THEN LinesOf(op.host) ELSE {}
  <1>1. /\ queue # <<>> /\ op \in Operation /\ pc' \in {"update", "migrate"}
        /\ may' = may \cup asked /\ must' = must \ barred
        /\ UNCHANGED <<disk, prepared, queue, content>>
    BY TypesAre, HeadTailProperties DEF IInv, Types, Begin
  <1>2. asked \subseteq Line
    BY <1>1 DEF Operation
  <1>3. Types'
    BY <1>1, <1>2, TypesAre DEF IInv, Types, disk
  <1>4. DiskInv'
    BY <1>1 DEF IInv, DiskInv, Between, disk
  <1>5. OpInv'
    BY <1>1 DEF OpInv, LinesOf
  <1>6. MigrationInv' /\ UpdateInv' /\ TmpInv'
    BY <1>1 DEF IInv, Begin, MigrationInv, UpdateInv, TmpInv, Steps, MigrationSteps, disk
  <1> QED
    BY <1>3, <1>4, <1>5, <1>6, TypesAreNext DEF IInv

LEMMA FailsKeeps ==
    ASSUME IInv, Fails
    PROVE  IInv'
  <1>1. pc # "idle" /\ Reject /\ UNCHANGED <<file, synced, legacy, prepared>>
    BY DEF Fails
  <1>2. tmp' \in {None} \cup FileState
    BY TypesAre DEF IInv, Types, Fails, Unlink
  <1> QED
    BY <1>1, <1>2, RejectKeeps

LEMMA ReadLegacyKeeps ==
    ASSUME IInv, ReadLegacy
    PROVE  IInv'
  <1>1. /\ UNCHANGED <<disk, prepared, queue, trust>> /\ pc = "migrate"
        /\ \/ legacy = None /\ pc' = "retire" /\ content' = content
           \/ legacy # None /\ pc' = "migrate open" /\ content' = legacy
    BY DEF ReadLegacy, MigrateTo
  <1>2. Types'
    BY <1>1, TypesAre DEF IInv, Types, disk, trust, MigrationSteps
  <1>3. DiskInv' /\ OpInv'
    BY <1>1 DEF IInv, DiskInv, OpInv, Between, LinesOf, disk, trust
  <1>4. MigrationInv' /\ UpdateInv' /\ TmpInv'
    BY <1>1 DEF IInv, MigrationInv, UpdateInv, TmpInv, Steps, MigrationSteps, disk, trust
  <1> QED
    BY <1>2, <1>3, <1>4, TypesAreNext DEF IInv

LEMMA RetireLegacyKeeps ==
    ASSUME IInv, RetireLegacy
    PROVE  IInv'
  <1>1. pc = "retire" /\ legacy' = None /\ UNCHANGED <<file, synced, tmp>>
    BY DEF RetireLegacy
  <1>2. Between(file.lines) /\ Between(synced.lines)
    BY <1>1 DEF IInv, DiskInv, MigrationInv
  <1>3. CASE prepared' = TRUE /\ pc' = "update" /\ UNCHANGED <<queue, content, trust>>
    <2>1. Types'
      BY <1>1, <1>3, TypesAre DEF IInv, Types, trust
    <2>2. DiskInv' /\ OpInv'
      BY <1>1, <1>2, <1>3 DEF IInv, DiskInv, OpInv, Between, LinesOf, trust
    <2>3. MigrationInv' /\ UpdateInv' /\ TmpInv'
      BY <1>1, <1>3 DEF MigrationInv, UpdateInv, TmpInv, Steps, MigrationSteps
    <2> QED
      BY <2>1, <2>2, <2>3, TypesAreNext DEF IInv
  <1>4. CASE Reject /\ UNCHANGED prepared
    <2>1. tmp' \in {None} \cup FileState
      BY <1>1, TypesAre DEF IInv, Types
    <2> QED
      BY <1>1, <1>2, <1>4, <2>1, RejectKeeps
  <1> QED
    BY <1>3, <1>4 DEF RetireLegacy

LEMMA ReadAndUpdateKeeps ==
    ASSUME IInv, ReadAndUpdate
    PROVE  IInv'
  <1> DEFINE op == Head(queue)
             updated == Update(op, file.lines)
  <1>1. /\ pc = "update" /\ legacy = None /\ Between(file.lines) /\ queue # <<>> /\ op \in Operation
        /\ Types /\ UNCHANGED <<disk, prepared>>
    BY TypesAre, HeadTailProperties
    DEF IInv, Types, ReadAndUpdate, MigrationInv, DiskInv, OpInv, Settle
  <1>2. CASE pc' = "open" /\ content' = updated /\ UNCHANGED <<queue, trust>>
    <2>1. /\ Between(updated)
          /\ op.kind = "commit" => op.line \in updated
          /\ op.kind = "remove" => updated \cap LinesOf(op.host) = {}
      BY <1>1 DEF Update, Between, IInv, OpInv
    <2>2. updated \subseteq Line
      BY <1>1, <2>1 DEF Types, Between
    <2>3. Types'
      BY <1>1, <1>2, <2>2 DEF Types, disk, trust, Steps
    <2>4. UpdateInv'
      BY <1>2, <2>1 DEF UpdateInv, Between, LinesOf, trust
    <2>5. DiskInv' /\ OpInv'
      BY <1>1, <1>2 DEF IInv, DiskInv, OpInv, Between, LinesOf, disk, trust
    <2>6. MigrationInv' /\ TmpInv'
      BY <1>1, <1>2 DEF MigrationInv, TmpInv, Steps, MigrationSteps, disk
    <2> QED
      BY <2>3, <2>4, <2>5, <2>6, TypesAreNext DEF IInv
  <1>3. CASE Settle({}, {})
    <2>1. tmp' \in {None} \cup FileState
      BY <1>1 DEF Types, disk
    <2> QED
      BY <1>1, <1>3, <2>1, RejectKeeps DEF Reject, disk
  <1> QED
    BY <1>2, <1>3 DEF ReadAndUpdate

\* The steps of a write until its file is in place leave what carries trust alone.
LEMMA OpenTemporaryKeeps ==
    ASSUME IInv, OpenTemporary
    PROVE  IInv'
  <1>1. /\ <<pc, pc'>> \in {<<"open", "fill">>, <<"migrate open", "migrate fill">>}
        /\ UNCHANGED <<file, synced, legacy, prepared, queue, content, trust>>
    BY Names, Going DEF OpenTemporary, Steps
  <1>2. tmp' \in FileState
    BY DEF OpenTemporary, FileState
  <1>3. Types'
    BY <1>1, <1>2, TypesAre DEF IInv, Types, trust, Steps, MigrationSteps
  <1>4. DiskInv' /\ OpInv'
    BY <1>1 DEF IInv, DiskInv, OpInv, Between, LinesOf, trust
  <1>5. MigrationInv' /\ UpdateInv'
    BY <1>1 DEF IInv, MigrationInv, UpdateInv, Between, LinesOf, Steps, MigrationSteps, trust
  <1>6. TmpInv'
    BY <1>1, <1>2 DEF TmpInv
  <1> QED
    BY <1>3, <1>4, <1>5, <1>6, TypesAreNext DEF IInv

LEMMA FillTemporaryKeeps ==
    ASSUME IInv, FillTemporary
    PROVE  IInv'
  <1>1. PICK written \in SUBSET content :
           IF written = content
           THEN /\ tmp' = [tmp EXCEPT !.lines = written]
                /\ GoTo("fsync")
                /\ UNCHANGED <<queue, content, trust>>
           ELSE Reject /\ Unlink
    BY DEF FillTemporary
  <1>2. /\ At("fill") /\ pc \in {"fill", "migrate fill"} /\ tmp \in FileState /\ content \subseteq Line
        /\ UNCHANGED <<file, synced, legacy, prepared>>
    BY Awaits, TypesAre DEF IInv, Types, TmpInv, FillTemporary
  <1>3. CASE /\ tmp' = [tmp EXCEPT !.lines = content]
             /\ GoTo("fsync")
             /\ UNCHANGED <<queue, content, trust>>
    <2>1. <<pc, pc'>> \in {<<"fill", "fsync">>, <<"migrate fill", "migrate fsync">>}
      BY <1>2, <1>3, Names, Going DEF FillTemporary, Steps
    <2>2. tmp' \in FileState /\ tmp'.lines = content'
      BY <1>2, <1>3 DEF FileState
    <2>3. Types'
      BY <1>2, <1>3, <2>1, <2>2, TypesAre DEF IInv, Types, trust, Steps, MigrationSteps
    <2>4. DiskInv' /\ OpInv'
      BY <1>2, <1>3, <2>1 DEF IInv, DiskInv, OpInv, Between, LinesOf, trust
    <2>5. MigrationInv' /\ UpdateInv'
      BY <1>2, <1>3, <2>1
      DEF IInv, MigrationInv, UpdateInv, Between, LinesOf, Steps, MigrationSteps, trust
    <2>6. TmpInv'
      BY <2>1, <2>2 DEF TmpInv
    <2> QED
      BY <2>3, <2>4, <2>5, <2>6, TypesAreNext DEF IInv
  <1>4. CASE Reject /\ Unlink
    BY <1>2, <1>4, RejectKeeps DEF Unlink
  <1> QED
    BY <1>1, <1>3, <1>4

LEMMA SyncTemporaryKeeps ==
    ASSUME IInv, SyncTemporary
    PROVE  IInv'
  <1>1. /\ <<pc, pc'>> \in {<<"fsync", "rename">>, <<"migrate fsync", "migrate rename">>}
        /\ UNCHANGED <<file, synced, legacy, prepared, queue, content, trust>>
    BY Names, Going DEF SyncTemporary, Steps
  <1>2. tmp \in FileState /\ tmp.lines = content
    BY <1>1 DEF IInv, TmpInv
  <1>3. tmp' \in FileState /\ tmp'.lines = content' /\ tmp'.safe
    BY <1>1, <1>2 DEF SyncTemporary, FileState
  <1>4. Types'
    BY <1>1, <1>3, TypesAre DEF IInv, Types, trust, Steps, MigrationSteps
  <1>5. DiskInv' /\ OpInv'
    BY <1>1 DEF IInv, DiskInv, OpInv, Between, LinesOf, trust
  <1>6. MigrationInv' /\ UpdateInv'
    BY <1>1 DEF IInv, MigrationInv, UpdateInv, Between, LinesOf, Steps, MigrationSteps, trust
  <1>7. TmpInv'
    BY <1>1, <1>3 DEF TmpInv
  <1> QED
    BY <1>4, <1>5, <1>6, <1>7, TypesAreNext DEF IInv

\* The new file carries trust, unless the record does still.
LEMMA RenameKeeps ==
    ASSUME IInv, Rename
    PROVE  IInv'
  <1>1. /\ <<pc, pc'>> \in {<<"rename", "directory">>, <<"migrate rename", "migrate directory">>}
        /\ file' = tmp /\ tmp' = None
        /\ UNCHANGED <<synced, legacy, prepared, queue, content, trust>>
    BY Names, Going DEF Rename, Steps
  <1>2. tmp \in FileState /\ tmp.lines = content /\ tmp.safe
    BY <1>1 DEF IInv, TmpInv
  <1>3. Types'
    BY <1>1, <1>2, TypesAre DEF IInv, Types, trust, Steps, MigrationSteps
  <1>4. legacy = None => Between(content)
    BY <1>1 DEF IInv, MigrationInv, UpdateInv, Steps, MigrationSteps
  <1>5. DiskInv' /\ OpInv'
    BY <1>1, <1>2, <1>4 DEF IInv, DiskInv, OpInv, Between, LinesOf, trust
  <1>6. MigrationInv' /\ UpdateInv'
    BY <1>1 DEF IInv, MigrationInv, UpdateInv, Between, LinesOf, Steps, MigrationSteps, trust
  <1>7. TmpInv'
    BY <1>1, <1>2 DEF TmpInv
  <1> QED
    BY <1>3, <1>5, <1>6, <1>7, TypesAreNext DEF IInv

LEMMA SyncDirectoriesKeeps ==
    ASSUME IInv, SyncDirectories
    PROVE  IInv'
  <1>1. /\ pc \in {"directory", "migrate directory"} /\ synced' = file /\ file.lines = content
        /\ UNCHANGED <<file, tmp, legacy>> /\ Types
    BY Awaits, TypesAre DEF IInv, TmpInv, SyncDirectories
  <1>2. CASE pc = "migrate directory"
    <2>1. pc' = "retire" /\ UNCHANGED <<prepared, queue, content, trust>>
      BY <1>2, Awaits DEF SyncDirectories, MigrationSteps
    <2>2. legacy # None /\ Between(content)
      BY <1>2 DEF IInv, MigrationInv, DiskInv, MigrationSteps
    <2>3. Types'
      BY <1>1, <2>1 DEF Types, trust
    <2>4. DiskInv' /\ OpInv'
      BY <1>1, <1>2, <2>1, <2>2 DEF IInv, DiskInv, OpInv, Between, LinesOf, trust
    <2>5. MigrationInv' /\ UpdateInv' /\ TmpInv'
      BY <1>1, <2>1, <2>2
      DEF IInv, MigrationInv, UpdateInv, TmpInv, Between, Steps, MigrationSteps, trust
    <2> QED
      BY <2>3, <2>4, <2>5, TypesAreNext DEF IInv
  <1>3. CASE pc = "directory"
    <2> DEFINE op == Head(queue)
               approved == IF op.kind = "commit" THEN {op.line} ELSE {}
               barred == IF op.kind = "remove" THEN LinesOf(op.host) ELSE {}
    <2>1. Settle(approved, barred) /\ prepared' = prepared
      BY <1>3, Awaits DEF SyncDirectories, Acknowledge, MigrationSteps
    <2>2. /\ legacy = None /\ Between(content)
          /\ approved \subseteq content /\ content \cap barred = {} /\ must \cap barred = {}
      BY <1>3 DEF IInv, OpInv, MigrationInv, UpdateInv, Steps
    <2>3. must' = must \cup approved /\ may' = may \ barred
      BY <2>1 DEF Settle
    <2>4. DiskInv'
      BY <1>1, <2>2, <2>3 DEF IInv, DiskInv, Between
    <2>5. file' \in FileState /\ synced' \in FileState /\ tmp' \in {None} \cup FileState
      BY <1>1 DEF Types
    <2>6. approved \subseteq may \ barred
      BY <2>2 DEF Between
    <2> QED
      BY <1>1, <1>3, <2>1, <2>2, <2>4, <2>5, <2>6, SettleKeeps
  <1> QED
    BY <1>1, <1>2, <1>3

LEMMA CrashKeeps ==
    ASSUME IInv, Crash
    PROVE  IInv'
  <1>1. PICK survives \in {file, synced} :
           \E kept \in IF survives.safe THEN {survives.lines} ELSE SUBSET survives.lines :
              file' = [lines |-> kept, safe |-> TRUE] /\ synced' = file'
    BY DEF Crash
  <1>2. file' = [lines |-> survives.lines, safe |-> TRUE] /\ synced' = file'
    BY <1>1 DEF IInv, DiskInv
  <1>3. Types
    BY TypesAre DEF IInv
  <1>4. file' \in FileState /\ synced' \in FileState
    BY <1>2, <1>3 DEF Types, FileState
  <1>5. /\ prepared' = FALSE /\ queue' = <<>> /\ pc' = "idle" /\ content' = {}
        /\ UNCHANGED <<tmp, legacy, trust>>
    BY DEF Crash
  <1>6. Types'
    BY <1>3, <1>4, <1>5, EmptySeq DEF Types, trust
  <1>7. DiskInv'
    BY <1>2, <1>5 DEF IInv, DiskInv, Between, trust
  <1>8. MigrationInv' /\ UpdateInv' /\ TmpInv'
    BY <1>5 DEF MigrationInv, UpdateInv, TmpInv, Steps, MigrationSteps
  <1> QED
    BY <1>5, <1>6, <1>7, <1>8, TypesAreNext DEF IInv

-----------------------------------------------------------------------------
(* The theorems.                                                            *)

LEMMA StepKeeps ==
    ASSUME IInv, [Next]_vars
    PROVE  IInv'
  <1>1. CASE \E op \in Operation : Request(op)
    BY <1>1, RequestKeeps
  <1>2. CASE Begin \/ Fails \/ ReadLegacy \/ RetireLegacy \/ ReadAndUpdate
    BY <1>2, BeginKeeps, FailsKeeps, ReadLegacyKeeps, RetireLegacyKeeps, ReadAndUpdateKeeps
  <1>3. CASE OpenTemporary \/ FillTemporary \/ SyncTemporary \/ Rename \/ SyncDirectories
    BY <1>3, OpenTemporaryKeeps, FillTemporaryKeeps, SyncTemporaryKeeps, RenameKeeps,
       SyncDirectoriesKeeps
  <1>4. CASE Crash
    BY <1>4, CrashKeeps
  <1>5. CASE UNCHANGED vars
    <2>1. Types'
      BY <1>5, TypesAre DEF IInv, Types, vars, disk, trust
    <2>2. DiskInv' /\ (pc' # "idle" => OpInv') /\ MigrationInv' /\ UpdateInv' /\ TmpInv'
      BY <1>5
      DEF IInv, DiskInv, OpInv, MigrationInv, UpdateInv, TmpInv, Between, LinesOf, vars, disk, trust
    <2> QED
      BY <2>1, <2>2, TypesAreNext DEF IInv
  <1> QED
    BY <1>1, <1>2, <1>3, <1>4, <1>5 DEF Next, Step

THEOREM IInvHolds == Spec => []IInv
  BY InitHolds, StepKeeps, PTL DEF Spec

\* Files, record, queue and await are what the code can make them (TypeOK).
THEOREM TypeCorrect == Spec => []TypeOK
  <1>1. IInv => TypeOK
    BY DEF IInv
  <1> QED
    BY <1>1, IInvHolds, PTL

\* An acknowledged host key, or one of the old record, stays trusted until its
\* removal is asked for (AcknowledgedTrustKept), whatever fails or crashes.
THEOREM TrustKept == Spec => []AcknowledgedTrustKept
  <1>1. IInv => AcknowledgedTrustKept
    BY DEF IInv, DiskInv, Between, Authority, AcknowledgedTrustKept
  <1> QED
    BY <1>1, IInvHolds, PTL

\* A host key whose removal was acknowledged stays forgotten, and none is trusted
\* that was never approved (ForgottenStaysForgotten).
THEOREM ForgottenForGood == Spec => []ForgottenStaysForgotten
  <1>1. IInv => ForgottenStaysForgotten
    BY DEF IInv, DiskInv, Between, Authority, ForgottenStaysForgotten
  <1> QED
    BY <1>1, IInvHolds, PTL
=============================================================================
