-------------------------- MODULE DurableAssetStore --------------------------
(***************************************************************************)
(* The durable store of model/persistence/DurableAssetStore.ets.           *)
(*                                                                         *)
(* A text is kept as the chunk records of a generation and one pointer     *)
(* record that names the active generation.  Each Asset Store request is   *)
(* one step: the process may be killed, or the request may fail, between   *)
(* any two of them.  Synchronous calls (write, remove, garbageCollect)     *)
(* hold the JavaScript thread, so at most one is in progress; readAsync    *)
(* and removeAsync suspend at every await and interleave with them.        *)
(*                                                                         *)
(* Assumed of the platform: a request is atomic, and one that reports an   *)
(* error has changed nothing.  Generations (clock-sequence) do not repeat. *)
(***************************************************************************)
EXTENDS Naturals, FiniteSets

CONSTANTS
    Path,           \* the durable paths
    Value,          \* the texts written
    Generation,     \* the generation names
    Reader,         \* concurrent readAsync calls
    LegacyPath,     \* ssh/known-hosts: read and retired, never written again
    ChunkCount,     \* [Value -> Nat \ {0}], DurableAssetFormat.split(v).length
    None

ASSUME ConstantsAssumption ==
    /\ LegacyPath \in Path
    /\ ChunkCount \in [Value -> Nat \ {0}]
    /\ None \notin Path \cup Value \cup Generation \cup [gen : Generation, val : Value]

VARIABLES
    pointer,        \* [Path -> Manifest or None], the pointer records
    chunks,         \* the set of chunk records
    pc, path, val, gen, next, todo,     \* the synchronous call in progress
    outcome,        \* how the last synchronous call ended
    reader,         \* the readAsync calls
    retire,         \* the removeAsync call of the known-hosts migration
    collected       \* garbageCollectionCompleted

call == <<pc, path, val, gen, next, todo>>
store == <<pointer, chunks>>
vars == <<store, call, outcome, reader, retire, collected>>

-----------------------------------------------------------------------------
(* Records.  The sha256 and byte count of a manifest stand for the text.   *)

Manifest == [gen : Generation, val : Value]
Chunk == [path : Path, gen : Generation, index : Nat \ {0}, val : Value]

WriteSteps == {"add", "verify", "publish", "rollback", "sweep"}
RemoveSteps == {"unlink", "list", "erase"}
LoopSteps == {"rollback", "sweep", "erase", "collect"}
Steps == WriteSteps \cup RemoveSteps \cup {"collect", "idle"}

Indices(v) == 1 .. ChunkCount[v]

ChunksOf(p) == {c \in chunks : c.path = p}
ChunksOfGeneration(p, g) == {c \in chunks : c.path = p /\ c.gen = g}

\* Mutant: the sweep after a write does not spare the active generation.
EveryGeneration(p, g) == ChunksOf(p)

\* queryAliasesByPath, then every chunk of another generation.
OtherGenerations(p, g) == {c \in chunks : c.path = p /\ c.gen # g}

\* Mutant: garbageCollect visits only the paths it found a pointer for.
GarbageOfListedPaths == {c \in chunks : pointer[c.path] # None /\ pointer[c.path].gen # c.gen}

\* Chunks that no pointer names.
Garbage == {c \in chunks : pointer[c.path] = None \/ pointer[c.path].gen # c.gen}

\* readGeneration and validate: every chunk is there, with the text's bytes.
Complete(p, m) ==
    \A i \in Indices(m.val) :
        [path |-> p, gen |-> m.gen, index |-> i, val |-> m.val] \in chunks

\* nextGeneration returns a name that nothing uses.
Fresh(g) ==
    /\ g \notin {c.gen : c \in chunks}
    /\ g \notin {m.gen : m \in {pointer[p] : p \in Path} \ {None}}
    /\ g \notin {m.gen : m \in {reader[r].man : r \in Reader} \ {None}}

ReaderState ==
    [pc : {"idle", "pointer", "chunk", "absent", "value", "corrupt", "incomplete"},
     waiting : BOOLEAN, path : Path, man : Manifest \cup {None},
     next : Nat \ {0}, got : SUBSET Value]

-----------------------------------------------------------------------------
NoReader == [pc |-> "idle", waiting |-> FALSE, path |-> LegacyPath, man |-> None, next |-> 1, got |-> {}]
Reading(p) == [pc |-> "pointer", waiting |-> TRUE, path |-> p, man |-> None, next |-> 1, got |-> {}]
NoRetire == [pc |-> "idle", todo |-> {}]

ThreadFree == pc = "idle"

ResetCall ==
    /\ pc' = "idle"
    /\ path' = None
    /\ val' = None
    /\ gen' = None
    /\ next' = 1
    /\ todo' = {}

End(result) ==
    /\ ResetCall
    /\ outcome' = result

\* A first start: nothing stored, or the known-hosts record of an older
\* version of the application.
Init ==
    /\ \E v \in Value \cup {None}, g \in Generation :
        IF v = None
        THEN /\ pointer = [p \in Path |-> None]
             /\ chunks = {}
        ELSE /\ pointer = [p \in Path |-> IF p = LegacyPath THEN [gen |-> g, val |-> v] ELSE None]
             /\ chunks = [path : {LegacyPath}, gen : {g}, index : Indices(v), val : {v}]
    /\ pc = "idle" /\ path = None /\ val = None /\ gen = None /\ next = 1 /\ todo = {}
    /\ outcome = "none"
    /\ reader = [r \in Reader |-> NoReader]
    /\ retire = NoRetire
    /\ collected = FALSE

-----------------------------------------------------------------------------
(* write: the chunks of a new generation, the pointer, the old chunks.     *)

StartWrite(p, v, g) ==
    /\ ThreadFree
    /\ p # LegacyPath
    /\ Fresh(g)
    /\ pc' = "add"
    /\ path' = p
    /\ val' = v
    /\ gen' = g
    /\ next' = 1
    /\ todo' = {}
    /\ outcome' = "none"
    /\ UNCHANGED <<store, reader, retire, collected>>

\* Mutant: chunks numbered from the loop's own index.
AddChunkFromZero ==
    /\ pc = "add"
    /\ chunks' = chunks \cup {[path |-> path, gen |-> gen, index |-> next - 1, val |-> val]}
    /\ next' = next + 1
    /\ pc' = IF next = ChunkCount[val] THEN "verify" ELSE "add"
    /\ UNCHANGED <<pointer, path, val, gen, todo, outcome, reader, retire, collected>>

AddChunk ==
    /\ pc = "add"
    /\ chunks' = chunks \cup {[path |-> path, gen |-> gen, index |-> next, val |-> val]}
    /\ next' = next + 1
    /\ pc' = IF next = ChunkCount[val] THEN "verify" ELSE "add"
    /\ UNCHANGED <<pointer, path, val, gen, todo, outcome, reader, retire, collected>>

VerifyChunks ==
    /\ pc = "verify"
    /\ Complete(path, [gen |-> gen, val |-> val])
    /\ pc' = "publish"
    /\ UNCHANGED <<store, path, val, gen, next, todo, outcome, reader, retire, collected>>

PublishPointer ==
    /\ pc = "publish"
    /\ pointer' = [pointer EXCEPT ![path] = [gen |-> gen, val |-> val]]
    /\ pc' = "sweep"
    /\ todo' = OtherGenerations(path, gen)
    /\ UNCHANGED <<chunks, path, val, gen, next, outcome, reader, retire, collected>>

\* Any request of the first half throws: removeGeneration, then rethrow.
WriteFails ==
    /\ pc \in {"add", "verify", "publish"}
    /\ pc' = "rollback"
    /\ todo' = ChunksOfGeneration(path, gen)
    /\ UNCHANGED <<store, path, val, gen, next, outcome, reader, retire, collected>>

-----------------------------------------------------------------------------
(* remove: the pointer first, then every record of the path.               *)

StartRemove(p) ==
    /\ ThreadFree
    /\ p # LegacyPath
    /\ pc' = "unlink"
    /\ path' = p
    /\ outcome' = "none"
    /\ UNCHANGED <<store, val, gen, next, todo, reader, retire, collected>>

UnlinkPointer ==
    /\ pc = "unlink"
    /\ pointer' = [pointer EXCEPT ![path] = None]
    /\ pc' = "list"
    /\ UNCHANGED <<chunks, path, val, gen, next, todo, outcome, reader, retire, collected>>

ListRecords ==
    /\ pc = "list"
    /\ pc' = "erase"
    /\ todo' = ChunksOf(path)
    /\ UNCHANGED <<store, path, val, gen, next, outcome, reader, retire, collected>>

\* The removal of the pointer throws, or queryAliasesByPath after it.
RemoveFails ==
    /\ pc \in {"unlink", "list"}
    /\ End("error")
    /\ UNCHANGED <<store, reader, retire, collected>>

-----------------------------------------------------------------------------
(* garbageCollect, once per process, inside the known-hosts queue: never   *)
(* during the migration's removeAsync.                                     *)

StartCollect ==
    /\ ThreadFree
    /\ retire.pc = "idle"
    /\ ~collected
    /\ pc' = "collect"
    /\ todo' = Garbage
    /\ UNCHANGED <<store, path, val, gen, next, outcome, reader, retire, collected>>

-----------------------------------------------------------------------------
(* The loops that remove records.  The alias order is the platform's.      *)
(* outcome is that of write and remove: collected is that of collect.      *)

RemoveOneRecord ==
    /\ pc \in LoopSteps
    /\ \E c \in todo :
        /\ chunks' = chunks \ {c}
        /\ todo' = todo \ {c}
    /\ UNCHANGED <<pointer, pc, path, val, gen, next, outcome, reader, retire, collected>>

\* Mutant: the sweep is inside the try block, whose catch removes the
\* generation that has just been published.
SweepFailureRollsBack ==
    /\ pc = "sweep"
    /\ pc' = "rollback"
    /\ todo' = ChunksOfGeneration(path, gen)
    /\ UNCHANGED <<store, path, val, gen, next, outcome, reader, retire, collected>>

\* How each loop takes a failed request: erase swallows it and goes on, sweep
\* swallows it and stops, rollback and collect throw.
RemovalFails ==
    /\ \/ /\ pc = "erase"
          /\ \E c \in todo : todo' = todo \ {c}
          /\ UNCHANGED <<pc, path, val, gen, next, outcome>>
       \/ /\ pc = "sweep"
          /\ End("ok")
       \/ /\ pc = "rollback"
          /\ End("error")
       \/ /\ pc = "collect"
          /\ End(outcome)
    /\ UNCHANGED <<store, reader, retire, collected>>

FinishCall ==
    /\ pc \in LoopSteps
    /\ todo = {}
    /\ collected' = (collected \/ pc = "collect")
    /\ End(CASE pc = "rollback" -> "error"
              [] pc = "collect" -> outcome
              [] OTHER -> "ok")
    /\ UNCHANGED <<store, reader, retire>>

-----------------------------------------------------------------------------
(* readAsync.  A query is answered at any moment; what follows the await   *)
(* runs when the thread is free.                                           *)

StartRead(r, p) ==
    /\ ThreadFree
    /\ reader[r].pc = "idle"
    /\ reader' = [reader EXCEPT ![r] = Reading(p)]
    /\ UNCHANGED <<store, call, outcome, retire, collected>>

AnswerPointer(r) ==
    /\ reader[r].pc = "pointer"
    /\ reader[r].waiting
    /\ reader' = [reader EXCEPT ![r].waiting = FALSE, ![r].man = pointer[reader[r].path]]
    /\ UNCHANGED <<store, call, outcome, retire, collected>>

AfterPointer(r) ==
    /\ ThreadFree
    /\ reader[r].pc = "pointer"
    /\ ~reader[r].waiting
    /\ reader' = IF reader[r].man = None
                 THEN [reader EXCEPT ![r].pc = "absent"]
                 ELSE [reader EXCEPT ![r].pc = "chunk", ![r].waiting = TRUE]
    /\ UNCHANGED <<store, call, outcome, retire, collected>>

\* Mutant: the chunk alias does not carry the generation.
AnswerChunkOfAnyGeneration(r) ==
    /\ reader[r].pc = "chunk"
    /\ reader[r].waiting
    /\ \E c \in ChunksOf(reader[r].path) :
        /\ c.index = reader[r].next
        /\ reader' = [reader EXCEPT ![r].waiting = FALSE, ![r].next = @ + 1, ![r].got = @ \cup {c.val}]
    /\ UNCHANGED <<store, call, outcome, retire, collected>>

\* Mutant: a missing chunk is awaited instead of reported.
AnswerChunkWhenPresent(r) ==
    /\ reader[r].pc = "chunk"
    /\ reader[r].waiting
    /\ LET found == {c \in ChunksOfGeneration(reader[r].path, reader[r].man.gen) : c.index = reader[r].next}
       IN /\ found # {}
          /\ reader' = [reader EXCEPT ![r].waiting = FALSE, ![r].next = @ + 1,
                                      ![r].got = @ \cup {c.val : c \in found}]
    /\ UNCHANGED <<store, call, outcome, retire, collected>>

AnswerChunk(r) ==
    /\ reader[r].pc = "chunk"
    /\ reader[r].waiting
    /\ LET found == {c \in ChunksOfGeneration(reader[r].path, reader[r].man.gen) : c.index = reader[r].next}
       IN reader' = IF found = {}
                    THEN [reader EXCEPT ![r].waiting = FALSE, ![r].pc = "incomplete"]
                    ELSE [reader EXCEPT ![r].waiting = FALSE, ![r].next = @ + 1,
                                        ![r].got = @ \cup {c.val : c \in found}]
    /\ UNCHANGED <<store, call, outcome, retire, collected>>

AfterChunk(r) ==
    /\ ThreadFree
    /\ reader[r].pc = "chunk"
    /\ ~reader[r].waiting
    /\ reader' = IF reader[r].next <= ChunkCount[reader[r].man.val]
                 THEN [reader EXCEPT ![r].waiting = TRUE]
                 ELSE [reader EXCEPT ![r].pc = IF reader[r].got = {reader[r].man.val}
                                               THEN "value" ELSE "corrupt"]
    /\ UNCHANGED <<store, call, outcome, retire, collected>>

QueryFails(r) ==
    /\ reader[r].waiting
    /\ reader' = [reader EXCEPT ![r] = NoReader]
    /\ UNCHANGED <<store, call, outcome, retire, collected>>

SettleRead(r) ==
    /\ reader[r].pc \in {"absent", "value", "corrupt", "incomplete"}
    /\ reader' = [reader EXCEPT ![r] = NoReader]
    /\ UNCHANGED <<store, call, outcome, retire, collected>>

-----------------------------------------------------------------------------
(* removeAsync(ssh/known-hosts), awaited by prepareKnownHosts.             *)

StartRetire ==
    /\ ThreadFree
    /\ retire.pc = "idle"
    /\ retire' = [NoRetire EXCEPT !.pc = "unlink"]
    /\ UNCHANGED <<store, call, outcome, reader, collected>>

RetirePointer ==
    /\ retire.pc = "unlink"
    /\ pointer' = [pointer EXCEPT ![LegacyPath] = None]
    /\ retire' = [retire EXCEPT !.pc = "list"]
    /\ UNCHANGED <<chunks, call, outcome, reader, collected>>

ListRetired ==
    /\ retire.pc = "list"
    /\ retire' = [pc |-> "erase", todo |-> ChunksOf(LegacyPath)]
    /\ UNCHANGED <<store, call, outcome, reader, collected>>

RetireChunk ==
    /\ retire.pc = "erase"
    /\ \E c \in retire.todo :
        /\ chunks' = chunks \ {c}
        /\ retire' = [retire EXCEPT !.todo = @ \ {c}]
    /\ UNCHANGED <<pointer, call, outcome, reader, collected>>

\* Done, or a request failed: the migration is repeated later.
EndRetire ==
    /\ retire.pc # "idle"
    /\ retire' = NoRetire
    /\ UNCHANGED <<store, call, outcome, reader, collected>>

-----------------------------------------------------------------------------
\* The process dies and is started again: the records survive.
Crash ==
    /\ ResetCall
    /\ outcome' = "none"
    /\ reader' = [r \in Reader |-> NoReader]
    /\ retire' = NoRetire
    /\ collected' = FALSE
    /\ UNCHANGED store

CallStep ==
    \/ AddChunk
    \/ VerifyChunks
    \/ PublishPointer
    \/ WriteFails
    \/ UnlinkPointer
    \/ ListRecords
    \/ RemoveFails
    \/ RemoveOneRecord
    \/ RemovalFails
    \/ FinishCall

ReaderStep(r) ==
    \/ \E p \in Path : StartRead(r, p)
    \/ AnswerPointer(r)
    \/ AfterPointer(r)
    \/ AnswerChunk(r)
    \/ AfterChunk(r)
    \/ QueryFails(r)
    \/ SettleRead(r)

RetireStep ==
    \/ StartRetire
    \/ RetirePointer
    \/ ListRetired
    \/ RetireChunk
    \/ EndRetire

Next ==
    \/ \E p \in Path, v \in Value, g \in Generation : StartWrite(p, v, g)
    \/ \E p \in Path : StartRemove(p)
    \/ StartCollect
    \/ CallStep
    \/ \E r \in Reader : ReaderStep(r)
    \/ RetireStep
    \/ Crash

Spec == Init /\ [][Next]_vars

\* A synchronous call runs to its end, the service answers a query, and the
\* event loop runs the continuation of an answered one whenever it is free.
FairSpec ==
    /\ Spec
    /\ WF_vars(CallStep)
    /\ \A r \in Reader :
        /\ WF_vars(AnswerPointer(r) \/ AnswerChunk(r) \/ SettleRead(r))
        /\ SF_vars(AfterPointer(r) \/ AfterChunk(r))

-----------------------------------------------------------------------------
(* Properties.                                                             *)

\* Every variable has its type; records and manifests name real generations.
TypeOK ==
    /\ pointer \in [Path -> Manifest \cup {None}]
    /\ chunks \subseteq Chunk
    /\ pc \in Steps
    /\ path \in Path \cup {None}
    /\ val \in Value \cup {None}
    /\ gen \in Generation \cup {None}
    /\ next \in Nat \ {0}
    /\ todo \subseteq Chunk
    /\ outcome \in {"none", "ok", "error"}
    /\ reader \in [Reader -> ReaderState]
    /\ retire \in [pc : {"idle", "unlink", "list", "erase"}, todo : SUBSET Chunk]
    /\ collected \in BOOLEAN

\* A published pointer never names a generation with a missing chunk: not
\* during a write, a rollback, a removal or a collection, nor after a crash
\* between any two requests (write, remove, garbageCollect, removeAsync).
PublishedComplete ==
    \A p \in Path : pointer[p] # None => Complete(p, pointer[p])

\* The store is an atomic register per path.  read() returns the active
\* generation's text; a torn generation is not a value.
ReadOf(p) ==
    IF pointer[p] = None THEN None
    ELSE IF Complete(p, pointer[p]) THEN pointer[p].val ELSE pointer[p]

AbstractCall ==
    IF pc \in WriteSteps
    THEN [op |-> "write", path |-> path, val |-> val, applied |-> pc = "sweep"]
    ELSE IF pc \in RemoveSteps
    THEN [op |-> "remove", path |-> path, val |-> None, applied |-> pc # "unlink"]
    ELSE [op |-> "none"]

Register == INSTANCE DurableRegister WITH value <- [p \in Path |-> ReadOf(p)], call <- AbstractCall

\* Whatever fails or dies, the store behaves as the register: a write that
\* throws leaves the old text, one that returns has replaced it, and a crash
\* leaves the one or the other.
ImplementsRegister == Register!RSpec

\* readAsync, interleaved with the writes and removals of its own path, never
\* assembles a text from the chunks of different generations, and reports
\* "generation is incomplete" only for one that was superseded under it.
ReadsAreHonest ==
    \A r \in Reader :
        /\ reader[r].pc # "corrupt"
        /\ reader[r].pc = "incomplete" => pointer[reader[r].path] # reader[r].man

\* When garbageCollect succeeds, every chunk left belongs to a published
\* generation, whatever failed writes, sweeps and crashes had left behind.
CollectLeavesNoGarbage ==
    [][~collected /\ collected' =>
        \A c \in chunks' : pointer'[c.path] # None /\ pointer'[c.path].gen = c.gen]_vars

\* Every synchronous call and every readAsync ends, whatever else goes on.
CallsEnd ==
    /\ pc # "idle" ~> pc = "idle"
    /\ \A r \in Reader : reader[r].pc # "idle" ~> reader[r].pc = "idle"
=============================================================================
