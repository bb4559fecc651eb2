----------------------- MODULE DurableAssetStore_proofs -----------------------
(***************************************************************************)
(* For every set of paths, texts, generations and readers: the type        *)
(* invariant of DurableAssetStore, and that a published pointer never      *)
(* names an incomplete generation.                                         *)
(***************************************************************************)
EXTENDS DurableAssetStore, TLAPS

\* The chunk is not one of a published generation.
Inactive(c) == pointer[c.path] = None \/ pointer[c.path].gen # c.gen

\* What PublishedComplete needs of the calls in progress.
CallInv ==
    /\ pc \in WriteSteps => path \in Path /\ val \in Value /\ gen \in Generation
    /\ pc \in RemoveSteps => path \in Path
    /\ pc \in WriteSteps \cup RemoveSteps => path # LegacyPath
    /\ pc \in {"add", "verify", "publish"} => pointer[path] = None \/ pointer[path].gen # gen
    /\ pc = "add" => next <= ChunkCount[val]
    /\ pc = "publish" => Complete(path, [gen |-> gen, val |-> val])
    /\ pc = "list" => pointer[path] = None

\* The loops remove only chunks that no pointer names.
LoopInv == pc \in LoopSteps => \A c \in todo : Inactive(c)

RetireInv ==
    /\ retire.pc \in {"list", "erase"} => pointer[LegacyPath] = None
    /\ \A c \in retire.todo : c.path = LegacyPath

IInv ==
    /\ TypeOK
    /\ PublishedComplete
    /\ CallInv
    /\ LoopInv
    /\ RetireInv

-----------------------------------------------------------------------------
(* A step that only moves the readers, or the outcome, disturbs nothing    *)
(* but the types of what it writes.                                        *)

LEMMA StoreFrame ==
    ASSUME IInv, UNCHANGED <<store, call, retire>>
    PROVE  PublishedComplete' /\ CallInv' /\ LoopInv' /\ RetireInv'
  BY DEF IInv, store, call, PublishedComplete, Complete, CallInv, LoopInv, RetireInv, Inactive, Indices

LEMMA InitIInv == Init => IInv
  <1> SUFFICES ASSUME Init PROVE IInv
    OBVIOUS
  <1> USE ConstantsAssumption
  <1>1. PICK v \in Value \cup {None}, g \in Generation :
          IF v = None
          THEN /\ pointer = [p \in Path |-> None]
               /\ chunks = {}
          ELSE /\ pointer = [p \in Path |-> IF p = LegacyPath THEN [gen |-> g, val |-> v] ELSE None]
               /\ chunks = [path : {LegacyPath}, gen : {g}, index : Indices(v), val : {v}]
    BY DEF Init
  <1>2. pointer \in [Path -> Manifest \cup {None}]
    BY <1>1 DEF Manifest
  <1>3. chunks \subseteq Chunk
    <2>1. CASE v = None
      BY <2>1, <1>1
    <2>2. CASE v # None
      <3>1. Indices(v) \subseteq Nat \ {0}
        BY <2>2 DEF Indices
      <3>2. chunks = [path : {LegacyPath}, gen : {g}, index : Indices(v), val : {v}]
        BY <2>2, <1>1
      <3> QED
        BY <2>2, <3>1, <3>2 DEF Chunk
    <2> QED
      BY <2>1, <2>2
  <1>4. reader \in [Reader -> ReaderState]
    BY DEF Init, NoReader, ReaderState
  <1>5. TypeOK
    <2>1. retire \in [pc : {"idle", "unlink", "list", "erase"}, todo : SUBSET Chunk]
      BY DEF Init, NoRetire
    <2>2. /\ pc = "idle" /\ path = None /\ val = None /\ gen = None /\ next = 1 /\ todo = {}
          /\ outcome = "none" /\ collected = FALSE
      BY DEF Init
    <2>3. pc \in Steps
      BY <2>2 DEF Steps
    <2>4. path \in Path \cup {None} /\ val \in Value \cup {None} /\ gen \in Generation \cup {None}
      BY <2>2
    <2>5. next \in Nat \ {0} /\ todo \subseteq Chunk
      BY <2>2
    <2>6. outcome \in {"none", "ok", "error"} /\ collected \in BOOLEAN
      BY <2>2
    <2> QED
      BY <1>2, <1>3, <1>4, <2>1, <2>3, <2>4, <2>5, <2>6, Zenon DEF TypeOK
  <1>6. PublishedComplete
    <2> SUFFICES ASSUME NEW p \in Path, pointer[p] # None, NEW i \in Indices(pointer[p].val)
                 PROVE  [path |-> p, gen |-> pointer[p].gen, index |-> i, val |-> pointer[p].val] \in chunks
      BY DEF PublishedComplete, Complete
    <2>1. v # None /\ p = LegacyPath /\ pointer[p] = [gen |-> g, val |-> v]
      BY <1>1
    <2>2. chunks = [path : {LegacyPath}, gen : {g}, index : Indices(v), val : {v}]
      BY <1>1, <2>1
    <2>3. i \in Indices(v)
      BY <2>1
    <2> QED
      BY <2>1, <2>2, <2>3
  <1>7. CallInv /\ LoopInv /\ RetireInv
    BY DEF Init, CallInv, LoopInv, RetireInv, WriteSteps, RemoveSteps, LoopSteps, NoRetire
  <1> QED
    BY <1>5, <1>6, <1>7 DEF IInv

-----------------------------------------------------------------------------
(* What an added and a removed chunk mean to the published generations.    *)

LEMMA AddingKeepsComplete ==
    ASSUME PublishedComplete, chunks \subseteq chunks', pointer' = pointer
    PROVE  PublishedComplete'
  BY DEF PublishedComplete, Complete, Indices

LEMMA RemovingKeepsComplete ==
    ASSUME TypeOK, PublishedComplete, pointer' = pointer,
           NEW c, Inactive(c), chunks' = chunks \ {c}
    PROVE  PublishedComplete'
  <1> SUFFICES ASSUME NEW p \in Path, pointer[p] # None, NEW i \in Indices(pointer[p].val)
               PROVE  [path |-> p, gen |-> pointer[p].gen, index |-> i, val |-> pointer[p].val] \in chunks'
    BY DEF PublishedComplete, Complete, Indices
  <1> DEFINE kept == [path |-> p, gen |-> pointer[p].gen, index |-> i, val |-> pointer[p].val]
  <1>1. kept \in chunks
    BY DEF PublishedComplete, Complete
  <1>2. kept # c
    BY DEF Inactive
  <1> QED
    BY <1>1, <1>2

LEMMA UnlinkingKeepsComplete ==
    ASSUME TypeOK, PublishedComplete, NEW p \in Path,
           pointer' = [pointer EXCEPT ![p] = None], chunks' = chunks
    PROVE  PublishedComplete'
  BY DEF TypeOK, PublishedComplete, Complete, Indices

-----------------------------------------------------------------------------
(* readAsync                                                               *)

LEMMA ReaderKeepsIInv ==
    ASSUME IInv, NEW r \in Reader, ReaderStep(r)
    PROVE  IInv'
  <1> USE ConstantsAssumption DEF IInv
  <1>1. UNCHANGED <<store, call, outcome, retire, collected>>
    BY DEF ReaderStep, StartRead, AnswerPointer, AfterPointer, AnswerChunk, AfterChunk,
           QueryFails, SettleRead
  <1>2. PublishedComplete' /\ CallInv' /\ LoopInv' /\ RetireInv'
    BY <1>1, StoreFrame
  <1>3. reader' \in [Reader -> ReaderState]
    <2>0. reader \in [Reader -> ReaderState] /\ reader[r] \in ReaderState
      BY DEF TypeOK
    <2>1. ASSUME NEW p \in Path, StartRead(r, p) PROVE reader' \in [Reader -> ReaderState]
      <3>1. Reading(p) \in ReaderState
        BY DEF Reading, ReaderState
      <3>2. reader' = [reader EXCEPT ![r] = Reading(p)]
        BY <2>1 DEF StartRead
      <3> QED
        BY <2>0, <3>1, <3>2, Zenon
    <2>2. CASE AnswerPointer(r)
      <3>1. pointer[reader[r].path] \in Manifest \cup {None}
        BY <2>0 DEF TypeOK, ReaderState
      <3> QED
        BY <2>0, <2>2, <3>1 DEF AnswerPointer, ReaderState
    <2>3. CASE AfterPointer(r)
      BY <2>0, <2>3 DEF AfterPointer, ReaderState
    <2>4. CASE AnswerChunk(r)
      <3> DEFINE found == {c \in ChunksOfGeneration(reader[r].path, reader[r].man.gen) : c.index = reader[r].next}
      <3>1. {c.val : c \in found} \subseteq Value
        BY DEF TypeOK, Chunk, ChunksOfGeneration
      <3> HIDE DEF found
      <3>2. CASE found = {}
        BY <2>0, <2>4, <3>2 DEF AnswerChunk, ReaderState, found
      <3>3. CASE found # {}
        <4>1. reader' = [reader EXCEPT ![r].waiting = FALSE, ![r].next = @ + 1,
                                       ![r].got = @ \cup {c.val : c \in found}]
          BY <2>4, <3>3 DEF AnswerChunk, found
        <4>2. reader[r].next + 1 \in Nat \ {0}
          BY <2>0 DEF ReaderState
        <4>3. reader[r].got \cup {c.val : c \in found} \in SUBSET Value
          BY <2>0, <3>1 DEF ReaderState
        <4> QED
          BY <2>0, <4>1, <4>2, <4>3 DEF ReaderState
      <3> QED
        BY <3>2, <3>3
    <2>5. CASE AfterChunk(r)
      <3>1. \/ reader' = [reader EXCEPT ![r].waiting = TRUE]
            \/ reader' = [reader EXCEPT ![r].pc = "value"]
            \/ reader' = [reader EXCEPT ![r].pc = "corrupt"]
        BY <2>5 DEF AfterChunk
      <3>2. /\ [reader[r] EXCEPT !.waiting = TRUE] \in ReaderState
            /\ [reader[r] EXCEPT !.pc = "value"] \in ReaderState
            /\ [reader[r] EXCEPT !.pc = "corrupt"] \in ReaderState
        BY <2>0 DEF ReaderState
      <3> QED
        BY <2>0, <3>1, <3>2, Zenon
    <2>6. CASE QueryFails(r) \/ SettleRead(r)
      <3>1. NoReader \in ReaderState
        BY DEF NoReader, ReaderState
      <3>2. reader' = [reader EXCEPT ![r] = NoReader]
        BY <2>6 DEF QueryFails, SettleRead
      <3> QED
        BY <2>0, <3>1, <3>2, Zenon
    <2> QED
      BY <2>1, <2>2, <2>3, <2>4, <2>5, <2>6 DEF ReaderStep
  <1>4. TypeOK'
    BY <1>1, <1>3 DEF TypeOK, store, call
  <1> QED
    BY <1>2, <1>4

-----------------------------------------------------------------------------
(* write                                                                   *)

LEMMA StartWriteKeepsIInv ==
    ASSUME IInv, NEW p \in Path, NEW v \in Value, NEW g \in Generation, StartWrite(p, v, g)
    PROVE  IInv'
  <1> USE ConstantsAssumption DEF IInv
  <1>1. TypeOK'
    BY DEF StartWrite, TypeOK, store, Steps, WriteSteps
  <1>2. PublishedComplete' /\ LoopInv' /\ RetireInv'
    BY DEF StartWrite, store, PublishedComplete, Complete, Indices, LoopInv, LoopSteps, RetireInv
  <1>3. pointer[p] = None \/ pointer[p].gen # g
    BY DEF StartWrite, Fresh
  <1>4. CallInv'
    BY <1>3 DEF StartWrite, store, CallInv, WriteSteps, RemoveSteps
  <1> QED
    BY <1>1, <1>2, <1>4

LEMMA AddChunkKeepsIInv ==
    ASSUME IInv, AddChunk
    PROVE  IInv'
  <1> USE ConstantsAssumption DEF IInv
  <1>0. path \in Path /\ val \in Value /\ gen \in Generation /\ path # LegacyPath
    BY DEF AddChunk, CallInv, WriteSteps
  <1>1. TypeOK'
    <2>1. [path |-> path, gen |-> gen, index |-> next, val |-> val] \in Chunk
      BY <1>0 DEF TypeOK, Chunk
    <2>2. next + 1 \in Nat \ {0} /\ pc' \in Steps
      BY DEF AddChunk, TypeOK, Steps, WriteSteps
    <2> QED
      BY <2>1, <2>2 DEF AddChunk, TypeOK
  <1>2. PublishedComplete'
    BY AddingKeepsComplete DEF AddChunk
  <1>3. CallInv'
    BY <1>0 DEF AddChunk, TypeOK, CallInv, WriteSteps, RemoveSteps
  <1>4. LoopInv' /\ RetireInv'
    BY DEF AddChunk, LoopInv, LoopSteps, RetireInv
  <1> QED
    BY <1>1, <1>2, <1>3, <1>4

LEMMA VerifyChunksKeepsIInv ==
    ASSUME IInv, VerifyChunks
    PROVE  IInv'
  <1> USE DEF IInv
  <1>1. TypeOK'
    BY DEF VerifyChunks, store, TypeOK, Steps, WriteSteps
  <1>2. PublishedComplete' /\ LoopInv' /\ RetireInv'
    BY DEF VerifyChunks, store, PublishedComplete, Complete, Indices, LoopInv, LoopSteps, RetireInv
  <1>3. CallInv'
    BY DEF VerifyChunks, store, CallInv, Complete, Indices, WriteSteps, RemoveSteps
  <1> QED
    BY <1>1, <1>2, <1>3

LEMMA PublishPointerKeepsIInv ==
    ASSUME IInv, PublishPointer
    PROVE  IInv'
  <1> USE ConstantsAssumption DEF IInv
  <1> DEFINE m == [gen |-> gen, val |-> val]
  <1>0. path \in Path /\ val \in Value /\ gen \in Generation /\ path # LegacyPath
    BY DEF PublishPointer, CallInv, WriteSteps
  <1>1. m \in Manifest
    BY <1>0 DEF Manifest
  <1>2. pointer' = [pointer EXCEPT ![path] = m] /\ chunks' = chunks
    BY DEF PublishPointer
  <1>3. TypeOK'
    <2>1. OtherGenerations(path, gen) \subseteq Chunk
      BY DEF TypeOK, OtherGenerations
    <2>2. pointer' \in [Path -> Manifest \cup {None}]
      BY <1>1, <1>2 DEF TypeOK
    <2>3. pc' \in Steps
      BY DEF PublishPointer, Steps, WriteSteps
    <2> HIDE DEF m
    <2> QED
      BY <1>2, <2>1, <2>2, <2>3 DEF PublishPointer, TypeOK
  <1>4. PublishedComplete'
    BY <1>0, <1>2 DEF PublishPointer, TypeOK, CallInv, PublishedComplete, Complete, Indices
  <1>5. CallInv' /\ RetireInv'
    BY <1>0, <1>2 DEF PublishPointer, TypeOK, CallInv, RetireInv, WriteSteps, RemoveSteps
  <1>6. LoopInv'
    <2>1. pointer'[path].gen = gen
      BY <1>0, <1>2 DEF TypeOK
    <2> QED
      BY <2>1 DEF PublishPointer, OtherGenerations, LoopInv, Inactive
  <1> QED
    BY <1>3, <1>4, <1>5, <1>6

LEMMA WriteFailsKeepsIInv ==
    ASSUME IInv, WriteFails
    PROVE  IInv'
  <1> USE DEF IInv
  <1>1. TypeOK'
    BY DEF WriteFails, store, TypeOK, ChunksOfGeneration, Steps, WriteSteps
  <1>2. PublishedComplete' /\ RetireInv'
    BY DEF WriteFails, store, PublishedComplete, Complete, Indices, RetireInv
  <1>3. CallInv'
    BY DEF WriteFails, store, CallInv, WriteSteps, RemoveSteps
  <1>4. LoopInv'
    BY DEF WriteFails, store, CallInv, ChunksOfGeneration, LoopInv, Inactive
  <1> QED
    BY <1>1, <1>2, <1>3, <1>4

-----------------------------------------------------------------------------
(* remove and garbageCollect                                               *)

LEMMA EndKeepsIInv ==
    ASSUME IInv, NEW result \in {"none", "ok", "error"}, End(result),
           UNCHANGED <<store, reader, retire>>, collected' \in BOOLEAN
    PROVE  IInv'
  <1> USE DEF IInv
  <1>1. TypeOK'
    BY DEF End, ResetCall, store, TypeOK, Steps
  <1>2. PublishedComplete' /\ LoopInv' /\ RetireInv'
    BY DEF End, ResetCall, store, PublishedComplete, Complete, Indices, LoopInv, LoopSteps, RetireInv
  <1>3. CallInv'
    BY DEF End, ResetCall, CallInv, WriteSteps, RemoveSteps
  <1> QED
    BY <1>1, <1>2, <1>3

LEMMA StartRemoveKeepsIInv ==
    ASSUME IInv, NEW p \in Path, StartRemove(p)
    PROVE  IInv'
  <1> USE DEF IInv
  <1>1. TypeOK'
    BY DEF StartRemove, store, TypeOK, Steps, RemoveSteps
  <1>2. PublishedComplete' /\ LoopInv' /\ RetireInv'
    BY DEF StartRemove, store, PublishedComplete, Complete, Indices, LoopInv, LoopSteps, RetireInv
  <1>3. CallInv'
    BY DEF StartRemove, CallInv, WriteSteps, RemoveSteps
  <1> QED
    BY <1>1, <1>2, <1>3

LEMMA UnlinkPointerKeepsIInv ==
    ASSUME IInv, UnlinkPointer
    PROVE  IInv'
  <1> USE DEF IInv
  <1>0. path \in Path /\ path # LegacyPath
    BY DEF UnlinkPointer, CallInv, RemoveSteps
  <1>1. TypeOK'
    <2>1. pointer' \in [Path -> Manifest \cup {None}]
      BY DEF UnlinkPointer, TypeOK
    <2>2. pc' \in Steps
      BY DEF UnlinkPointer, Steps, RemoveSteps
    <2> QED
      BY <2>1, <2>2 DEF UnlinkPointer, TypeOK
  <1>2. PublishedComplete'
    BY <1>0, UnlinkingKeepsComplete DEF UnlinkPointer
  <1>3. LoopInv' /\ RetireInv'
    BY <1>0 DEF UnlinkPointer, TypeOK, LoopInv, LoopSteps, RetireInv
  <1>4. CallInv'
    BY <1>0 DEF UnlinkPointer, TypeOK, CallInv, WriteSteps, RemoveSteps
  <1> QED
    BY <1>1, <1>2, <1>3, <1>4

LEMMA ListRecordsKeepsIInv ==
    ASSUME IInv, ListRecords
    PROVE  IInv'
  <1> USE DEF IInv
  <1>1. TypeOK'
    BY DEF ListRecords, store, TypeOK, ChunksOf, Steps, RemoveSteps
  <1>2. PublishedComplete' /\ RetireInv'
    BY DEF ListRecords, store, PublishedComplete, Complete, Indices, RetireInv
  <1>3. LoopInv'
    BY DEF ListRecords, store, CallInv, ChunksOf, LoopInv, Inactive
  <1>4. CallInv'
    BY DEF ListRecords, store, CallInv, WriteSteps, RemoveSteps
  <1> QED
    BY <1>1, <1>2, <1>3, <1>4

LEMMA StartCollectKeepsIInv ==
    ASSUME IInv, StartCollect
    PROVE  IInv'
  <1> USE DEF IInv
  <1>1. TypeOK'
    BY DEF StartCollect, store, TypeOK, Garbage, Steps
  <1>2. PublishedComplete' /\ RetireInv'
    BY DEF StartCollect, store, PublishedComplete, Complete, Indices, RetireInv
  <1>3. LoopInv'
    BY DEF StartCollect, store, Garbage, LoopInv, Inactive
  <1>4. CallInv'
    BY DEF StartCollect, CallInv, WriteSteps, RemoveSteps
  <1> QED
    BY <1>1, <1>2, <1>3, <1>4

LEMMA RemoveOneRecordKeepsIInv ==
    ASSUME IInv, RemoveOneRecord
    PROVE  IInv'
  <1> USE DEF IInv
  <1>0. PICK c \in todo : chunks' = chunks \ {c} /\ todo' = todo \ {c}
    BY DEF RemoveOneRecord
  <1>1. Inactive(c) /\ UNCHANGED <<pointer, pc, path, val, gen, next, outcome, reader, retire, collected>>
    BY DEF RemoveOneRecord, LoopInv
  <1>2. TypeOK'
    BY <1>0, <1>1 DEF TypeOK
  <1>3. PublishedComplete'
    BY <1>0, <1>1, RemovingKeepsComplete
  <1>4. LoopInv' /\ RetireInv'
    BY <1>0, <1>1 DEF LoopInv, RetireInv, Inactive
  <1>5. CallInv'
    BY <1>1 DEF RemoveOneRecord, CallInv, LoopSteps, WriteSteps, RemoveSteps
  <1> QED
    BY <1>2, <1>3, <1>4, <1>5

LEMMA RemovalFailsKeepsIInv ==
    ASSUME IInv, RemovalFails
    PROVE  IInv'
  <1>1. CASE pc = "erase" /\ \E c \in todo : todo' = todo \ {c} /\ UNCHANGED <<pc, path, val, gen, next, outcome>>
    <2> USE DEF IInv
    <2>1. TypeOK'
      BY <1>1 DEF RemovalFails, store, TypeOK
    <2>2. PublishedComplete' /\ LoopInv' /\ RetireInv'
      BY <1>1 DEF RemovalFails, store, PublishedComplete, Complete, Indices, LoopInv, RetireInv, Inactive
    <2>3. CallInv'
      BY <1>1 DEF RemovalFails, store, CallInv, WriteSteps, RemoveSteps
    <2> QED
      BY <2>1, <2>2, <2>3
  <1>2. CASE \E result \in {"none", "ok", "error"} : End(result)
    BY <1>2, EndKeepsIInv DEF RemovalFails, IInv, TypeOK
  <1> QED
    BY <1>1, <1>2 DEF RemovalFails, IInv, TypeOK

LEMMA CallStepKeepsIInv ==
    ASSUME IInv, CallStep
    PROVE  IInv'
  <1>1. CASE RemoveFails
    BY <1>1, EndKeepsIInv DEF RemoveFails, IInv, TypeOK
  <1>2. CASE FinishCall
    <2> DEFINE result == CASE pc = "rollback" -> "error" [] pc = "collect" -> outcome [] OTHER -> "ok"
    <2>1. result \in {"none", "ok", "error"}
      BY DEF IInv, TypeOK
    <2>2. End(result) /\ UNCHANGED <<store, reader, retire>>
      BY <1>2 DEF FinishCall
    <2>3. collected' \in BOOLEAN
      BY <1>2 DEF FinishCall
    <2> HIDE DEF result
    <2> QED
      BY <2>1, <2>2, <2>3, EndKeepsIInv
  <1> QED
    BY <1>1, <1>2, AddChunkKeepsIInv, VerifyChunksKeepsIInv, PublishPointerKeepsIInv, WriteFailsKeepsIInv,
       UnlinkPointerKeepsIInv, ListRecordsKeepsIInv, RemoveOneRecordKeepsIInv, RemovalFailsKeepsIInv
       DEF CallStep

-----------------------------------------------------------------------------
(* removeAsync, the crash, and the theorems                                *)

LEMMA RetireKeepsIInv ==
    ASSUME IInv, RetireStep
    PROVE  IInv'
  <1> USE ConstantsAssumption DEF IInv
  <1>1. CASE StartRetire
    BY <1>1 DEF StartRetire, NoRetire, store, call, TypeOK, PublishedComplete, Complete, Indices,
                CallInv, LoopInv, RetireInv, Inactive
  <1>2. CASE RetirePointer
    <2>1. TypeOK'
      BY <1>2 DEF RetirePointer, call, TypeOK
    <2>2. PublishedComplete'
      BY <1>2, UnlinkingKeepsComplete DEF RetirePointer
    <2>3. CallInv' /\ LoopInv' /\ RetireInv'
      BY <1>2 DEF RetirePointer, call, TypeOK, CallInv, LoopInv, RetireInv, Inactive, Complete, Indices
    <2> QED
      BY <2>1, <2>2, <2>3
  <1>3. CASE ListRetired
    BY <1>3 DEF ListRetired, store, call, ChunksOf, TypeOK, PublishedComplete, Complete, Indices,
                CallInv, LoopInv, RetireInv, Inactive
  <1>4. CASE RetireChunk
    <2>0. PICK c \in retire.todo : chunks' = chunks \ {c} /\ retire' = [retire EXCEPT !.todo = @ \ {c}]
      BY <1>4 DEF RetireChunk
    <2>1. UNCHANGED <<pointer, pc, path, val, gen, next, todo, outcome, reader, collected>>
      BY <1>4 DEF RetireChunk, call
    <2>2. c.path = LegacyPath /\ pointer[LegacyPath] = None
      BY <1>4 DEF RetireChunk, RetireInv
    <2>3. TypeOK' /\ RetireInv'
      BY <2>0, <2>1 DEF TypeOK, RetireInv
    <2>4. PublishedComplete'
      BY <2>0, <2>1, <2>2, RemovingKeepsComplete DEF Inactive
    <2>5. CallInv' /\ LoopInv'
      BY <2>0, <2>1, <2>2 DEF CallInv, LoopInv, Inactive, Complete, Indices, WriteSteps
    <2> QED
      BY <2>3, <2>4, <2>5
  <1>5. CASE EndRetire
    BY <1>5 DEF EndRetire, NoRetire, store, call, TypeOK, PublishedComplete, Complete, Indices,
                CallInv, LoopInv, RetireInv, Inactive
  <1> QED
    BY <1>1, <1>2, <1>3, <1>4, <1>5 DEF RetireStep

LEMMA CrashKeepsIInv ==
    ASSUME IInv, Crash
    PROVE  IInv'
  <1> USE ConstantsAssumption DEF IInv
  <1>1. NoReader \in ReaderState
    BY DEF NoReader, ReaderState
  <1>2. reader' \in [Reader -> ReaderState] /\ pc' \in Steps
    BY <1>1 DEF Crash, ResetCall, Steps
  <1>3. TypeOK'
    <2>1. retire' \in [pc : {"idle", "unlink", "list", "erase"}, todo : SUBSET Chunk]
      BY DEF Crash, NoRetire
    <2>2. UNCHANGED <<pointer, chunks>> /\ collected' \in BOOLEAN /\ outcome' = "none"
      BY DEF Crash, store
    <2>3. path' = None /\ val' = None /\ gen' = None /\ next' \in Nat \ {0} /\ todo' \subseteq Chunk
      BY DEF Crash, ResetCall
    <2> QED
      BY <1>2, <2>1, <2>2, <2>3, Zenon DEF TypeOK
  <1>4. PublishedComplete' /\ LoopInv' /\ RetireInv'
    BY DEF Crash, ResetCall, store, NoRetire, PublishedComplete, Complete, Indices, LoopInv, LoopSteps, RetireInv
  <1>5. CallInv'
    BY DEF Crash, ResetCall, CallInv, WriteSteps, RemoveSteps
  <1> QED
    BY <1>3, <1>4, <1>5

LEMMA StutterKeepsIInv ==
    ASSUME IInv, UNCHANGED vars
    PROVE  IInv'
  BY StoreFrame DEF IInv, TypeOK, vars, store, call

\* IInv holds in every reachable state, for every value of the constants.
THEOREM IInvHolds == Spec => []IInv
  <1>1. Init => IInv
    BY InitIInv
  <1>2. IInv /\ [Next]_vars => IInv'
    BY StartWriteKeepsIInv, StartRemoveKeepsIInv, StartCollectKeepsIInv, CallStepKeepsIInv,
       ReaderKeepsIInv, RetireKeepsIInv, CrashKeepsIInv, StutterKeepsIInv DEF Next
  <1> QED
    BY <1>1, <1>2, PTL DEF Spec

\* Type correctness of the store's records and of the calls in progress.
THEOREM TypeCorrect == Spec => []TypeOK
  <1>1. IInv => TypeOK
    BY DEF IInv
  <1> QED
    BY <1>1, IInvHolds, PTL

\* Nothing that write, remove, garbageCollect, removeAsync, a failed request
\* or a crash does ever leaves a published pointer without its chunks.
THEOREM PublishedNeverTorn == Spec => []PublishedComplete
  <1>1. IInv => PublishedComplete
    BY DEF IInv
  <1> QED
    BY <1>1, IInvHolds, PTL

=============================================================================
