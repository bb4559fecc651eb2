---------------------- MODULE DurableAssetStore_refinement ----------------------
(***************************************************************************)
(* For every set of paths, texts, generations and readers: the store is    *)
(* the register its callers are promised, what readAsync assembles is one  *)
(* published text, and a collection that succeeds leaves no garbage.       *)
(***************************************************************************)
EXTENDS DurableAssetStore_proofs

\* A generation that is being written: no reader knows its name.
UnderConstruction(p, g) == pc \in {"add", "verify", "publish"} /\ path = p /\ gen = g

\* The chunks of one generation are chunks of one text.
OneText(p, m) == \A c \in chunks : c.path = p /\ c.gen = m.gen => c.val = m.val

GenerationInv ==
    /\ \A p \in Path : pointer[p] # None => OneText(p, pointer[p])
    /\ \A p \in Path, g \in Generation : UnderConstruction(p, g) => OneText(p, [gen |-> g, val |-> val])

ReaderInv(r) ==
    LET rd == reader[r] IN
    /\ rd.man # None => OneText(rd.path, rd.man) /\ ~UnderConstruction(rd.path, rd.man.gen)
    /\ rd.pc \in {"pointer", "absent"} => rd.next = 1 /\ rd.got = {}
    /\ rd.pc = "chunk" =>
        /\ rd.man # None
        /\ rd.got = IF rd.next = 1 THEN {} ELSE {rd.man.val}
        /\ rd.waiting => rd.next <= ChunkCount[rd.man.val]
    /\ rd.pc = "incomplete" => rd.man # None /\ pointer[rd.path] # rd.man
    /\ rd.pc # "corrupt"

\* What a collection has left to remove is all there is to remove.
CollectInv == pc = "collect" => retire.pc = "idle" /\ Garbage \subseteq todo

RInv ==
    /\ IInv
    /\ GenerationInv
    /\ \A r \in Reader : ReaderInv(r)
    /\ CollectInv

-----------------------------------------------------------------------------
(* Most steps begin no generation, add no chunk and publish no pointer.     *)

Quiet ==
    /\ chunks' \subseteq chunks
    /\ \A p \in Path : pointer'[p] \in {None, pointer[p]}
    /\ \A p \in Path, g \in Generation : UnderConstruction(p, g)' => UnderConstruction(p, g)
    /\ pc' \in {"add", "verify", "publish"} => val' = val

LEMMA QuietKeepsGenerations ==
    ASSUME RInv, Quiet
    PROVE  GenerationInv'
  BY DEF RInv, Quiet, GenerationInv, OneText, UnderConstruction

LEMMA QuietKeepsReader ==
    ASSUME RInv, Quiet, NEW r \in Reader, reader'[r] = reader[r]
    PROVE  ReaderInv(r)'
  <1>1. reader[r] \in ReaderState
    BY DEF RInv, IInv, TypeOK
  <1>2. reader[r].man # None => OneText(reader[r].path, reader[r].man)'
    BY ZenonT(60) DEF RInv, ReaderInv, OneText, Quiet
  <1>3. reader[r].man # None => ~UnderConstruction(reader[r].path, reader[r].man.gen)'
    BY <1>1 DEF RInv, ReaderInv, Quiet, ReaderState, Manifest
  <1>4. reader[r].pc = "incomplete" => reader[r].man # None /\ pointer'[reader[r].path] # reader[r].man
    BY <1>1 DEF RInv, ReaderInv, Quiet, ReaderState
  <1> QED
    BY <1>2, <1>3, <1>4 DEF RInv, ReaderInv

\* The steps of a synchronous call that are quiet.
QuietCall ==
    \/ VerifyChunks \/ WriteFails \/ UnlinkPointer \/ ListRecords \/ RemoveFails
    \/ RemoveOneRecord \/ RemovalFails \/ FinishCall

LEMMA QuietCallIsQuiet ==
    ASSUME IInv, QuietCall
    PROVE  Quiet /\ UNCHANGED reader
  <1> USE DEF Quiet, UnderConstruction, store
  <1>1. CASE VerifyChunks \/ WriteFails \/ ListRecords
    BY <1>1 DEF VerifyChunks, WriteFails, ListRecords
  <1>2. CASE UnlinkPointer
    BY <1>2 DEF UnlinkPointer, IInv, TypeOK
  <1>3. CASE RemoveFails \/ RemovalFails \/ FinishCall
    BY <1>3 DEF RemoveFails, RemovalFails, FinishCall, End, ResetCall
  <1>4. CASE RemoveOneRecord
    BY <1>4 DEF RemoveOneRecord, LoopSteps
  <1> QED
    BY <1>1, <1>2, <1>3, <1>4 DEF QuietCall

\* The steps of nobody's synchronous call and no reader.
QuietOther ==
    \/ \E p \in Path : StartRemove(p)
    \/ StartCollect
    \/ RetireStep
    \/ UNCHANGED vars

LEMMA QuietOtherIsQuiet ==
    ASSUME IInv, QuietOther
    PROVE  Quiet /\ UNCHANGED reader
  <1> USE DEF Quiet, UnderConstruction, store, call
  <1>1. CASE \E p \in Path : StartRemove(p)
    BY <1>1 DEF StartRemove
  <1>2. CASE StartCollect
    BY <1>2 DEF StartCollect
  <1>3. CASE RetireStep
    BY <1>3 DEF RetireStep, StartRetire, RetirePointer, ListRetired, RetireChunk, EndRetire, IInv, TypeOK
  <1>4. CASE UNCHANGED vars
    BY <1>4 DEF vars
  <1> QED
    BY <1>1, <1>2, <1>3, <1>4 DEF QuietOther

LEMMA ReaderStepIsQuiet ==
    ASSUME NEW r \in Reader, ReaderStep(r)
    PROVE  Quiet /\ UNCHANGED <<store, call, retire>>
  BY DEF ReaderStep, StartRead, AnswerPointer, AfterPointer, AnswerChunk, AfterChunk, QueryFails,
         SettleRead, Quiet, UnderConstruction, store, call

-----------------------------------------------------------------------------
(* readAsync                                                               *)

LEMMA ReaderKeepsItsInv ==
    ASSUME RInv, NEW r \in Reader, ReaderStep(r)
    PROVE  ReaderInv(r)'
  <1> USE ConstantsAssumption DEF ReaderInv, OneText, UnderConstruction, store, call
  <1>1. reader \in [Reader -> ReaderState] /\ reader[r] \in ReaderState /\ ReaderInv(r)
    BY DEF RInv, IInv, TypeOK
  <1>2. UNCHANGED <<pointer, chunks, pc, path, val, gen>>
    BY ReaderStepIsQuiet
  <1>3. ASSUME NEW p \in Path, StartRead(r, p) PROVE ReaderInv(r)'
    BY <1>1, <1>2, <1>3 DEF StartRead, Reading
  <1>4. CASE AnswerPointer(r)
    <2>1. /\ reader' = [reader EXCEPT ![r].waiting = FALSE, ![r].man = pointer[reader[r].path]]
          /\ reader[r].pc = "pointer"
      BY <1>4 DEF AnswerPointer
    <2>2. /\ reader'[r].pc = "pointer" /\ reader'[r].path = reader[r].path
          /\ reader'[r].next = reader[r].next /\ reader'[r].got = reader[r].got
          /\ reader'[r].man = pointer[reader[r].path]
      BY <1>1, <2>1 DEF ReaderState
    <2>3. reader[r].path \in Path
      BY <1>1 DEF ReaderState
    <2>4. pointer[reader[r].path] # None =>
            /\ OneText(reader[r].path, pointer[reader[r].path])
            /\ ~UnderConstruction(reader[r].path, pointer[reader[r].path].gen)
      BY <2>3 DEF RInv, IInv, CallInv, GenerationInv
    <2> QED
      BY <1>1, <1>2, <2>1, <2>2, <2>4
  <1>5. CASE AfterPointer(r)
    <2>1. ChunkCount[reader[r].man.val] >= 1 \/ reader[r].man = None
      BY <1>1 DEF ReaderState, Manifest
    <2> QED
      BY <1>1, <1>2, <1>5, <2>1 DEF AfterPointer, ReaderState, Manifest
  <1>6. CASE AnswerChunk(r)
    <2> DEFINE found == {c \in ChunksOfGeneration(reader[r].path, reader[r].man.gen) : c.index = reader[r].next}
               m == reader[r].man
    <2>1. /\ m # None /\ m \in Manifest /\ reader[r].path \in Path
          /\ reader[r].next \in 1..ChunkCount[m.val]
          /\ reader[r].got = IF reader[r].next = 1 THEN {} ELSE {m.val}
      BY <1>1, <1>6 DEF AnswerChunk, ReaderState, Manifest
    <2>2. CASE found = {}
      <3>1. reader' = [reader EXCEPT ![r].waiting = FALSE, ![r].pc = "incomplete"]
        BY <1>6, <2>2 DEF AnswerChunk
      <3>2. pointer[reader[r].path] # m
        <4> SUFFICES ASSUME pointer[reader[r].path] = m PROVE FALSE
          OBVIOUS
        <4>1. [path |-> reader[r].path, gen |-> m.gen, index |-> reader[r].next, val |-> m.val] \in chunks
          BY <2>1 DEF RInv, IInv, PublishedComplete, Complete, Indices
        <4> QED
          BY <2>2, <4>1 DEF ChunksOfGeneration
      <3>3. /\ reader'[r].pc = "incomplete" /\ reader'[r].man = m /\ reader'[r].path = reader[r].path
        BY <1>1, <3>1 DEF ReaderState
      <3> QED
        BY <1>1, <1>2, <2>1, <3>2, <3>3
    <2>3. CASE found # {}
      <3>1. {c.val : c \in found} = {m.val}
        <4>1. \A c \in found : c.val = m.val
          BY <1>1, <2>1 DEF ChunksOfGeneration
        <4> QED
          BY <2>3, <4>1
      <3>2. reader' = [reader EXCEPT ![r].waiting = FALSE, ![r].next = @ + 1,
                                     ![r].got = @ \cup {c.val : c \in found}]
        BY <1>6, <2>3 DEF AnswerChunk
      <3>3. /\ reader'[r].pc = "chunk" /\ ~reader'[r].waiting /\ reader'[r].man = m
            /\ reader'[r].path = reader[r].path /\ reader'[r].next = reader[r].next + 1
            /\ reader'[r].got = reader[r].got \cup {c.val : c \in found}
        BY <1>1, <1>6, <3>2 DEF ReaderState, AnswerChunk
      <3>4. reader'[r].got = {m.val} /\ reader'[r].next # 1
        BY <2>1, <3>1, <3>3
      <3> QED
        BY <1>1, <1>2, <2>1, <3>3, <3>4
    <2> QED
      BY <2>2, <2>3
  <1>7. CASE AfterChunk(r)
    <2>1. /\ reader[r].pc = "chunk" /\ reader[r].man # None /\ reader[r].man.val \in Value
          /\ reader[r].next \in Nat \ {0} /\ ChunkCount[reader[r].man.val] \in Nat \ {0}
      BY <1>1, <1>7 DEF AfterChunk, ReaderState, Manifest
    <2>2. CASE reader[r].next <= ChunkCount[reader[r].man.val]
      BY <1>1, <1>2, <1>7, <2>1, <2>2 DEF AfterChunk, ReaderState
    <2>3. CASE ~(reader[r].next <= ChunkCount[reader[r].man.val])
      <3>1. reader[r].got = {reader[r].man.val}
        BY <1>1, <2>1, <2>3
      <3> QED
        BY <1>1, <1>2, <1>7, <2>1, <2>3, <3>1 DEF AfterChunk, ReaderState
    <2> QED
      BY <2>2, <2>3
  <1>8. CASE QueryFails(r) \/ SettleRead(r)
    BY <1>1, <1>2, <1>8 DEF QueryFails, SettleRead, NoReader
  <1> QED
    BY <1>3, <1>4, <1>5, <1>6, <1>7, <1>8 DEF ReaderStep

LEMMA ReaderLeavesOthers ==
    ASSUME RInv, NEW r \in Reader, ReaderStep(r), NEW q \in Reader \ {r}
    PROVE  reader'[q] = reader[q]
  BY DEF RInv, IInv, TypeOK, ReaderStep, StartRead, AnswerPointer, AfterPointer, AnswerChunk,
         AfterChunk, QueryFails, SettleRead

-----------------------------------------------------------------------------
(* The steps that are not quiet.                                           *)

\* Fresh: no chunk, no pointer and no reader has the name.
LEMMA StartWriteKeepsRInv ==
    ASSUME RInv, NEW p \in Path, NEW v \in Value, NEW g \in Generation, StartWrite(p, v, g)
    PROVE  GenerationInv' /\ \A r \in Reader : ReaderInv(r)'
  <1>1. /\ UNCHANGED <<pointer, chunks, reader>>
        /\ pc' = "add" /\ path' = p /\ val' = v /\ gen' = g
    BY DEF StartWrite, store
  <1>2. \A c \in chunks : c.gen # g
    BY DEF StartWrite, Fresh
  <1>3. \A r \in Reader : reader[r].man # None => reader[r].man.gen # g
    BY DEF StartWrite, Fresh
  <1>4. GenerationInv'
    BY <1>1, <1>2 DEF RInv, GenerationInv, OneText, UnderConstruction
  <1> QED
    BY <1>1, <1>3, <1>4 DEF RInv, ReaderInv, OneText, UnderConstruction

LEMMA AddChunkKeepsRInv ==
    ASSUME RInv, AddChunk
    PROVE  GenerationInv' /\ \A r \in Reader : ReaderInv(r)'
  <1> DEFINE added == [path |-> path, gen |-> gen, index |-> next, val |-> val]
  <1>1. /\ pc = "add" /\ chunks' = chunks \cup {added} /\ pc' \in {"verify", "add"}
        /\ UNCHANGED <<pointer, path, val, gen, reader>>
    BY DEF AddChunk
  <1>2. path \in Path /\ gen \in Generation /\ (pointer[path] = None \/ pointer[path].gen # gen)
    BY <1>1 DEF RInv, IInv, CallInv, WriteSteps
  <1>3. added.path = path /\ added.gen = gen /\ added.val = val
    OBVIOUS
  <1> HIDE DEF added
  <1>4. \A p \in Path : pointer[p] # None => OneText(p, pointer[p])'
    BY <1>1, <1>2, <1>3 DEF RInv, GenerationInv, OneText
  <1>5. \A p \in Path, g \in Generation :
          UnderConstruction(p, g)' => OneText(p, [gen |-> g, val |-> val])'
    BY <1>1, <1>3 DEF RInv, GenerationInv, OneText, UnderConstruction
  <1>6. ASSUME NEW r \in Reader PROVE ReaderInv(r)'
    <2>1. reader[r].man # None =>
            /\ OneText(reader[r].path, reader[r].man)'
            /\ ~UnderConstruction(reader[r].path, reader[r].man.gen)'
      BY <1>1, <1>3 DEF RInv, ReaderInv, OneText, UnderConstruction
    <2> QED
      BY <1>1, <2>1 DEF RInv, ReaderInv
  <1> QED
    BY <1>1, <1>4, <1>5, <1>6 DEF GenerationInv

LEMMA PublishKeepsRInv ==
    ASSUME RInv, PublishPointer
    PROVE  GenerationInv' /\ \A r \in Reader : ReaderInv(r)'
  <1>1. /\ pc = "publish" /\ pc' = "sweep" /\ UNCHANGED <<chunks, path, val, gen, reader>>
        /\ pointer' = [pointer EXCEPT ![path] = [gen |-> gen, val |-> val]]
    BY DEF PublishPointer
  <1>2. path \in Path /\ gen \in Generation /\ pointer \in [Path -> Manifest \cup {None}]
    BY <1>1 DEF RInv, IInv, CallInv, TypeOK, WriteSteps
  <1>3. OneText(path, [gen |-> gen, val |-> val])
    BY <1>1, <1>2 DEF RInv, GenerationInv, UnderConstruction
  <1>4. GenerationInv'
    BY <1>1, <1>2, <1>3 DEF RInv, GenerationInv, OneText, UnderConstruction
  <1>5. ASSUME NEW r \in Reader PROVE ReaderInv(r)'
    <2>1. reader[r] \in ReaderState
      BY DEF RInv, IInv, TypeOK
    <2>2. reader[r].pc = "incomplete" => pointer'[reader[r].path] # reader[r].man
      <3> SUFFICES ASSUME reader[r].pc = "incomplete", pointer'[reader[r].path] = reader[r].man
                   PROVE  FALSE
        OBVIOUS
      <3>1. ReaderInv(r) /\ reader[r].man # None
        BY DEF RInv, ReaderInv
      <3>2. reader[r].path = path
        BY <1>1, <3>1 DEF ReaderInv
      <3>3. reader[r].man.gen = gen
        BY <1>1, <1>2, <3>2
      <3> QED
        BY <1>1, <3>1, <3>2, <3>3 DEF ReaderInv, UnderConstruction
    <2> QED
      BY <1>1, <2>2 DEF RInv, ReaderInv, OneText, UnderConstruction
  <1> QED
    BY <1>4, <1>5

LEMMA CrashKeepsRInv ==
    ASSUME RInv, Crash
    PROVE  GenerationInv' /\ \A r \in Reader : ReaderInv(r)'
  <1>1. Quiet
    BY DEF Crash, ResetCall, Quiet, UnderConstruction, store
  <1>2. \A r \in Reader : reader'[r] = NoReader
    BY DEF Crash
  <1> QED
    BY <1>1, <1>2, QuietKeepsGenerations DEF NoReader, ReaderInv

\* Only the collection removes while it runs; a migration waits for it.
LEMMA NextKeepsCollectInv ==
    ASSUME RInv, [Next]_vars
    PROVE  CollectInv'
  <1> USE DEF CollectInv, Garbage, store, call
  <1>1. CASE StartCollect
    BY <1>1 DEF StartCollect
  <1>2. ASSUME pc = "collect", CallStep PROVE CollectInv'
    BY <1>2 DEF RInv, CallStep, AddChunk, VerifyChunks, PublishPointer, WriteFails, UnlinkPointer,
           ListRecords, RemoveFails, RemoveOneRecord, RemovalFails, FinishCall, End, ResetCall
  <1>3. ASSUME pc # "collect", CallStep PROVE CollectInv'
    BY <1>3 DEF CallStep, AddChunk, VerifyChunks, PublishPointer, WriteFails, UnlinkPointer,
           ListRecords, RemoveFails, RemoveOneRecord, RemovalFails, FinishCall, End, ResetCall
  <1>4. CASE (\E p \in Path, v \in Value, g \in Generation : StartWrite(p, v, g))
             \/ \E p \in Path : StartRemove(p)
    BY <1>4 DEF StartWrite, StartRemove
  <1>5. CASE \E r \in Reader : ReaderStep(r)
    BY <1>5, ReaderStepIsQuiet DEF RInv
  <1>6. CASE RetireStep
    BY <1>6 DEF RInv, RetireStep, StartRetire, RetirePointer, ListRetired, RetireChunk, EndRetire,
           ThreadFree
  <1>7. CASE Crash
    BY <1>7 DEF Crash, ResetCall
  <1>8. CASE UNCHANGED vars
    BY <1>8 DEF RInv, vars
  <1> QED
    BY <1>1, <1>2, <1>3, <1>4, <1>5, <1>6, <1>7, <1>8 DEF Next

LEMMA InitRInv == Init => RInv
  <1> SUFFICES ASSUME Init PROVE RInv
    OBVIOUS
  <1>1. PICK v \in Value \cup {None}, g \in Generation :
          IF v = None
          THEN /\ pointer = [p \in Path |-> None]
               /\ chunks = {}
          ELSE /\ pointer = [p \in Path |-> IF p = LegacyPath THEN [gen |-> g, val |-> v] ELSE None]
               /\ chunks = [path : {LegacyPath}, gen : {g}, index : Indices(v), val : {v}]
    BY DEF Init
  <1>2. pc = "idle" /\ \A r \in Reader : reader[r] = NoReader
    BY DEF Init
  <1>3. ASSUME NEW p \in Path, pointer[p] # None PROVE OneText(p, pointer[p])
    <2>1. v # None /\ pointer[p] = [gen |-> g, val |-> v]
      BY <1>1, <1>3
    <2>2. chunks = [path : {LegacyPath}, gen : {g}, index : Indices(v), val : {v}]
      BY <1>1, <2>1
    <2>3. \A c \in chunks : c.val = v
      BY <2>2
    <2> QED
      BY <2>1, <2>3 DEF OneText
  <1>4. GenerationInv /\ CollectInv
    BY <1>2, <1>3 DEF GenerationInv, UnderConstruction, CollectInv
  <1>5. \A r \in Reader : ReaderInv(r)
    BY <1>2 DEF ReaderInv, NoReader
  <1> QED
    BY <1>4, <1>5, InitIInv DEF RInv

LEMMA NextKeepsRInv ==
    ASSUME RInv, IInv', [Next]_vars
    PROVE  RInv'
  <1> DEFINE Kept == GenerationInv' /\ \A r \in Reader : ReaderInv(r)'
  <1>1. ASSUME NEW p \in Path, NEW v \in Value, NEW g \in Generation, StartWrite(p, v, g)
        PROVE  Kept
    BY <1>1, StartWriteKeepsRInv
  <1>2. AddChunk => Kept
    BY AddChunkKeepsRInv
  <1>3. PublishPointer => Kept
    BY PublishKeepsRInv
  <1>4. Crash => Kept
    BY CrashKeepsRInv
  <1>5. QuietCall => Kept
    BY QuietCallIsQuiet, QuietKeepsGenerations, QuietKeepsReader DEF RInv
  <1>6. QuietOther => Kept
    BY QuietOtherIsQuiet, QuietKeepsGenerations, QuietKeepsReader DEF RInv
  <1>7. ASSUME NEW r \in Reader, ReaderStep(r) PROVE Kept
    <2>1. Quiet
      BY <1>7, ReaderStepIsQuiet
    <2>2. ASSUME NEW q \in Reader PROVE ReaderInv(q)'
      BY <1>7, <2>1, ReaderKeepsItsInv, ReaderLeavesOthers, QuietKeepsReader
    <2> QED
      BY <2>1, <2>2, QuietKeepsGenerations
  <1> HIDE DEF Kept
  <1>8. Kept
    BY <1>1, <1>2, <1>3, <1>4, <1>5, <1>6, <1>7 DEF Next, CallStep, QuietCall, QuietOther
  <1> QED
    BY <1>8, NextKeepsCollectInv DEF RInv, Kept

\* RInv holds in every reachable state, for every value of the constants.
THEOREM RInvHolds == Spec => []RInv
  <1>1. Init => RInv
    BY InitRInv
  <1>2. RInv /\ IInv' /\ [Next]_vars => RInv'
    BY NextKeepsRInv
  <1> QED
    BY <1>1, <1>2, IInvHolds, PTL DEF Spec

\* readAsync never assembles a text of chunks of different generations, and
\* calls a generation incomplete only when it was superseded under it.
THEOREM ReadersHonest == Spec => []ReadsAreHonest
  <1>1. RInv => ReadsAreHonest
    BY DEF RInv, ReaderInv, ReadsAreHonest
  <1> QED
    BY <1>1, RInvHolds, PTL

\* A garbageCollect that succeeds has removed every chunk no pointer names.
THEOREM CollectionComplete == Spec => CollectLeavesNoGarbage
  <1> DEFINE Done == ~collected /\ collected' =>
                       \A c \in chunks' : pointer'[c.path] # None /\ pointer'[c.path].gen = c.gen
  <1>1. RInv /\ [Next]_vars => Done
    <2> SUFFICES ASSUME RInv, [Next]_vars, ~collected, collected' PROVE Done
      OBVIOUS
    <2>1. FinishCall /\ pc = "collect"
      BY DEF Next, CallStep, ReaderStep, RetireStep, StartWrite, AddChunk, VerifyChunks,
             PublishPointer, WriteFails, StartRemove, UnlinkPointer, ListRecords, RemoveFails,
             StartCollect, RemoveOneRecord, RemovalFails, FinishCall, StartRead, AnswerPointer,
             AfterPointer, AnswerChunk, AfterChunk, QueryFails, SettleRead, StartRetire,
             RetirePointer, ListRetired, RetireChunk, EndRetire, Crash, vars
    <2>2. todo = {} /\ UNCHANGED <<pointer, chunks>>
      BY <2>1 DEF FinishCall, store
    <2>3. Garbage = {}
      BY <2>1, <2>2 DEF RInv, CollectInv
    <2> QED
      BY <2>2, <2>3 DEF Garbage
  <1>2. RInv /\ [Next]_vars => [Done]_vars
    BY <1>1
  <1> QED
    BY <1>2, RInvHolds, PTL DEF Spec, CollectLeavesNoGarbage

-----------------------------------------------------------------------------
(* The store implements the register.  What a read returns is the text the  *)
(* pointer names, since a published generation is complete.                 *)

Texts == [p \in Path |-> ReadOf(p)]

LEMMA TextsFromPointers ==
    ASSUME IInv
    PROVE  /\ Texts \in [Path -> Value \cup {None}]
           /\ \A p \in Path : Texts[p] = IF pointer[p] = None THEN None ELSE pointer[p].val
  BY DEF Texts, ReadOf, IInv, PublishedComplete, TypeOK, Manifest

LEMMA SamePointersSameTexts ==
    ASSUME IInv, IInv', pointer' = pointer
    PROVE  Texts' = Texts
  <1>1. \A p \in Path : ReadOf(p)' = ReadOf(p)
    BY DEF ReadOf, IInv, PublishedComplete
  <1> QED
    BY <1>1 DEF Texts

\* A pointer that changes changes one text.
LEMMA OnePointerOneText ==
    ASSUME IInv, IInv', NEW p \in Path, NEW m \in Manifest \cup {None},
           pointer' = [pointer EXCEPT ![p] = m]
    PROVE  Texts' = [Texts EXCEPT ![p] = IF m = None THEN None ELSE m.val]
  <1> DEFINE new == [Texts EXCEPT ![p] = IF m = None THEN None ELSE m.val]
  <1>1. \A q \in Path : ReadOf(q)' = IF pointer'[q] = None THEN None ELSE pointer'[q].val
    BY DEF ReadOf, IInv, PublishedComplete
  <1>2. \A q \in Path : pointer'[q] = IF q = p THEN m ELSE pointer[q]
    BY DEF IInv, TypeOK
  <1>3. Texts \in [Path -> Value \cup {None}]
    BY TextsFromPointers
  <1>4. \A q \in Path : new[q] = IF q = p THEN (IF m = None THEN None ELSE m.val) ELSE Texts[q]
    BY <1>3
  <1>5. ASSUME NEW q \in Path PROVE ReadOf(q)' = new[q]
    BY <1>1, <1>2, <1>4, TextsFromPointers
  <1>6. Texts' = [q \in Path |-> new[q]]
    BY <1>5 DEF Texts
  <1>7. new = [q \in Path |-> new[q]]
    BY <1>3
  <1> QED
    BY <1>6, <1>7

LEMMA InitRefines == Init => Register!RInit
  <1> SUFFICES ASSUME Init PROVE Register!RInit
    OBVIOUS
  <1>1. Texts \in [Path -> Value \cup {None}]
    BY InitIInv, TextsFromPointers
  <1>2. AbstractCall = Register!NoCall /\ outcome = "none"
    BY DEF Init, AbstractCall, WriteSteps, RemoveSteps, Register!NoCall
  <1> QED
    BY <1>1, <1>2 DEF Register!RInit, Texts

\* What the register sees of a step.
Seen ==
    \/ \E p \in Path, v \in Value : Register!Begin("write", p, v)
    \/ \E p \in Path : Register!Begin("remove", p, None)
    \/ Register!Apply \/ Register!Succeed \/ Register!Fail \/ Register!Crash
    \/ Register!RetireLegacy
    \/ UNCHANGED Register!rvars

LEMMA StartsRefine ==
    ASSUME IInv, IInv',
           \/ \E p \in Path, v \in Value, g \in Generation : StartWrite(p, v, g)
           \/ \E p \in Path : StartRemove(p)
           \/ StartCollect
    PROVE  Seen
  <1> USE DEF AbstractCall, WriteSteps, RemoveSteps, ThreadFree
  <1>1. Texts' = Texts
    BY SamePointersSameTexts DEF StartWrite, StartRemove, StartCollect, store
  <1>2. ASSUME NEW p \in Path, NEW v \in Value, NEW g \in Generation, StartWrite(p, v, g)
        PROVE  Register!Begin("write", p, v)
    BY <1>1, <1>2 DEF StartWrite, Register!Begin, Register!NoCall, Texts
  <1>3. ASSUME NEW p \in Path, StartRemove(p)
        PROVE  Register!Begin("remove", p, None)
    BY <1>1, <1>3 DEF StartRemove, Register!Begin, Register!NoCall, Texts
  <1>4. ASSUME StartCollect PROVE UNCHANGED Register!rvars
    BY <1>1, <1>4 DEF StartCollect, Register!rvars, Texts
  <1> QED
    BY <1>2, <1>3, <1>4 DEF Seen

LEMMA AppliedCall ==
    ASSUME NEW op, NEW p, NEW v
    PROVE  [[op |-> op, path |-> p, val |-> v, applied |-> FALSE] EXCEPT !.applied = TRUE]
             = [op |-> op, path |-> p, val |-> v, applied |-> TRUE]
  <1> DEFINE Call == [op : {op}, path : {p}, val : {v}, applied : BOOLEAN]
             before == [op |-> op, path |-> p, val |-> v, applied |-> FALSE]
             after == [op |-> op, path |-> p, val |-> v, applied |-> TRUE]
             applied == [before EXCEPT !.applied = TRUE]
  <1>1. before \in Call /\ after \in Call /\ after.applied = TRUE
    OBVIOUS
  <1> HIDE DEF before, after
  <1>2. applied \in Call /\ applied.applied = TRUE
    BY <1>1
  <1> HIDE DEF applied
  <1>3. applied = after
    BY <1>1, <1>2
  <1> QED
    BY <1>3 DEF applied, before, after

LEMMA CallStepRefines ==
    ASSUME IInv, IInv', CallStep
    PROVE  Seen
  <1> USE DEF AbstractCall, WriteSteps, RemoveSteps, Register!NoCall
  <1>1. ASSUME PublishPointer PROVE Register!Apply
    <2>1. /\ pc = "publish" /\ pc' = "sweep" /\ UNCHANGED <<path, val, outcome>>
          /\ pointer' = [pointer EXCEPT ![path] = [gen |-> gen, val |-> val]]
      BY <1>1 DEF PublishPointer
    <2>2. path \in Path /\ [gen |-> gen, val |-> val] \in Manifest
      BY <2>1 DEF IInv, CallInv, Manifest
    <2>3. [gen |-> gen, val |-> val] # None
      BY <2>2, ConstantsAssumption DEF Manifest
    <2>4. Texts' = [Texts EXCEPT ![path] = val]
      <3> DEFINE m == [gen |-> gen, val |-> val]
      <3>1. m # None /\ m \in Manifest /\ m.val = val
        BY <2>2, <2>3
      <3> HIDE DEF m
      <3>2. Texts' = [Texts EXCEPT ![path] = IF m = None THEN None ELSE m.val]
        BY <2>1, <2>2, <3>1, OnePointerOneText DEF m
      <3> QED
        BY <3>1, <3>2
    <2>5. /\ AbstractCall = [op |-> "write", path |-> path, val |-> val, applied |-> FALSE]
          /\ AbstractCall' = [op |-> "write", path |-> path, val |-> val, applied |-> TRUE]
      BY <2>1
    <2> HIDE DEF AbstractCall
    <2>6. /\ AbstractCall # Register!NoCall /\ ~AbstractCall.applied
          /\ AbstractCall' = [AbstractCall EXCEPT !.applied = TRUE]
          /\ AbstractCall.path = path /\ AbstractCall.val = val
      <3>1. AbstractCall.op = "write" /\ Register!NoCall.op = "none"
        BY <2>5
      <3>2. ~AbstractCall.applied
        BY <2>5
      <3>3. AbstractCall' = [AbstractCall EXCEPT !.applied = TRUE]
        BY <2>5, AppliedCall, Zenon
      <3>4. AbstractCall.path = path /\ AbstractCall.val = val
        BY <2>5
      <3> QED
        BY <3>1, <3>2, <3>3, <3>4
    <2> QED
      BY <2>1, <2>4, <2>6 DEF Register!Apply, Texts
  <1>2. ASSUME UnlinkPointer PROVE Register!Apply
    <2>1. path \in Path
      BY <1>2 DEF UnlinkPointer, IInv, CallInv
    <2>2. Texts' = [Texts EXCEPT ![path] = None]
      BY <1>2, <2>1, OnePointerOneText DEF UnlinkPointer
    <2>3. /\ AbstractCall = [op |-> "remove", path |-> path, val |-> None, applied |-> FALSE]
          /\ AbstractCall' = [op |-> "remove", path |-> path, val |-> None, applied |-> TRUE]
      BY <1>2 DEF UnlinkPointer
    <2> HIDE DEF AbstractCall
    <2>4. /\ AbstractCall # Register!NoCall /\ ~AbstractCall.applied
          /\ AbstractCall' = [AbstractCall EXCEPT !.applied = TRUE]
          /\ AbstractCall.path = path /\ AbstractCall.val = None
      <3>1. AbstractCall.op = "remove" /\ Register!NoCall.op = "none"
        BY <2>3
      <3>2. ~AbstractCall.applied
        BY <2>3
      <3>3. AbstractCall' = [AbstractCall EXCEPT !.applied = TRUE]
        BY <2>3, AppliedCall, Zenon
      <3>4. AbstractCall.path = path /\ AbstractCall.val = None
        BY <2>3
      <3> QED
        BY <3>1, <3>2, <3>3, <3>4
    <2> QED
      BY <1>2, <2>2, <2>4 DEF UnlinkPointer, Register!Apply, Texts
  <1>3. ASSUME CallStep, ~PublishPointer, ~UnlinkPointer PROVE Texts' = Texts
    <2>1. pointer' = pointer
      BY <1>3 DEF CallStep, AddChunk, VerifyChunks, WriteFails, ListRecords, RemoveFails,
             RemoveOneRecord, RemovalFails, FinishCall, store
    <2> QED
      BY <2>1, SamePointersSameTexts
  <1>4. ASSUME ~PublishPointer, ~UnlinkPointer,
               AddChunk \/ VerifyChunks \/ WriteFails \/ ListRecords \/ RemoveOneRecord
        PROVE  UNCHANGED Register!rvars
    <2>1. AbstractCall' = AbstractCall /\ outcome' = outcome
      BY <1>4 DEF AddChunk, VerifyChunks, WriteFails, ListRecords, RemoveOneRecord
    <2> QED
      BY <1>3, <1>4, <2>1 DEF Register!rvars, Texts, CallStep
  <1>5. ASSUME ~PublishPointer, ~UnlinkPointer, RemoveFails PROVE Register!Fail
    BY <1>3, <1>5 DEF RemoveFails, End, ResetCall, Register!Fail, Texts, CallStep
  <1>6. ASSUME ~PublishPointer, ~UnlinkPointer, RemovalFails PROVE Seen
    BY <1>3, <1>6 DEF RemovalFails, End, ResetCall, Register!Fail, Register!Succeed,
           Register!rvars, Texts, CallStep, Seen
  <1>7. ASSUME ~PublishPointer, ~UnlinkPointer, FinishCall PROVE Seen
    <2>1. Texts' = Texts /\ pc \in LoopSteps /\ ResetCall
      BY <1>3, <1>7 DEF FinishCall, End, CallStep
    <2>2. CASE pc = "rollback"
      <3>1. outcome' = "error"
        BY <1>7, <2>2 DEF FinishCall, End
      <3> QED
        BY <2>1, <2>2, <3>1 DEF ResetCall, Register!Fail, Texts, Seen
    <2>3. CASE pc = "collect"
      <3>1. outcome' = outcome
        BY <1>7, <2>3 DEF FinishCall, End
      <3> QED
        BY <2>1, <2>3, <3>1 DEF ResetCall, Register!rvars, Texts, Seen
    <2>4. CASE pc \in {"sweep", "erase"}
      <3>1. outcome' = "ok"
        BY <1>7, <2>4 DEF FinishCall, End
      <3> QED
        BY <2>1, <2>4, <3>1 DEF ResetCall, Register!Succeed, Texts, Seen
    <2> QED
      BY <2>1, <2>2, <2>3, <2>4 DEF LoopSteps
  <1> QED
    BY <1>1, <1>2, <1>4, <1>5, <1>6, <1>7 DEF CallStep, Seen

LEMMA ReaderStepRefines ==
    ASSUME IInv, IInv', NEW r \in Reader, ReaderStep(r)
    PROVE  UNCHANGED Register!rvars
  <1>1. UNCHANGED <<store, call, outcome>>
    BY DEF ReaderStep, StartRead, AnswerPointer, AfterPointer, AnswerChunk, AfterChunk,
           QueryFails, SettleRead
  <1>2. Texts' = Texts
    BY <1>1, SamePointersSameTexts DEF store
  <1> QED
    BY <1>1, <1>2 DEF Register!rvars, Texts, AbstractCall, call

\* The migration retires a text once; to unlink it again changes nothing.
LEMMA RetireStepRefines ==
    ASSUME IInv, IInv', RetireStep
    PROVE  Seen
  <1> USE ConstantsAssumption
  <1>1. UNCHANGED <<call, outcome>>
    BY DEF RetireStep, StartRetire, RetirePointer, ListRetired, RetireChunk, EndRetire
  <1>2. AbstractCall' = AbstractCall
    BY <1>1 DEF AbstractCall, call
  <1>3. CASE RetirePointer
    <2>1. pointer' = [pointer EXCEPT ![LegacyPath] = None]
      BY <1>3 DEF RetirePointer
    <2>2. Texts' = [Texts EXCEPT ![LegacyPath] = None]
      BY <2>1, OnePointerOneText
    <2>3. CASE Texts[LegacyPath] # None
      BY <1>1, <1>2, <2>2, <2>3 DEF Register!RetireLegacy, Texts, Seen
    <2>4. CASE Texts[LegacyPath] = None
      <3>1. Texts' = Texts
        BY <2>2, <2>4, TextsFromPointers
      <3> QED
        BY <1>1, <1>2, <3>1 DEF Register!rvars, Texts, Seen
    <2> QED
      BY <2>3, <2>4
  <1>4. CASE ~RetirePointer
    <2>1. pointer' = pointer
      BY <1>4 DEF RetireStep, StartRetire, ListRetired, RetireChunk, EndRetire, store
    <2>2. Texts' = Texts
      BY <2>1, SamePointersSameTexts
    <2> QED
      BY <1>1, <1>2, <2>2 DEF Register!rvars, Texts, Seen
  <1> QED
    BY <1>3, <1>4

LEMMA CrashRefines ==
    ASSUME IInv, IInv', Crash
    PROVE  Register!Crash
  <1>1. Texts' = Texts
    BY SamePointersSameTexts DEF Crash, store
  <1> QED
    BY <1>1 DEF Crash, ResetCall, Register!Crash, Register!NoCall, AbstractCall, WriteSteps,
           RemoveSteps, Texts

\* Whatever fails or dies, every step of the store is one the register may
\* take, or none: a write takes effect when its pointer is published, a
\* removal when its pointer is gone, and neither in part.
THEOREM StoreImplementsRegister == Spec => ImplementsRegister
  <1>1. Init => Register!RInit
    BY InitRefines
  <1>2. IInv /\ IInv' /\ [Next]_vars => [Register!RNext]_Register!rvars
    <2> SUFFICES ASSUME IInv, IInv', [Next]_vars PROVE Seen
      BY DEF Seen, Register!RNext
    <2>1. CASE UNCHANGED vars
      <3>1. Texts' = Texts
        BY <2>1, SamePointersSameTexts DEF vars, store
      <3> QED
        BY <2>1, <3>1 DEF vars, call, AbstractCall, Register!rvars, Texts, Seen
    <2>2. ASSUME NEW r \in Reader, ReaderStep(r) PROVE Seen
      BY <2>2, ReaderStepRefines DEF Seen
    <2>3. Crash => Seen
      BY CrashRefines DEF Seen
    <2> QED
      BY <2>1, <2>2, <2>3, StartsRefine, CallStepRefines, RetireStepRefines DEF Next
  <1> QED
    BY <1>1, <1>2, IInvHolds, PTL DEF Spec, ImplementsRegister, Register!RSpec
=============================================================================
