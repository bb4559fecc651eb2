----------------------- MODULE DurableProjection_proofs -----------------------
(***************************************************************************)
(* Proofs about DurableProjection, for all key names, texts, key files and *)
(* panes: what the user was told is kept stays so, what the panes share is *)
(* the durable configuration, preparation brings files and records         *)
(* together, and "the previous value remains active" is true.              *)
(*                                                                         *)
(* Until preparation has completed it is the only actor (BootInv): what it *)
(* read is still so when it is used, and each of its stretches leaves      *)
(* fewer paths to put right (PrepInv).  An installation that was never     *)
(* migrated holds nothing but what the files held (LegacyInv).  The        *)
(* synchronous call knows what it found (CallInv), whatever a generation   *)
(* does to the files meanwhile.  That files hold what was written (Whole)  *)
(* is a hypothesis of all that is said of the safety properties.           *)
(***************************************************************************)
EXTENDS DurableProjection, TLAPS

-----------------------------------------------------------------------------
(* Types of the records in which preparation, calls and generations live.   *)

PrepStepName == {"idle", "hosts", "list", "listed", "restore", "materialise", "migrate",
                 "protect", "reconcile", "remove"}

PrepRecord == [step : PrepStepName, todo : SUBSET Path, path : Path,
               value : {None, Broken} \cup Text \cup Pair]

CallRecord == [op : {"none", "config", "import", "passphrase", "comment", "delete"},
               step : {"", "project", "durable", "rollback", "private", "public", "capture",
                       "discard", "revert", "restoreRecord", "restoreFiles",
                       "restoreFilesOnly"},
               path : Path, old : {None, Broken} \cup Text \cup Pair,
               record : {None, Broken} \cup Text \cup Pair,
               new : {None, Broken} \cup Text \cup Material]

GenRecord == [step : {"idle", "private", "public", "capture"}, key : {None} \cup Key,
              new : {None} \cup Material]

Types ==
    /\ TypeOK
    /\ prep \in PrepRecord
    /\ call \in CallRecord
    /\ gen \in [Pane -> GenRecord]
    /\ \A p \in Pane : gen[p].step # "idle" => gen[p].key \in Key /\ gen[p].new \in Material

-----------------------------------------------------------------------------
(* The situations of section 5 that some of the parts need kept out.        *)

Unlinks == "silent unlink" \in Excluded
Lists == "listing fails" \in Excluded
Whole == "short write" \in Excluded

-----------------------------------------------------------------------------
(* Before preparation has completed there is nothing but preparation.       *)

BootInv ==
    /\ migrating = ~initialized
    /\ ready => initialized /\ prep.step = "idle"
    /\ ~ready => /\ call.op = "none" /\ shared = None
                 /\ \A p \in Pane : env[p] \in {"cold", "asked"} /\ gen[p].step = "idle"
    /\ call.op # "none" => shared # None
    /\ \A p \in Pane : env[p] = "ready" => shared # None

(* An installation that was not migrated: the files are what they were, and *)
(* a record, if there is one already, holds the same (unless it was written *)
(* back by a short write).                                                  *)

LegacyKey(k) ==
    /\ gone[k] = "no"
    /\ told[k] = None => durable[k] = None /\ Absent(k)
    /\ Whole /\ told[k] # None =>
        /\ FileOf(k) = told[k] /\ durable[k] \in {None, told[k]}
        /\ priv[k] = pub[k] /\ priv[k] \in Material

LegacyInv ==
    ~initialized =>
        /\ Whole => durable[Config] \in {None, config}
        /\ \A k \in Key : LegacyKey(k)

KeptInv ==
    \A k \in Key :
        /\ Lists /\ Whole /\ initialized /\ told[k] # None => durable[k] = told[k]
        /\ gone[k] = "yes" => durable[k] = None /\ Absent(k)

-----------------------------------------------------------------------------
(* How far preparation has come.                                            *)

\* The files of p hold what its record says, if it has one.
Restored(p) ==
    Whole /\ durable[p] # None =>
        IF p = Config THEN config = durable[Config] ELSE FileOf(p) = durable[p]

ConfigAgrees == Unlinks /\ Whole /\ durable[Config] = None => config = None
Reconciled(k) == Lists /\ durable[k] = None => ~Verified(k)

\* What preparation still has in hand.
Pending == prep.todo \cup IF prep.step \in {"materialise", "remove"} THEN {prep.path} ELSE {}

PrepInv ==
    /\ prep.step \in {"materialise", "remove"} => prep.value = durable[prep.path]
    /\ prep.step = "listed" => prep.todo = {p \in Path : durable[p] # None}
    /\ prep.step \in {"restore", "materialise"} =>
        /\ \A p \in Path \ Pending : Restored(p)
        /\ initialized => ConfigAgrees
    /\ prep.step = "migrate" =>
        /\ ~initialized
        /\ Lists => \A k \in Key \ prep.todo : Verified(k) => durable[k] = FileOf(k)
        /\ \A k \in Key \cap prep.todo : Verified(k)
        /\ Whole /\ Config \notin prep.todo => durable[Config] = config
    /\ prep.step \in {"protect", "reconcile", "remove"} =>
        /\ initialized /\ ConfigAgrees
        /\ \A p \in Path : Restored(p)
        /\ \A k \in Key \ Pending : Reconciled(k)
    /\ prep.step \in {"reconcile", "remove"} => Pending \subseteq Key
    /\ prep.step = "protect" => prep.todo = {}

-----------------------------------------------------------------------------
(* The configuration in memory, and the call under way.                     *)

ConfigInv ==
    /\ Unlinks /\ Whole /\ shared # None => shared = TextOf(durable[Config])
    /\ Unlinks /\ Whole /\ ready /\ shared = None => TextOf(config) = TextOf(durable[Config])

ConfigCall ==
    call.op = "config" =>
        /\ call.path = Config /\ call.new \in Text \cup {Broken}
        /\ call.step \in {"project", "durable", "rollback"}
        /\ call.old = durable[Config] /\ call.record = call.old

KeyCall == call.op \in {"import", "passphrase", "comment", "delete"} => call.path \in Key

ImportCall ==
    call.op = "import" =>
        /\ call.new \in Material /\ gone[call.path] = "no"
        /\ call.step \in {"private", "public", "capture", "discard"}

ChangeCall ==
    call.op \in Changing =>
        /\ call.new \in Material /\ call.old \in Pair /\ gone[call.path] # "yes"
        /\ call.record = durable[call.path]
        /\ call.step \in {"private", "public", "capture", "revert"}

DeleteCall ==
    call.op = "delete" =>
        /\ call.old \in {None} \cup Pair /\ told[call.path] = None /\ gone[call.path] # "yes"
        /\ call.record = call.old
        /\ call.step \in {"private", "public", "durable", "restoreRecord", "restoreFiles",
                          "restoreFilesOnly"}
        /\ call.step \notin {"private", "public"} => call.old # None
        /\ call.step \in {"private", "public", "durable", "restoreFiles"} =>
                durable[call.path] = call.old
        /\ call.step \in {"public", "durable"} /\ gone[call.path] = "deleting" =>
                priv[call.path] = None
        /\ call.step = "durable" /\ gone[call.path] = "deleting" => pub[call.path] = None

CallInv == ConfigCall /\ KeyCall /\ ImportCall /\ ChangeCall /\ DeleteCall

IInv ==
    /\ Types /\ BootInv /\ LegacyInv /\ KeptInv
    /\ PrepInv /\ ConfigInv /\ CallInv
-----------------------------------------------------------------------------
(* What stays when the variables it is about stay.                          *)

LEMMA Unfold ==
    /\ Config \notin Key /\ Config \in Path /\ Key \subseteq Path
    /\ Empty \in Text /\ None \notin Text /\ None \notin Material /\ None \notin Pair
    /\ Broken \notin Material /\ None # Broken
    /\ \A p \in Path : p # Config <=> p \in Key
    /\ Broken \notin Text
    /\ Record(Config) = Text \cup {Broken} /\ \A k \in Key : Record(k) = Pair
  BY ProjectionAssumption DEF Path, Pair, Record

\* A pair is its two files.
LEMMA PairIs ==
    ASSUME NEW v \in Pair
    PROVE  v = [priv |-> v.priv, pub |-> v.pub] /\ v.priv \in Material \cup {Broken}
           /\ v.pub \in Material \cup {Broken}
  BY DEF Pair

LEMMA LegacyFrame ==
    ASSUME LegacyInv, UNCHANGED <<durable, initialized, config, priv, pub, told, gone>>
    PROVE  LegacyInv'
  BY DEF LegacyInv, LegacyKey, FileOf, Absent

LEMMA KeptFrame ==
    ASSUME KeptInv, UNCHANGED <<durable, initialized, priv, pub, told, gone>>
    PROVE  KeptInv'
  BY DEF KeptInv, Absent

LEMMA PrepFrame ==
    ASSUME PrepInv, UNCHANGED <<durable, initialized, config, priv, pub, prep>>
    PROVE  PrepInv'
  BY DEF PrepInv, Pending, Restored, ConfigAgrees, Reconciled, FileOf, Verified

LEMMA CallFrame ==
    ASSUME CallInv, UNCHANGED <<durable, priv, pub, call, told, gone>>
    PROVE  CallInv'
  BY DEF CallInv, ConfigCall, KeyCall, ImportCall, ChangeCall, DeleteCall

\* Preparation alone goes on before it has completed.
LEMMA PrepAlone ==
    ASSUME BootInv, prep.step # "idle"
    PROVE  ~ready /\ call.op = "none" /\ shared = None
           /\ \A p \in Pane : env[p] \in {"cold", "asked"} /\ gen[p].step = "idle"
  BY DEF BootInv

\* Nothing is asked of a call when there is none, nor of the configuration in memory.
LEMMA NoCallInv ==
    ASSUME call'.op = "none"
    PROVE  CallInv'
  BY DEF CallInv, ConfigCall, KeyCall, ImportCall, ChangeCall, DeleteCall, Changing

LEMMA NotReadyConfig ==
    ASSUME shared' = None, ~ready'
    PROVE  ConfigInv'
  BY DEF ConfigInv

-----------------------------------------------------------------------------
(* Preparation.                                                             *)

LEMMA NoPrepTyped == NoPrep \in PrepRecord /\ NoPrep.step = "idle"
  BY Unfold DEF NoPrep, PrepRecord, PrepStepName

LEMMA AskStep ==
    ASSUME IInv, NEW p \in Pane, Ask(p)
    PROVE  IInv'
  <1>1. prep' \in PrepRecord /\ (prep' = prep \/ prep'.step = "hosts")
    BY NoPrepTyped DEF IInv, Types, Ask, PrepRecord, PrepStepName
  <1>2. Types'
    BY <1>1 DEF IInv, Types, TypeOK, Ask, PrepRecord, disk, ghosts
  <1>3. BootInv'
    BY <1>1 DEF IInv, BootInv, Ask, disk, ghosts, NoPrep, Types, TypeOK
  <1>4. PrepInv'
    <2>1. CASE prep' = prep
      BY <2>1, PrepFrame DEF IInv, Ask, disk, ghosts
    <2>2. CASE prep'.step = "hosts"
      BY <2>2 DEF PrepInv
    <2> QED
      BY <1>1, <2>1, <2>2
  <1> QED
    BY <1>2, <1>3, <1>4, LegacyFrame, KeptFrame, CallFrame DEF IInv, ConfigInv, Ask, disk, ghosts

LEMMA PrepKnownHostsStep ==
    ASSUME IInv, PrepKnownHosts
    PROVE  IInv'
  <1>1. prep' \in PrepRecord /\ prep'.step = "list"
    BY NoPrepTyped DEF PrepKnownHosts, PrepGoesTo, PrepRecord, PrepStepName
  <1>2. Types'
    BY <1>1 DEF IInv, Types, TypeOK, PrepKnownHosts, PrepGoesTo, PrepRecord, disk, ghosts
  <1>3. BootInv'
    BY <1>1, PrepAlone DEF IInv, BootInv, PrepKnownHosts, PrepGoesTo, PrepAt, disk, ghosts
  <1>4. PrepInv'
    BY <1>1 DEF PrepInv
  <1> QED
    BY <1>2, <1>3, <1>4, LegacyFrame, KeptFrame, CallFrame
    DEF IInv, ConfigInv, PrepKnownHosts, PrepGoesTo, disk, ghosts

LEMMA PrepListsStep ==
    ASSUME IInv, PrepLists
    PROVE  IInv'
  <1>1. prep' \in PrepRecord /\ prep'.step = "listed"
        /\ prep'.todo = {p \in Path : durable[p] # None}
    BY DEF IInv, Types, PrepLists, PrepRecord, PrepStepName
  <1>2. Types'
    BY <1>1 DEF IInv, Types, TypeOK, PrepLists, PrepRecord, disk, ghosts
  <1>3. BootInv'
    BY <1>1, PrepAlone DEF IInv, BootInv, PrepLists, disk, ghosts
  <1>4. PrepInv'
    BY <1>1 DEF PrepInv, PrepLists, disk
  <1> QED
    BY <1>2, <1>3, <1>4, LegacyFrame, KeptFrame, CallFrame
    DEF IInv, ConfigInv, PrepLists, disk, ghosts

LEMMA PrepDropsStaleConfigStep ==
    ASSUME IInv, PrepDropsStaleConfig
    PROVE  IInv'
  <1>0. prep.step = "listed" /\ prep.todo = {p \in Path : durable[p] # None}
    BY DEF IInv, PrepInv, PrepDropsStaleConfig, PrepAt
  <1>1. prep' \in PrepRecord /\ prep'.step = "restore" /\ prep'.todo = prep.todo
    BY DEF IInv, Types, PrepDropsStaleConfig, PrepRecord, PrepStepName
  <1>2. config' \in {config, None}
        /\ (~initialized \/ durable[Config] # None => config' = config)
        /\ (initialized /\ Unlinks /\ durable[Config] = None => config' = None)
    BY <1>0, Unfold DEF IInv, BootInv, PrepDropsStaleConfig, AfterRemoval, Unlinks
  <1>3. Types'
    BY <1>1, <1>2 DEF IInv, Types, TypeOK, PrepDropsStaleConfig, PrepRecord, disk, ghosts
  <1>4. BootInv'
    BY <1>0, <1>1, PrepAlone DEF IInv, BootInv, PrepDropsStaleConfig, ghosts
  <1>5. LegacyInv'
    BY <1>2 DEF IInv, LegacyInv, LegacyKey, FileOf, Absent, PrepDropsStaleConfig, ghosts
  <1>6. PrepInv'
    <2>1. Pending' = prep.todo
      BY <1>1 DEF Pending
    <2>2. \A p \in (Path \ Pending)' : Restored(p)'
      BY <1>0, <2>1 DEF Restored, PrepDropsStaleConfig, Path
    <2> QED
      BY <1>1, <1>2, <2>2 DEF PrepInv, ConfigAgrees, PrepDropsStaleConfig, Unlinks
  <1>7. ConfigInv' /\ CallInv'
    BY <1>0, PrepAlone, NoCallInv, NotReadyConfig DEF IInv, PrepDropsStaleConfig
  <1> QED
    BY <1>3, <1>4, <1>5, <1>6, <1>7, KeptFrame DEF IInv, PrepDropsStaleConfig, ghosts
LEMMA PrepReadsStep ==
    ASSUME IInv, PrepReads
    PROVE  IInv'
  <1>0. PICK p \in prep.todo : prep' = [step |-> "materialise", todo |-> prep.todo \ {p},
                                        path |-> p, value |-> durable[p]]
    BY DEF PrepReads
  <1>1. p \in Path /\ prep.todo \subseteq Path /\ prep.step = "restore"
    BY DEF IInv, Types, TypeOK, PrepReads
  <1>2. durable[p] \in {None, Broken} \cup Text \cup Pair
    BY <1>1 DEF IInv, Types, TypeOK, Record
  <1>3. prep' \in PrepRecord
    BY <1>0, <1>1, <1>2 DEF PrepRecord, PrepStepName
  <1>4. Types'
    BY <1>3 DEF IInv, Types, TypeOK, PrepReads, PrepRecord, disk, ghosts
  <1>5. BootInv'
    BY <1>1, PrepAlone DEF IInv, BootInv, PrepReads, disk, ghosts
  <1>6. PrepInv'
    <2>1. prep'.step = "materialise" /\ prep'.value = durable[p] /\ prep'.path = p
          /\ Pending = prep.todo /\ Pending' = prep.todo
      BY <1>0, <1>1 DEF Pending
    <2>2. \A j \in Path \ prep.todo : Restored(j)'
      BY <1>1, <2>1 DEF IInv, PrepInv, Restored, PrepReads, disk, FileOf
    <2> QED
      BY <1>1, <2>1, <2>2 DEF IInv, PrepInv, ConfigAgrees, PrepReads, disk, Path
  <1> QED
    BY <1>4, <1>5, <1>6, LegacyFrame, KeptFrame, CallFrame
    DEF IInv, ConfigInv, PrepReads, disk, ghosts

\* What a write leaves is a file of the same kind, and the whole of it if no
\* write is short.
LEMMA WrittenFacts ==
    /\ \A t \in Text \cup {Broken} :
        /\ TextWritten(t) \subseteq Text \cup {Broken}
        /\ Whole => TextWritten(t) = {t}
    /\ \A m \in Material \cup {Broken} :
        /\ PrivateWritten(m) \subseteq Material \cup {Broken}
        /\ PublicWritten(m) \subseteq Material \cup {Broken}
        /\ Whole => PrivateWritten(m) = {m} /\ PublicWritten(m) = {m}
  BY Unfold DEF TextWritten, PrivateWritten, PublicWritten, Short, Whole

\* The files of one key are replaced by the pair v, those of the others stay.
LEMMA PairWrittenFacts ==
    ASSUME TypeOK, NEW k \in Key, NEW v \in Pair, PairWritten(k, v)
    PROVE  /\ Whole => FileOf(k)' = v /\ priv'[k] = v.priv /\ pub'[k] = v.pub
           /\ \A j \in Key \ {k} : FileOf(j)' = FileOf(j)
           /\ priv' \in [Key -> {None, Broken} \cup Material]
           /\ pub' \in [Key -> {None, Broken} \cup Material]
           /\ \A j \in Key \ {k} : priv'[j] = priv[j] /\ pub'[j] = pub[j]
  <1>1. PICK m \in PrivateWritten(v.priv), n \in PublicWritten(v.pub) :
            priv' = [priv EXCEPT ![k] = m] /\ pub' = [pub EXCEPT ![k] = n]
    BY DEF PairWritten
  <1>2. /\ m \in Material \cup {Broken} /\ n \in Material \cup {Broken}
        /\ Whole => m = v.priv /\ n = v.pub
    BY PairIs, WrittenFacts
  <1>3. /\ priv' \in [Key -> {None, Broken} \cup Material]
        /\ pub' \in [Key -> {None, Broken} \cup Material]
        /\ priv'[k] = m /\ pub'[k] = n
        /\ \A j \in Key \ {k} : priv'[j] = priv[j] /\ pub'[j] = pub[j]
    BY <1>1, <1>2 DEF TypeOK
  <1> QED
    BY <1>2, <1>3, PairIs DEF FileOf

LEMMA PairPartlyWrittenFacts ==
    ASSUME TypeOK, NEW k \in Key, NEW v \in Pair, PairPartlyWritten(k, v)
    PROVE  /\ priv' \in [Key -> {None, Broken} \cup Material] /\ pub' = pub
           /\ Whole => priv'[k] \in {priv[k], v.priv}
           /\ \A j \in Key \ {k} : priv'[j] = priv[j]
  <1>1. pub' = pub /\ (priv' = priv \/ \E m \in PrivateWritten(v.priv) :
                                            priv' = [priv EXCEPT ![k] = m])
    BY DEF PairPartlyWritten
  <1>2. CASE priv' = priv
    BY <1>1, <1>2 DEF TypeOK
  <1>3. CASE \E m \in PrivateWritten(v.priv) : priv' = [priv EXCEPT ![k] = m]
    <2>1. PICK m \in PrivateWritten(v.priv) : priv' = [priv EXCEPT ![k] = m]
      BY <1>3
    <2>2. m \in Material \cup {Broken} /\ (Whole => m = v.priv)
      BY PairIs, WrittenFacts
    <2> QED
      BY <1>1, <2>1, <2>2 DEF TypeOK
  <1> QED
    BY <1>1, <1>2, <1>3

\* What preparation puts back is what the record holds.
LEMMA MaterialisedFacts ==
    ASSUME IInv, prep.step = "materialise", prep.value # None
    PROVE  /\ prep.value = durable[prep.path]
           /\ prep.path = Config => prep.value \in Text \cup {Broken}
           /\ prep.path # Config => prep.path \in Key /\ prep.value \in Pair
  BY Unfold DEF IInv, Types, TypeOK, PrepInv, PrepRecord

LEMMA PrepMaterialisesStep ==
    ASSUME IInv, PrepMaterialises
    PROVE  IInv'
  <1>0. prep.step = "materialise" /\ prep.value = durable[prep.path] /\ prep.path \in Path
    BY DEF IInv, Types, PrepInv, PrepRecord, PrepMaterialises, PrepAt
  <1>1. prep' \in PrepRecord /\ prep'.step = "restore" /\ prep'.todo = prep.todo
    BY Unfold DEF IInv, Types, PrepMaterialises, NoPrep, PrepRecord, PrepStepName
  <1>2. ~ready /\ call.op = "none" /\ shared = None
    BY <1>0, PrepAlone DEF IInv
  <1>3. /\ config' \in {None, Broken} \cup Text
        /\ priv' \in [Key -> {None, Broken} \cup Material]
        /\ pub' \in [Key -> {None, Broken} \cup Material]
        /\ IF prep.path = Config /\ prep.value # None
           THEN Whole => config' = durable[Config]
           ELSE config' = config
        /\ \A j \in Key : IF prep.path = j /\ prep.value # None
                          THEN Whole => FileOf(j)' = durable[j]
                          ELSE FileOf(j)' = FileOf(j)
    <2>1. CASE prep.value = None
      BY <2>1 DEF PrepMaterialises, files, FileOf, IInv, Types, TypeOK
    <2>2. CASE prep.value # None /\ prep.path = Config
      <3>1. config' \in TextWritten(prep.value) /\ UNCHANGED <<priv, pub>>
        BY <2>2 DEF PrepMaterialises
      <3>2. config' \in Text \cup {Broken} /\ (Whole => config' = durable[Config])
        BY <1>0, <2>2, <3>1, MaterialisedFacts, WrittenFacts
      <3> QED
        BY <2>2, <3>1, <3>2, Unfold DEF FileOf, IInv, Types, TypeOK
    <2>3. CASE prep.value # None /\ prep.path # Config
      <3>1. PairWritten(prep.path, prep.value) /\ config' = config
        BY <2>3 DEF PrepMaterialises
      <3>2. TypeOK
        BY DEF IInv, Types
      <3>3. prep.path \in Key /\ prep.value \in Pair
        BY <1>0, <2>3, MaterialisedFacts
      <3> QED
        BY <1>0, <2>3, <3>1, <3>2, <3>3, PairWrittenFacts DEF TypeOK
    <2> QED
      BY <2>1, <2>2, <2>3
  <1>4. Types'
    BY <1>1, <1>3 DEF IInv, Types, TypeOK, PrepMaterialises, PrepRecord, ghosts
  <1>5. BootInv'
    BY <1>0, <1>1, PrepAlone DEF IInv, BootInv, PrepMaterialises, ghosts
  <1>6. \A j \in Key : /\ priv'[j] = FileOf(j)'.priv /\ pub'[j] = FileOf(j)'.pub
                       /\ priv[j] = FileOf(j).priv /\ pub[j] = FileOf(j).pub
    BY DEF FileOf
  <1>7. LegacyInv'
    <2>1. ~initialized /\ Whole => config' = config /\ \A j \in Key : FileOf(j)' = FileOf(j)
      BY <1>0, <1>3, Unfold DEF IInv, LegacyInv, LegacyKey
    <2>2. \A j \in Key : durable[j] = None => FileOf(j)' = FileOf(j)
      BY <1>0, <1>3
    <2>3. UNCHANGED <<durable, initialized, told, gone>>
      BY DEF PrepMaterialises, ghosts
    <2>4. ASSUME ~initialized, NEW k \in Key
          PROVE  LegacyKey(k)'
      <3>1. LegacyKey(k)
        BY <2>4 DEF IInv, LegacyInv
      <3> QED
        BY <1>6, <2>1, <2>2, <2>3, <2>4, <3>1 DEF LegacyKey, Absent
    <2> QED
      BY <2>1, <2>3, <2>4 DEF IInv, LegacyInv
  <1>8. KeptInv'
    <2>1. \A j \in Key : gone[j] = "yes" => FileOf(j)' = FileOf(j)
      BY <1>0, <1>3 DEF IInv, KeptInv
    <2> QED
      BY <1>6, <2>1 DEF IInv, KeptInv, Absent, PrepMaterialises, ghosts
  <1>9. PrepInv'
    <2>0. Pending = prep.todo \cup {prep.path}
      BY <1>0 DEF Pending
    <2>1. Pending' = prep.todo
      BY <1>1 DEF Pending
    <2>2. \A p \in Path \ Pending : Restored(p)'
      <3>1. \A p \in Path \ Pending : Restored(p)
        BY <1>0 DEF IInv, PrepInv
      <3>2. durable' = durable
        BY DEF PrepMaterialises
      <3> QED
        BY <1>0, <1>3, <2>0, <3>1, <3>2, Unfold DEF Restored
    <2>3. \A p \in Path : p = prep.path => Restored(p)'
      BY <1>0, <1>3, Unfold DEF Restored, PrepMaterialises
    <2>4. initialized' => ConfigAgrees'
      BY <1>0, <1>3 DEF IInv, PrepInv, ConfigAgrees, PrepMaterialises
    <2>5. \A p \in Path \ Pending' : Restored(p)'
      BY <2>0, <2>1, <2>2, <2>3
    <2> QED
      BY <1>1, <2>1, <2>4, <2>5 DEF PrepInv
  <1> QED
    BY <1>2, <1>4, <1>5, <1>7, <1>8, <1>9, NoCallInv, NotReadyConfig DEF IInv, PrepMaterialises

\* The records of an installation that was not migrated hold what the files hold.
LEMMA LegacyRestored ==
    ASSUME LegacyInv, ~initialized, NEW p \in Path
    PROVE  Restored(p)
  BY Unfold DEF LegacyInv, LegacyKey, Restored

LEMMA PrepListsKeysStep ==
    ASSUME IInv, PrepListsKeys
    PROVE  IInv'
  <1>0. prep.step = "restore" /\ prep.todo = {} /\ Pending = {}
    BY DEF PrepListsKeys, PrepAt, Pending
  <1>1. PICK names \in {{k \in Key : Verified(k)}} \cup
                       (IF "listing fails" \in Excluded THEN {} ELSE {{}}) :
            prep' = [NoPrep EXCEPT
                        !.step = IF migrating THEN "migrate" ELSE "reconcile",
                        !.todo = IF migrating THEN names \cup {Config} ELSE names]
    BY DEF PrepListsKeys
  <1>2. names \subseteq Key /\ (\A k \in names : Verified(k))
        /\ (Lists => names = {k \in Key : Verified(k)})
    BY <1>1 DEF Lists
  <1>3. prep' \in PrepRecord
        /\ prep'.step = (IF migrating THEN "migrate" ELSE "reconcile")
        /\ prep'.todo = (IF migrating THEN names \cup {Config} ELSE names)
    BY <1>1, <1>2, Unfold DEF NoPrep, PrepRecord, PrepStepName, Path
  <1>4. Types'
    BY <1>3 DEF IInv, Types, TypeOK, PrepListsKeys, PrepRecord, disk, ghosts
  <1>5. BootInv'
    BY <1>0, <1>3, PrepAlone DEF IInv, BootInv, PrepListsKeys, disk, ghosts
  <1>6. PrepInv'
    <2>1. UNCHANGED <<durable, config, initialized, priv, pub>> /\ migrating = ~initialized
      BY DEF PrepListsKeys, disk, IInv, BootInv
    <2>2. Pending' = prep'.todo
      BY <1>3 DEF Pending
    <2>3. CASE migrating
      <3>1. prep'.step = "migrate" /\ ~initialized' /\ prep'.todo = names \cup {Config}
        BY <1>3, <2>1, <2>3
      <3>2. /\ Lists => \A k \in Key \ prep'.todo : ~Verified(k)'
            /\ \A k \in Key \cap prep'.todo : Verified(k)'
        BY <1>2, <2>1, <3>1, Unfold DEF Verified
      <3> QED
        BY <3>1, <3>2 DEF PrepInv
    <2>4. CASE ~migrating
      <3>1. ConfigAgrees /\ \A p \in Path : Restored(p)
        BY <1>0, <2>1, <2>4 DEF IInv, PrepInv
      <3>2. ConfigAgrees' /\ \A p \in Path : Restored(p)'
        BY <2>1, <3>1 DEF ConfigAgrees, Restored, FileOf
      <3>3. \A k \in Key \ names : Reconciled(k)'
        BY <1>2, <2>1 DEF Reconciled, Verified, Lists
      <3> QED
        BY <1>2, <1>3, <2>1, <2>2, <2>4, <3>2, <3>3 DEF PrepInv
    <2> QED
      BY <2>3, <2>4
  <1> QED
    BY <1>4, <1>5, <1>6, LegacyFrame, KeptFrame, CallFrame
    DEF IInv, ConfigInv, PrepListsKeys, disk, ghosts
\* A verified pair is a pair of files.
LEMMA VerifiedPair ==
    ASSUME TypeOK, NEW k \in Key, Capturable(k)
    PROVE  FileOf(k) \in Pair /\ FileOf(k) # None
  BY Unfold DEF TypeOK, Capturable, FileOf, Pair

LEMMA VerifiedCapturable ==
    ASSUME NEW k \in Key, Verified(k)
    PROVE  Capturable(k)
  BY Unfold DEF Verified, Capturable

LEMMA PrepMigratesStep ==
    ASSUME IInv, PrepMigrates
    PROVE  IInv'
  <1>0. prep.step = "migrate" /\ ~initialized
    BY DEF IInv, PrepInv, PrepMigrates, PrepAt
  <1>1. PICK p \in prep.todo :
            /\ Config \in prep.todo => p = Config
            /\ durable' = CASE p = Config /\ config = None -> durable
                            [] p = Config /\ config # None -> [durable EXCEPT ![p] = config]
                            [] OTHER -> [durable EXCEPT ![p] = FileOf(p)]
            /\ prep' = [prep EXCEPT !.todo = @ \ {p}]
    BY DEF PrepMigrates
  <1>2. p \in Path /\ prep.todo \subseteq Path
    BY DEF IInv, Types, TypeOK
  <1>3. prep' \in PrepRecord /\ prep'.step = "migrate" /\ prep'.todo = prep.todo \ {p}
    BY <1>0, <1>1 DEF IInv, Types, PrepRecord
  <1>4. p # Config => p \in Key /\ Verified(p) /\ FileOf(p) \in Pair /\ FileOf(p) # None
    BY <1>0, <1>2, VerifiedPair, VerifiedCapturable, Unfold DEF IInv, Types, PrepInv
  <1>5. /\ DOMAIN durable' = Path
        /\ durable'[p] = IF p = Config THEN (IF config = None THEN durable[p] ELSE config)
                         ELSE FileOf(p)
        /\ \A j \in Path \ {p} : durable'[j] = durable[j]
    BY <1>1, <1>2 DEF IInv, Types, TypeOK
  <1>6. Types'
    <2>1. \A j \in Path : durable'[j] \in {None} \cup Record(j)
      BY <1>2, <1>4, <1>5, Unfold DEF IInv, Types, TypeOK
    <2> QED
      BY <1>3, <1>5, <2>1 DEF IInv, Types, TypeOK, PrepMigrates, PrepRecord, files, ghosts
  <1>7. BootInv'
    BY <1>0, <1>3, PrepAlone DEF IInv, BootInv, PrepMigrates, ghosts
  <1>8. UNCHANGED <<initialized, config, priv, pub, told, gone, ready, shared, call>>
    BY DEF PrepMigrates, files, ghosts
  <1>9. LegacyInv'
    <2>1. Whole => durable'[Config] \in {None, config}
      BY <1>0, <1>4, <1>5, Unfold DEF IInv, LegacyInv
    <2>2. ASSUME NEW k \in Key
          PROVE  LegacyKey(k)'
      <3>1. LegacyKey(k)
        BY <1>0 DEF IInv, LegacyInv
      <3>2. durable'[k] = durable[k] \/ (durable'[k] = FileOf(k) /\ Verified(k))
        <4>1. k \in Path /\ k # Config
          BY Unfold
        <4>2. CASE k = p
          BY <1>4, <1>5, <4>1, <4>2
        <4>3. CASE k # p
          BY <1>5, <4>1, <4>3
        <4> QED
          BY <4>2, <4>3
      <3>3. Verified(k) => ~Absent(k)
        BY Unfold DEF Verified, Absent
      <3> QED
        BY <1>8, <3>1, <3>2, <3>3 DEF LegacyKey, FileOf, Absent
    <2> QED
      BY <1>8, <2>1, <2>2 DEF LegacyInv
  <1>10. KeptInv'
    BY <1>0, <1>8, <1>9 DEF LegacyInv, LegacyKey, KeptInv
  <1>11. PrepInv'
    <2>1. \A k \in Key \ prep'.todo : Lists /\ Verified(k) => durable'[k] = FileOf(k)
      BY <1>0, <1>3, <1>4, <1>5, Unfold DEF IInv, PrepInv
    <2>2. \A k \in Key \cap prep'.todo : Verified(k)
      BY <1>0, <1>3 DEF IInv, PrepInv
    <2>3. Whole /\ Config \notin prep'.todo => durable'[Config] = config
      <3>1. Whole => durable[Config] \in {None, config}
        BY <1>0 DEF IInv, LegacyInv
      <3> QED
        BY <1>0, <1>1, <1>2, <1>3, <1>5, <3>1, Unfold DEF IInv, PrepInv
    <2>4. \A k \in Key : (Verified(k)' <=> Verified(k)) /\ FileOf(k)' = FileOf(k)
      BY <1>8 DEF Verified, FileOf
    <2> QED
      BY <1>0, <1>3, <1>8, <2>1, <2>2, <2>3, <2>4 DEF PrepInv
  <1> QED
    BY <1>0, <1>6, <1>7, <1>8, <1>9, <1>10, <1>11, NoCallInv, NotReadyConfig, PrepAlone DEF IInv

LEMMA PrepMarksMigratedStep ==
    ASSUME IInv, PrepMarksMigrated
    PROVE  IInv'
  <1>0. prep.step = "migrate" /\ ~initialized /\ prep.todo = {}
        /\ ~ready /\ call.op = "none" /\ shared = None
    BY PrepAlone DEF IInv, PrepInv, PrepMarksMigrated, PrepAt
  <1>1. prep' \in PrepRecord /\ prep'.step = "protect" /\ prep'.todo = {}
    BY NoPrepTyped DEF PrepMarksMigrated, NoPrep, PrepRecord, PrepStepName
  <1>2. /\ UNCHANGED <<durable, config, priv, pub, told, gone, ready, shared, call>>
        /\ initialized' = TRUE /\ migrating' = FALSE
    BY DEF PrepMarksMigrated, files, ghosts
  <1>3. Types'
    BY <1>1 DEF IInv, Types, TypeOK, PrepMarksMigrated, PrepRecord, files, ghosts
  <1>4. BootInv'
    BY <1>0, <1>1 DEF IInv, BootInv, PrepMarksMigrated, files, ghosts
  <1>5. KeptInv'
    <2>1. ASSUME NEW k \in Key, Lists, Whole, told[k] # None
          PROVE  durable[k] = told[k]
      <3>1. FileOf(k) = told[k] /\ Verified(k)
        BY <1>0, <2>1 DEF IInv, LegacyInv, LegacyKey, Verified
      <3> QED
        BY <1>0, <2>1, <3>1 DEF IInv, PrepInv
    <2> QED
      BY <1>2, <2>1 DEF IInv, KeptInv, Absent
  <1>6. PrepInv'
    <2>1. \A p \in Path : Restored(p)
      BY <1>0, LegacyRestored DEF IInv
    <2>2. Whole => durable[Config] = config
      BY <1>0 DEF IInv, PrepInv
    <2>3. \A k \in Key : Reconciled(k)
      <3>1. \A k \in Key : Lists /\ Verified(k) => durable[k] = FileOf(k) /\ FileOf(k) # None
        BY <1>0, VerifiedPair, VerifiedCapturable DEF IInv, Types, PrepInv
      <3> QED
        BY <3>1 DEF Reconciled
    <2>4. ConfigAgrees' /\ (\A p \in Path : Restored(p)') /\ \A k \in Key : Reconciled(k)'
      BY <1>2, <2>1, <2>2, <2>3 DEF ConfigAgrees, Restored, Reconciled, FileOf, Verified
    <2> QED
      BY <1>1, <1>2, <2>4 DEF PrepInv
  <1>7. LegacyInv' /\ ConfigInv' /\ CallInv'
    BY <1>0, <1>2, NoCallInv, NotReadyConfig DEF LegacyInv
  <1> QED
    BY <1>3, <1>4, <1>5, <1>6, <1>7 DEF IInv

LEMMA PrepLooksUpStep ==
    ASSUME IInv, PrepLooksUp
    PROVE  IInv'
  <1>0. prep.step = "reconcile" /\ Pending = prep.todo /\ prep.todo \subseteq Key
    BY DEF PrepLooksUp, Pending, IInv, PrepInv
  <1>1. PICK k \in prep.todo : prep' = [step |-> "remove", todo |-> prep.todo \ {k},
                                        path |-> k, value |-> durable[k]]
    BY DEF PrepLooksUp
  <1>2. k \in Key /\ k \in Path /\ durable[k] \in {None, Broken} \cup Text \cup Pair
    BY <1>0, <1>1, Unfold DEF IInv, Types, TypeOK
  <1>3. prep' \in PrepRecord /\ prep'.step = "remove" /\ prep'.todo = prep.todo \ {k}
        /\ prep'.path = k /\ prep'.value = durable[k]
    BY <1>0, <1>1, <1>2, Unfold DEF PrepRecord, PrepStepName
  <1>4. Types'
    BY <1>3 DEF IInv, Types, TypeOK, PrepLooksUp, PrepRecord, disk, ghosts
  <1>5. BootInv'
    BY <1>0, <1>3, PrepAlone DEF IInv, BootInv, PrepLooksUp, disk, ghosts
  <1>6. UNCHANGED <<durable, initialized, config, priv, pub>>
    BY DEF PrepLooksUp, disk
  <1>7. PrepInv'
    <2>1. Pending' = prep.todo
      BY <1>1, <1>3 DEF Pending
    <2>2. /\ initialized /\ ConfigAgrees /\ (\A p \in Path : Restored(p))
          /\ \A j \in Key \ prep.todo : Reconciled(j)
      BY <1>0 DEF IInv, PrepInv
    <2>3. /\ initialized' /\ ConfigAgrees' /\ (\A p \in Path : Restored(p)')
          /\ \A j \in Key \ prep.todo : Reconciled(j)'
      BY <1>6, <2>2 DEF ConfigAgrees, Restored, Reconciled, FileOf, Verified
    <2> QED
      BY <1>0, <1>3, <1>6, <2>1, <2>3 DEF PrepInv
  <1> QED
    BY <1>4, <1>5, <1>7, LegacyFrame, KeptFrame, CallFrame
    DEF IInv, ConfigInv, PrepLooksUp, disk, ghosts
LEMMA PrepReconcilesStep ==
    ASSUME IInv, PrepReconciles
    PROVE  IInv'
  <1>0. /\ prep.step = "remove" /\ Pending = prep.todo \cup {prep.path}
        /\ prep.path \in Key /\ prep.value = durable[prep.path]
    BY DEF PrepReconciles, PrepAt, Pending, IInv, PrepInv
  <1>1. prep' \in PrepRecord /\ prep'.step = "reconcile" /\ prep'.todo = prep.todo
    BY Unfold DEF IInv, Types, PrepReconciles, NoPrep, PrepRecord, PrepStepName
  <1>2. /\ priv' \in [Key -> {None, Broken} \cup Material]
        /\ pub' \in [Key -> {None, Broken} \cup Material]
        /\ \A j \in Key : IF j = prep.path /\ durable[j] = None
                          THEN priv'[j] = None /\ pub'[j] = None
                          ELSE priv'[j] = priv[j] /\ pub'[j] = pub[j]
    BY <1>0 DEF IInv, Types, TypeOK, PrepReconciles
  <1>3. /\ UNCHANGED <<durable, initialized, config, migrating, ready, env, shared, call, outcome,
                       gen, told, gone>>
        /\ ~ready /\ call.op = "none" /\ shared = None
        /\ initialized
    BY <1>0, PrepAlone DEF IInv, PrepInv, PrepReconciles, ghosts
  <1>4. Types'
    BY <1>1, <1>2, <1>3 DEF IInv, Types, TypeOK, PrepRecord
  <1>5. BootInv'
    BY <1>1, <1>3 DEF IInv, BootInv
  <1>6. KeptInv'
    BY <1>2, <1>3 DEF IInv, KeptInv, Absent
  <1>7. PrepInv'
    <2>1. Pending' = prep.todo
      BY <1>1 DEF Pending
    <2>2. /\ ConfigAgrees /\ (\A p \in Path : Restored(p))
          /\ (\A k \in Key \ Pending : Reconciled(k)) /\ Pending \subseteq Key
      BY <1>0 DEF IInv, PrepInv
    <2>3. \A p \in Path : Restored(p)'
      BY <1>2, <1>3, <2>2, Unfold DEF Restored, FileOf
    <2>4. ASSUME NEW k \in Key, k \notin prep.todo
          PROVE  Reconciled(k)'
      <3>1. CASE k = prep.path /\ durable[k] = None
        BY <1>2, <3>1, Unfold DEF Reconciled, Verified
      <3>2. CASE k = prep.path /\ durable[k] # None
        BY <1>3, <3>2 DEF Reconciled
      <3>3. CASE k # prep.path
        BY <1>0, <1>2, <1>3, <2>2, <2>4, <3>3 DEF Reconciled, Verified
      <3> QED
        BY <3>1, <3>2, <3>3
    <2>5. ConfigAgrees'
      BY <1>3, <2>2 DEF ConfigAgrees
    <2> QED
      BY <1>0, <1>1, <1>3, <2>1, <2>2, <2>3, <2>4, <2>5 DEF PrepInv
  <1>8. LegacyInv' /\ ConfigInv' /\ CallInv'
    BY <1>3, NoCallInv, NotReadyConfig DEF LegacyInv
  <1> QED
    BY <1>4, <1>5, <1>6, <1>7, <1>8 DEF IInv

\* Preparation that completes leaves files and records in agreement.
LEMMA CompletedAgrees ==
    ASSUME IInv, PrepCompletes
    PROVE  /\ initialized /\ ConfigAgrees /\ \A p \in Path : Restored(p)
           /\ \A k \in Key : Reconciled(k)
  <1>1. (prep.step = "protect" \/ prep.step = "reconcile") /\ prep.todo = {} /\ Pending = {}
    BY DEF IInv, PrepInv, PrepCompletes, PrepAt, Pending
  <1> QED
    BY <1>1 DEF IInv, PrepInv

LEMMA PrepCompletesStep ==
    ASSUME IInv, PrepCompletes
    PROVE  IInv'
  <1>1. prep' \in PrepRecord /\ prep'.step = "idle"
    BY NoPrepTyped DEF PrepCompletes
  <1>2. /\ UNCHANGED <<durable, initialized, config, priv, pub, migrating, env, shared, call,
                       outcome, gen, told, gone>>
        /\ ready'
        /\ ~ready /\ call.op = "none" /\ shared = None
    BY PrepAlone DEF IInv, PrepCompletes, PrepAt, disk, ghosts
  <1>3. initialized /\ ConfigAgrees /\ Restored(Config)
    BY CompletedAgrees, Unfold
  <1>4. Types'
    BY <1>1, <1>2 DEF IInv, Types, TypeOK, PrepCompletes, PrepRecord
  <1>5. BootInv'
    BY <1>1, <1>2, <1>3 DEF IInv, BootInv
  <1>6. PrepInv'
    BY <1>1 DEF PrepInv
  <1>7. ConfigInv'
    <2>1. Unlinks /\ Whole => TextOf(config) = TextOf(durable[Config])
      BY <1>3 DEF ConfigAgrees, Restored
    <2> QED
      BY <1>2, <2>1 DEF ConfigInv, TextOf
  <1> QED
    BY <1>2, <1>4, <1>5, <1>6, <1>7, LegacyFrame, KeptFrame, CallFrame DEF IInv

LEMMA PrepFailsStep ==
    ASSUME IInv, PrepFails
    PROVE  IInv'
  <1>1. prep' \in PrepRecord /\ prep'.step = "idle"
    BY NoPrepTyped DEF PrepFails
  <1>2. /\ UNCHANGED <<durable, initialized, config, migrating, ready, shared, call,
                       outcome, gen, told, gone>>
        /\ ~ready /\ call.op = "none" /\ shared = None
    BY PrepAlone DEF IInv, PrepFails, ghosts
  <1>3. /\ priv' \in [Key -> {None, Broken} \cup Material] /\ pub' = pub
        /\ \A j \in Key : \/ priv'[j] = priv[j]
                          \/ /\ durable[j] \in Pair /\ durable[j] # None
                             /\ Whole => priv'[j] \in {priv[j], durable[j].priv}
                          \/ initialized /\ durable[j] = None /\ priv'[j] = None
    <2>1. CASE prep.step = "materialise" /\ prep.path \in Key /\ prep.value # None
      <3>1. PairPartlyWritten(prep.path, prep.value)
        BY <2>1 DEF PrepFails
      <3>2. prep.value \in Pair /\ prep.value = durable[prep.path] /\ TypeOK
        BY <2>1, MaterialisedFacts, Unfold DEF IInv, Types
      <3> QED
        BY <2>1, <3>1, <3>2, PairPartlyWrittenFacts
    <2>2. CASE prep.step = "remove" /\ prep.value = None
      <3>1. priv' \in {priv, [priv EXCEPT ![prep.path] = None]} /\ pub' = pub
        BY <2>2 DEF PrepFails
      <3>2. /\ initialized /\ prep.path \in Key /\ durable[prep.path] = None
            /\ priv \in [Key -> {None, Broken} \cup Material]
        BY <2>2 DEF IInv, PrepInv, Pending, Types, TypeOK
      <3> QED
        BY <3>1, <3>2
    <2>3. CASE /\ ~(prep.step = "materialise" /\ prep.path \in Key /\ prep.value # None)
               /\ ~(prep.step = "remove" /\ prep.value = None)
      BY <2>3 DEF PrepFails, IInv, Types, TypeOK
    <2> QED
      BY <2>1, <2>2, <2>3
  <1>4. Types'
    BY <1>1, <1>2, <1>3 DEF IInv, Types, TypeOK, PrepFails, PrepRecord
  <1>5. BootInv'
    BY <1>1, <1>2, PrepAlone DEF IInv, BootInv, PrepFails, Types, TypeOK
  <1>6. LegacyInv'
    <2> SUFFICES ASSUME ~initialized
                 PROVE  LegacyInv'
      BY <1>2 DEF LegacyInv
    <2>1. ASSUME NEW k \in Key
          PROVE  LegacyKey(k)'
      <3>1. LegacyKey(k)
        BY DEF IInv, LegacyInv
      <3>2. (durable[k] = None \/ Whole) => priv'[k] = priv[k]
        <4>1. CASE durable[k] = None
          BY <1>3, <4>1
        <4>2. CASE durable[k] # None /\ Whole
          <5>1. durable[k] = FileOf(k)
            BY <3>1, <4>2 DEF LegacyKey
          <5>2. priv[k] = FileOf(k).priv
            BY DEF FileOf
          <5> QED
            BY <1>3, <4>2, <5>1, <5>2
        <4> QED
          BY <4>1, <4>2
      <3> QED
        BY <1>2, <1>3, <3>1, <3>2 DEF LegacyKey, FileOf, Absent
    <2> QED
      BY <1>2, <2>1 DEF IInv, LegacyInv
  <1>7. KeptInv'
    BY <1>2, <1>3 DEF IInv, KeptInv, Absent
  <1>8. PrepInv' /\ ConfigInv' /\ CallInv'
    BY <1>1, <1>2, NoCallInv, NotReadyConfig DEF PrepInv
  <1> QED
    BY <1>4, <1>5, <1>6, <1>7, <1>8 DEF IInv

LEMMA LoadConfigStep ==
    ASSUME IInv, NEW p \in Pane, LoadConfig(p)
    PROVE  IInv'
  <1>1. /\ UNCHANGED <<durable, initialized, config, priv, pub, migrating, ready, prep, call,
                       outcome, gen, told, gone>>
        /\ ready /\ env' \in [Pane -> {"cold", "asked", "ready", "rejected"}]
        /\ \A q \in Pane \ {p} : env'[q] = env[q]
    BY DEF IInv, Types, TypeOK, LoadConfig, disk, ghosts
  <1>2. \/ shared' = (IF shared = None THEN TextOf(config) ELSE shared) /\ shared' # None
        \/ shared' = None /\ shared = None /\ env'[p] = "rejected"
    BY Unfold DEF LoadConfig, TextOf, IInv, Types, TypeOK
  <1>3. shared' \in {None, Broken} \cup Text
    BY <1>2, Unfold DEF TextOf, IInv, Types, TypeOK
  <1>4. Types'
    BY <1>1, <1>3 DEF IInv, Types, TypeOK
  <1>5. BootInv'
    BY <1>1, <1>2 DEF IInv, BootInv
  <1>6. ConfigInv'
    BY <1>1, <1>2, Unfold DEF IInv, ConfigInv, TextOf
  <1> QED
    BY <1>1, <1>4, <1>5, <1>6, LegacyFrame, KeptFrame, CallFrame, PrepFrame DEF IInv

LEMMA CrashStep ==
    ASSUME IInv, Crash
    PROVE  IInv'
  <1>1. prep' \in PrepRecord /\ prep'.step = "idle"
    BY NoPrepTyped DEF Crash
  <1>2. call' \in CallRecord /\ call'.op = "none"
    BY Unfold DEF Crash, NoCall, CallRecord
  <1>3. gen' \in [Pane -> GenRecord] /\ \A p \in Pane : gen'[p].step = "idle"
    BY DEF Crash, NoGen, GenRecord
  <1>4. UNCHANGED <<durable, initialized, config, priv, pub, told, gone>>
        /\ ~ready' /\ shared' = None
    BY DEF Crash, disk, ghosts
  <1>5. Types'
    BY <1>1, <1>2, <1>3, <1>4 DEF IInv, Types, TypeOK, Crash, PrepRecord, CallRecord, GenRecord
  <1>6. BootInv'
    BY <1>1, <1>2, <1>3, <1>4 DEF IInv, Types, TypeOK, BootInv, Crash
  <1>7. PrepInv'
    BY <1>1 DEF PrepInv
  <1> QED
    BY <1>2, <1>4, <1>5, <1>6, <1>7, LegacyFrame, KeptFrame, NoCallInv, NotReadyConfig DEF IInv
-----------------------------------------------------------------------------
(* Synchronous calls: preparation is over and the configuration loaded.     *)

CallStepName == {"", "project", "durable", "rollback", "private", "public", "capture", "discard",
                 "revert", "restoreRecord", "restoreFiles", "restoreFilesOnly"}

LEMMA CallRuns ==
    ASSUME BootInv, call.op # "none"
    PROVE  ready /\ initialized /\ prep.step = "idle" /\ shared # None
  BY DEF BootInv

LEMMA UserReady ==
    ASSUME BootInv, NEW p \in Pane, Usable(p)
    PROVE  ready /\ initialized /\ prep.step = "idle" /\ shared # None /\ call.op = "none"
  BY DEF BootInv, Usable, ThreadFree

\* Once preparation is over, nothing is asked of it any more.
LEMMA ReadyFrame ==
    ASSUME BootInv, ready, UNCHANGED <<initialized, migrating, ready, prep, env>>,
           shared # None => shared' # None, call'.op # "none" => shared' # None
    PROVE  BootInv' /\ LegacyInv' /\ PrepInv'
  <1>1. initialized /\ prep.step = "idle"
    BY DEF BootInv
  <1>2. BootInv'
    BY DEF BootInv
  <1> QED
    BY <1>1, <1>2 DEF LegacyInv, PrepInv

LEMMA GoToFacts ==
    ASSUME Types, NEW step \in CallStepName, GoTo(step)
    PROVE  /\ call' \in CallRecord /\ call'.step = step /\ call'.op = call.op
           /\ call'.path = call.path /\ call'.old = call.old /\ call'.new = call.new
           /\ call'.record = call.record /\ outcome' = outcome
  BY DEF Types, GoTo, CallRecord, CallStepName

LEMMA EndFacts ==
    ASSUME NEW result \in {"none", "ok", "previous", "unknown"}, End(result)
    PROVE  call' \in CallRecord /\ call'.op = "none" /\ call'.path \in Path
           /\ outcome' \in {"none", "ok", "previous", "unknown"}
  BY Unfold DEF End, NoCall, CallRecord

LEMMA BeginFacts ==
    ASSUME Types, NEW p \in Path,
           NEW op \in {"config", "import", "passphrase", "comment", "delete"},
           NEW step \in CallStepName, NEW new \in {None, Broken} \cup Text \cup Material,
           Begin(op, step, p, new)
    PROVE  /\ call' \in CallRecord /\ call'.op = op /\ call'.step = step
           /\ call'.path = p /\ call'.old = durable[p] /\ call'.record = durable[p]
           /\ call'.new = new /\ outcome' = "none"
  <1>1. durable[p] \in {None, Broken} \cup Text \cup Pair
    BY DEF Types, TypeOK, Record
  <1> QED
    BY <1>1 DEF Begin, CallRecord, CallStepName

-----------------------------------------------------------------------------
(* SshConfigCommitPolicy.                                                   *)

LEMMA CommitConfigStep ==
    ASSUME IInv, NEW p \in Pane, NEW t \in Text \cup {Broken}, CommitConfig(p, t)
    PROVE  IInv'
  <1>1. /\ call' \in CallRecord /\ call'.op = "config" /\ call'.step = "project"
        /\ call'.path = Config /\ call'.old = durable[Config] /\ call'.record = durable[Config]
        /\ call'.new = t
        /\ outcome' = "none"
    BY BeginFacts, Unfold DEF CommitConfig, IInv, CallStepName
  <1>2. UNCHANGED <<durable, initialized, config, priv, pub, migrating, ready, prep, env, shared,
                    gen, told, gone>>
    BY DEF CommitConfig, disk, preparing, ghosts
  <1>3. Types'
    BY <1>1, <1>2 DEF IInv, Types, TypeOK, CallRecord
  <1>4. BootInv' /\ LegacyInv' /\ PrepInv'
    BY <1>1, <1>2, UserReady, ReadyFrame DEF IInv, CommitConfig
  <1>5. KeptInv' /\ ConfigInv'
    BY <1>2, KeptFrame DEF IInv, ConfigInv
  <1>6. CallInv'
    BY <1>1, <1>2 DEF CallInv, ConfigCall, KeyCall, ImportCall, ChangeCall, DeleteCall, Changing
  <1> QED
    BY <1>3, <1>4, <1>5, <1>6 DEF IInv

\* A call on the configuration asks nothing else of a call.
LEMMA ConfigCallOnly ==
    ASSUME ConfigCall', call'.op \in {"none", "config"}
    PROVE  CallInv'
  BY DEF CallInv, ConfigCall, KeyCall, ImportCall, ChangeCall, DeleteCall, Changing

LEMMA ConfigProjectsStep ==
    ASSUME IInv, ConfigProjects
    PROVE  IInv'
  <1>0. /\ call.op = "config" /\ call.path = Config /\ call.new \in Text \cup {Broken}
        /\ call.old = durable[Config] /\ call.record = call.old
        /\ ready /\ shared # None
    BY CallRuns DEF IInv, CallInv, ConfigCall, ConfigProjects, At
  <1>1. /\ UNCHANGED <<durable, initialized, priv, pub, migrating, ready, prep, env, shared, gen,
                       told, gone>>
        /\ config' \in {None, Broken} \cup Text
    BY <1>0, WrittenFacts DEF ConfigProjects, preparing, ghosts, IInv, Types, TypeOK
  <1>2. /\ call' \in CallRecord /\ call'.path \in Path
        /\ outcome' \in {"none", "ok", "previous", "unknown"}
        /\ \/ call'.op = "none"
           \/ /\ call'.op = "config" /\ call'.step = "durable" /\ call'.path = call.path
              /\ call'.old = call.old /\ call'.record = call.record /\ call'.new = call.new
    BY GoToFacts, EndFacts, <1>0 DEF ConfigProjects, IInv, Types, TypeOK, CallStepName, CallRecord
  <1>3. Types'
    BY <1>1, <1>2 DEF IInv, Types, TypeOK
  <1>4. BootInv' /\ LegacyInv' /\ PrepInv'
    BY <1>0, <1>1, ReadyFrame DEF IInv
  <1>5. KeptInv' /\ ConfigInv'
    BY <1>0, <1>1, KeptFrame DEF IInv, ConfigInv
  <1>6. CallInv'
    BY <1>0, <1>1, <1>2, ConfigCallOnly DEF ConfigCall
  <1> QED
    BY <1>3, <1>4, <1>5, <1>6 DEF IInv

LEMMA ConfigCommitsStep ==
    ASSUME IInv, ConfigCommits
    PROVE  IInv'
  <1>0. /\ call.op = "config" /\ call.path = Config /\ call.new \in Text \cup {Broken}
        /\ call.old = durable[Config] /\ call.record = call.old
        /\ ready /\ shared # None
    BY CallRuns DEF IInv, CallInv, ConfigCall, ConfigCommits, At
  <1>1. UNCHANGED <<initialized, config, priv, pub, migrating, ready, prep, env, gen, told, gone>>
    BY DEF ConfigCommits, files, ghosts
  <1>2. \/ /\ durable' = [durable EXCEPT ![Config] = call.new] /\ shared' = call.new
           /\ End("ok")
        \/ GoTo("rollback") /\ UNCHANGED <<durable, shared>>
    BY DEF ConfigCommits
  <1>3. /\ call' \in CallRecord /\ call'.path \in Path
        /\ outcome' \in {"none", "ok", "previous", "unknown"}
        /\ \/ call'.op = "none"
           \/ /\ call'.op = "config" /\ call'.step = "rollback" /\ call'.path = call.path
              /\ call'.old = call.old /\ call'.record = call.record
              /\ call'.new = call.new /\ durable' = durable
    BY GoToFacts, EndFacts, <1>0, <1>2 DEF IInv, Types, TypeOK, CallStepName, CallRecord
  <1>4. /\ DOMAIN durable' = Path /\ (\A j \in Key : durable'[j] = durable[j])
        /\ durable'[Config] \in {None, Broken} \cup Text /\ shared' \in Text \cup {Broken}
        /\ \/ durable'[Config] = call.new /\ shared' = call.new
           \/ durable' = durable /\ shared' = shared
    BY <1>0, <1>2, Unfold DEF IInv, Types, TypeOK
  <1>5. Types'
    <2>1. \A j \in Path : durable'[j] \in {None} \cup Record(j)
      BY <1>4, Unfold DEF IInv, Types, TypeOK
    <2> QED
      BY <1>1, <1>3, <1>4, <2>1 DEF IInv, Types, TypeOK
  <1>6. BootInv' /\ LegacyInv' /\ PrepInv'
    BY <1>0, <1>1, <1>4, Unfold, ReadyFrame DEF IInv
  <1>7. KeptInv'
    BY <1>1, <1>4 DEF IInv, KeptInv, Absent
  <1>8. ConfigInv'
    BY <1>0, <1>4, Unfold DEF IInv, ConfigInv, TextOf
  <1>9. CallInv'
    BY <1>0, <1>3, ConfigCallOnly DEF ConfigCall
  <1> QED
    BY <1>5, <1>6, <1>7, <1>8, <1>9 DEF IInv

LEMMA ConfigRollsBackStep ==
    ASSUME IInv, ConfigRollsBack
    PROVE  IInv'
  <1>0. /\ call.op = "config" /\ call.path = Config /\ call.new \in Text \cup {Broken}
        /\ call.old = durable[Config] /\ call.record = call.old
        /\ call.old \in {None, Broken} \cup Text
        /\ ready /\ shared # None
    BY CallRuns, Unfold DEF IInv, CallInv, ConfigCall, ConfigRollsBack, At, Types, TypeOK
  <1>1. /\ UNCHANGED <<durable, initialized, priv, pub, migrating, ready, prep, env, shared, gen,
                       told, gone>>
        /\ config' \in {None, Broken} \cup Text
    BY <1>0, WrittenFacts
    DEF ConfigRollsBack, AfterRemoval, preparing, ghosts, IInv, Types, TypeOK
  <1>2. /\ call' \in CallRecord /\ call'.path \in Path
        /\ outcome' \in {"none", "ok", "previous", "unknown"}
        /\ call'.op = "none"
    BY EndFacts DEF ConfigRollsBack
  <1>3. Types'
    BY <1>1, <1>2 DEF IInv, Types, TypeOK
  <1>4. BootInv' /\ LegacyInv' /\ PrepInv'
    BY <1>0, <1>1, ReadyFrame DEF IInv
  <1>5. KeptInv' /\ ConfigInv'
    BY <1>0, <1>1, KeptFrame DEF IInv, ConfigInv
  <1> QED
    BY <1>2, <1>3, <1>4, <1>5, NoCallInv DEF IInv
-----------------------------------------------------------------------------
(* Calls on a key pair, and generations: the configuration, and what        *)
(* preparation left, stay.                                                  *)

FileType == [Key -> {None, Broken} \cup Material]
Outcome == {"none", "ok", "previous", "unknown"}

KeyFrame ==
    /\ UNCHANGED <<initialized, config, migrating, ready, prep, env, shared>>
    /\ DOMAIN durable' = Path /\ durable'[Config] = durable[Config]

LEMMA KeyFrameInv ==
    ASSUME IInv, ready, call'.op # "none" => shared # None, KeyFrame
    PROVE  BootInv' /\ LegacyInv' /\ PrepInv' /\ ConfigInv'
  <1>1. BootInv' /\ LegacyInv' /\ PrepInv'
    BY ReadyFrame DEF IInv, KeyFrame
  <1>2. ConfigInv'
    BY DEF IInv, ConfigInv, KeyFrame
  <1> QED
    BY <1>1, <1>2

LEMMA KeyTypes ==
    ASSUME Types, KeyFrame,
           \A k \in Key : durable'[k] \in {None} \cup Pair,
           priv' \in FileType, pub' \in FileType,
           call' \in CallRecord, outcome' \in Outcome,
           gen' \in [Pane -> GenRecord],
           \A p \in Pane : gen'[p].step # "idle" => gen'[p].key \in Key /\ gen'[p].new \in Material,
           told' \in [Key -> {None} \cup Pair], gone' \in [Key -> {"no", "deleting", "yes"}]
    PROVE  Types'
  <1>1. \A p \in Path : durable'[p] \in {None} \cup Record(p)
    BY Unfold DEF Types, TypeOK, KeyFrame
  <1>2. call'.path \in Path /\ \A p \in Pane : gen'[p].key \in {None} \cup Key
    BY DEF CallRecord, GenRecord
  <1>3. TypeOK'
    BY <1>1, <1>2 DEF Types, TypeOK, KeyFrame, FileType, Outcome
  <1> QED
    BY <1>3 DEF Types, KeyFrame

LEMMA TypesOf ==
    ASSUME IInv
    PROVE  /\ TypeOK /\ Types /\ DOMAIN durable = Path
           /\ \A k \in Key : durable[k] \in {None} \cup Pair
           /\ priv \in FileType /\ pub \in FileType
           /\ call \in CallRecord /\ outcome \in Outcome
           /\ gen \in [Pane -> GenRecord]
           /\ \A p \in Pane : gen[p].step # "idle" => gen[p].key \in Key /\ gen[p].new \in Material
           /\ told \in [Key -> {None} \cup Pair] /\ gone \in [Key -> {"no", "deleting", "yes"}]
  BY Unfold DEF IInv, Types, TypeOK, FileType, Outcome

LEMMA EndTyped ==
    ASSUME NEW result \in Outcome, End(result)
    PROVE  call' \in CallRecord /\ call'.op = "none" /\ outcome' \in Outcome /\ CallInv'
  BY EndFacts, NoCallInv DEF Outcome

\* The record takes what the two files hold, and the user is told so.
LEMMA CapturedFacts ==
    ASSUME IInv, NEW k \in Key, Capturable(k), Captured(k)
    PROVE  /\ FileOf(k) \in Pair
           /\ DOMAIN durable' = Path /\ durable'[Config] = durable[Config]
           /\ durable'[k] = FileOf(k) /\ told'[k] = FileOf(k)
           /\ \A j \in Key \ {k} : durable'[j] = durable[j] /\ told'[j] = told[j]
           /\ \A j \in Key : durable'[j] \in {None} \cup Pair
           /\ told' \in [Key -> {None} \cup Pair]
  BY VerifiedPair, TypesOf, Unfold DEF Captured

\* What is removed, or fails to be, leaves nothing where nothing was.
LEMMA DiscardedFacts ==
    ASSUME IInv, NEW k \in Key, Discarded(k)
    PROVE  /\ priv' \in FileType /\ pub' \in FileType
           /\ \A j \in Key : priv'[j] \in {priv[j], None} /\ pub'[j] \in {pub[j], None}
  <1>1. PICK left : left \in {priv[k], None} /\ priv' = [priv EXCEPT ![k] = left]
    BY DEF Discarded, AfterRemoval
  <1>2. PICK rest : rest \in {pub[k], None} /\ pub' = [pub EXCEPT ![k] = rest]
    BY DEF Discarded, AfterRemoval
  <1> QED
    BY <1>1, <1>2, TypesOf DEF FileType

\* Files that change while the pair they belong to is not gone disturb nothing
\* that was promised.
LEMMA KeptFiles ==
    ASSUME KeptInv, UNCHANGED <<durable, initialized, told, gone>>,
           \A j \in Key : gone[j] = "yes" /\ Absent(j) => Absent(j)'
    PROVE  KeptInv'
  BY DEF KeptInv

\* A step of a key's call that changes only its files.
LEMMA FilesOfCall ==
    ASSUME IInv, ready, shared # None,
           UNCHANGED <<durable, initialized, config, migrating, ready, prep, env, shared, gen, told>>,
           gone' = gone, call.path \in Key, gone[call.path] # "yes",
           priv' \in FileType, pub' \in FileType,
           \A j \in Key \ {call.path} : priv'[j] = priv[j] /\ pub'[j] = pub[j],
           CallInv', call' \in CallRecord, outcome' \in Outcome
    PROVE  IInv'
  <1>1. KeyFrame
    BY TypesOf DEF KeyFrame
  <1>2. Types'
    BY <1>1, TypesOf, KeyTypes
  <1>3. BootInv' /\ LegacyInv' /\ PrepInv' /\ ConfigInv'
    BY <1>1, KeyFrameInv
  <1>4. KeptInv'
    BY KeptFiles DEF IInv, Absent
  <1> QED
    BY <1>2, <1>3, <1>4 DEF IInv

\* The record of one key takes what the files hold, or nothing happens: what was
\* promised of the others stays, and of this one it is what the user is told.
LEMMA CaptureFrame ==
    ASSUME IInv, NEW k \in Key, gone[k] # "yes",
           (Capturable(k) /\ Captured(k)) \/ UNCHANGED <<durable, told>>,
           UNCHANGED <<initialized, config, migrating, ready, prep, env, shared, gone>>
    PROVE  /\ KeyFrame
           /\ told' \in [Key -> {None} \cup Pair]
           /\ \A j \in Key : durable'[j] \in {None} \cup Pair
           /\ priv' = priv /\ pub' = pub => KeptInv'
  <1>1. /\ DOMAIN durable' = Path /\ durable'[Config] = durable[Config]
        /\ told' \in [Key -> {None} \cup Pair]
        /\ \A j \in Key : durable'[j] \in {None} \cup Pair
        /\ \A j \in Key : durable'[j] = told'[j] \/ (durable'[j] = durable[j] /\ told'[j] = told[j])
        /\ \A j \in Key : j # k => durable'[j] = durable[j]
    BY CapturedFacts, TypesOf
  <1> QED
    BY <1>1 DEF IInv, KeptInv, Absent, KeyFrame

-----------------------------------------------------------------------------
(* importKey                                                                *)

LEMMA ImportKeyStep ==
    ASSUME IInv, NEW p \in Pane, NEW k \in Key, NEW m \in Material, ImportKey(p, k, m)
    PROVE  IInv'
  <1>0. ready /\ shared # None /\ k \in Path
    BY UserReady, Unfold DEF IInv, ImportKey
  <1>1. /\ call' \in CallRecord /\ call'.op = "import" /\ call'.step = "private"
        /\ call'.path = k /\ call'.new = m /\ outcome' = "none"
    <2>1. Begin("import", "private", k, m) /\ Types
      BY DEF ImportKey, IInv
    <2>2. "private" \in CallStepName /\ m \in {None, Broken} \cup Text \cup Material
      BY DEF CallStepName
    <2> QED
      BY <1>0, <2>1, <2>2, BeginFacts
  <1>2. /\ UNCHANGED <<durable, initialized, config, priv, pub, migrating, ready, prep, env, shared,
                       gen, told>>
        /\ gone' = [gone EXCEPT ![k] = "no"]
    BY DEF ImportKey, disk, preparing
  <1>3. gone' \in [Key -> {"no", "deleting", "yes"}] /\ gone'[k] = "no"
        /\ \A j \in Key \ {k} : gone'[j] = gone[j]
    BY <1>2, TypesOf
  <1>4. KeyFrame
    BY <1>2, TypesOf DEF KeyFrame
  <1>5. Types'
    BY <1>1, <1>2, <1>3, <1>4, TypesOf, KeyTypes DEF Outcome
  <1>6. BootInv' /\ LegacyInv' /\ PrepInv' /\ ConfigInv'
    BY <1>0, <1>4, KeyFrameInv
  <1>7. KeptInv'
    BY <1>2, <1>3 DEF IInv, KeptInv, Absent
  <1>8. CallInv'
    BY <1>1, <1>3 DEF CallInv, ConfigCall, KeyCall, ImportCall, ChangeCall, DeleteCall, Changing
  <1> QED
    BY <1>5, <1>6, <1>7, <1>8 DEF IInv

\* An import goes on.
LEMMA ImportGoes ==
    ASSUME ImportCall, call.op = "import", call.path \in Key,
           NEW step \in {"public", "capture", "discard"}, GoTo(step), Types, gone' = gone
    PROVE  CallInv' /\ call' \in CallRecord /\ outcome' = outcome
  <1>1. /\ call' \in CallRecord /\ call'.step = step /\ call'.op = call.op
        /\ call'.path = call.path /\ call'.new = call.new /\ outcome' = outcome
    BY GoToFacts DEF CallStepName
  <1> QED
    BY <1>1 DEF CallInv, ConfigCall, KeyCall, ImportCall, ChangeCall, DeleteCall, Changing

LEMMA ImportWritesPrivateStep ==
    ASSUME IInv, ImportWritesPrivate
    PROVE  IInv'
  <1>0. /\ call.op = "import" /\ call.path \in Key /\ call.new \in Material
        /\ gone[call.path] = "no" /\ ImportCall /\ Types /\ ready /\ shared # None
    BY CallRuns DEF IInv, CallInv, ImportCall, KeyCall, ImportWritesPrivate, At
  <1>1. UNCHANGED <<durable, initialized, config, pub, migrating, ready, prep, env, shared,
                    gen, told, gone>>
    BY DEF ImportWritesPrivate, preparing, ghosts
  <1>2. /\ priv' \in FileType
        /\ \A j \in Key \ {call.path} : priv'[j] = priv[j]
    <2>1. priv' = priv \/ \E m \in Material \cup {Broken} : priv' = [priv EXCEPT ![call.path] = m]
      BY <1>0, WrittenFacts DEF ImportWritesPrivate
    <2> QED
      BY <1>0, <2>1, TypesOf DEF FileType
  <1>3. CallInv' /\ call' \in CallRecord /\ outcome' \in Outcome
    BY <1>0, <1>1, ImportGoes, EndTyped, TypesOf DEF ImportWritesPrivate, Outcome
  <1> QED
    BY <1>0, <1>1, <1>2, <1>3, FilesOfCall, TypesOf

LEMMA ImportWritesPublicStep ==
    ASSUME IInv, ImportWritesPublic
    PROVE  IInv'
  <1>0. /\ call.op = "import" /\ call.path \in Key
        /\ gone[call.path] = "no" /\ ImportCall /\ Types /\ ready /\ shared # None
    BY CallRuns DEF IInv, CallInv, ImportCall, KeyCall, ImportWritesPublic, At
  <1>1. UNCHANGED <<durable, initialized, config, priv, migrating, ready, prep, env, shared,
                    gen, told, gone>>
    BY DEF ImportWritesPublic, preparing, ghosts
  <1>2. /\ pub' \in FileType
        /\ \A j \in Key \ {call.path} : pub'[j] = pub[j]
    <2>1. pub' = pub \/ \E n \in Material \cup {Broken} : pub' = [pub EXCEPT ![call.path] = n]
      BY <1>0, WrittenFacts DEF ImportWritesPublic
    <2> QED
      BY <1>0, <2>1, TypesOf DEF FileType
  <1>3. CallInv' /\ call' \in CallRecord /\ outcome' \in Outcome
    BY <1>0, <1>1, ImportGoes, TypesOf DEF ImportWritesPublic, Outcome
  <1> QED
    BY <1>0, <1>1, <1>2, <1>3, FilesOfCall, TypesOf

LEMMA ImportCapturesStep ==
    ASSUME IInv, ImportCaptures
    PROVE  IInv'
  <1>0. /\ call.op = "import" /\ call.path \in Key
        /\ gone[call.path] = "no" /\ ImportCall /\ Types /\ ready /\ shared # None
    BY CallRuns DEF IInv, CallInv, ImportCall, KeyCall, ImportCaptures, At
  <1>1. UNCHANGED <<initialized, config, priv, pub, migrating, ready, prep, env, shared, gen, gone>>
    BY DEF ImportCaptures, files, preparing
  <1>2. CallInv' /\ call' \in CallRecord /\ outcome' \in Outcome
    BY <1>0, <1>1, ImportGoes, EndTyped, TypesOf DEF ImportCaptures, Outcome
  <1>3. \/ Capturable(call.path) /\ Captured(call.path)
        \/ UNCHANGED <<durable, told>>
    BY <1>0, VerifiedCapturable DEF ImportCaptures
  <1>4. /\ KeyFrame /\ told' \in [Key -> {None} \cup Pair]
        /\ (\A j \in Key : durable'[j] \in {None} \cup Pair) /\ KeptInv'
    BY <1>0, <1>1, <1>3, CaptureFrame
  <1>5. Types'
    BY <1>1, <1>2, <1>4, TypesOf, KeyTypes
  <1>6. BootInv' /\ LegacyInv' /\ PrepInv' /\ ConfigInv'
    BY <1>0, <1>4, KeyFrameInv
  <1> QED
    BY <1>2, <1>4, <1>5, <1>6 DEF IInv

LEMMA ImportDiscardsStep ==
    ASSUME IInv, ImportDiscards
    PROVE  IInv'
  <1>0. call.op = "import" /\ call.path \in Key /\ Types /\ ready /\ shared # None
    BY CallRuns DEF IInv, CallInv, KeyCall, ImportDiscards, At
  <1>1. UNCHANGED <<durable, initialized, config, migrating, ready, prep, env, shared,
                    gen, told, gone>>
    BY DEF ImportDiscards, preparing, ghosts
  <1>2. /\ priv' \in FileType /\ pub' \in FileType
        /\ \A j \in Key : priv'[j] \in {priv[j], None} /\ pub'[j] \in {pub[j], None}
    BY <1>0, DiscardedFacts DEF ImportDiscards
  <1>3. CallInv' /\ call' \in CallRecord /\ outcome' \in Outcome
    BY EndTyped DEF ImportDiscards, Outcome
  <1>4. KeyFrame
    BY <1>1, TypesOf DEF KeyFrame
  <1>5. Types'
    BY <1>1, <1>2, <1>3, <1>4, TypesOf, KeyTypes
  <1>6. BootInv' /\ LegacyInv' /\ PrepInv' /\ ConfigInv'
    BY <1>0, <1>4, KeyFrameInv
  <1>7. KeptInv'
    BY <1>1, <1>2, KeptFiles DEF IInv, Absent
  <1> QED
    BY <1>3, <1>5, <1>6, <1>7 DEF IInv
-----------------------------------------------------------------------------
(* changeKeyPassphrase, changeKeyComment                                    *)

LEMMA ChangeKeyStep ==
    ASSUME IInv, NEW p \in Pane, NEW op \in Changing, NEW k \in Key, NEW m \in Material,
           ChangeKey(p, op, k, m)
    PROVE  IInv'
  <1>0. ready /\ shared # None /\ k \in Path /\ op \in {"passphrase", "comment"}
    BY UserReady, Unfold DEF IInv, ChangeKey, Changing
  <1>1. FileOf(k) \in Pair /\ gone[k] # "yes"
    <2>1. Capturable(k) /\ TypeOK
      BY VerifiedCapturable, TypesOf DEF ChangeKey
    <2>2. gone[k] # "yes"
      BY <2>1 DEF IInv, KeptInv, Absent, Capturable
    <2> QED
      BY <2>1, <2>2, VerifiedPair
  <1>2. call' = [op |-> op, step |-> "private", path |-> k, old |-> FileOf(k),
                 record |-> durable[k], new |-> m]
        /\ outcome' = "none"
    BY DEF ChangeKey
  <1>3. /\ call' \in CallRecord /\ call'.op = op /\ call'.step = "private" /\ call'.path = k
        /\ call'.old \in Pair /\ call'.record = durable[k] /\ call'.new = m
    BY <1>0, <1>1, <1>2, TypesOf DEF CallRecord
  <1>4. UNCHANGED <<durable, initialized, config, priv, pub, migrating, ready, prep, env, shared,
                    gen, told, gone>>
    BY DEF ChangeKey, disk, preparing, ghosts
  <1>5. KeyFrame
    BY <1>4, TypesOf DEF KeyFrame
  <1>6. Types'
    BY <1>2, <1>3, <1>4, <1>5, TypesOf, KeyTypes DEF Outcome
  <1>7. BootInv' /\ LegacyInv' /\ PrepInv' /\ ConfigInv'
    BY <1>0, <1>5, KeyFrameInv
  <1>8. KeptInv'
    BY <1>4, KeptFrame DEF IInv
  <1>9. CallInv'
    BY <1>0, <1>1, <1>3, <1>4
    DEF CallInv, ConfigCall, KeyCall, ImportCall, ChangeCall, DeleteCall, Changing
  <1> QED
    BY <1>6, <1>7, <1>8, <1>9 DEF IInv

\* A change goes on.
LEMMA ChangeGoes ==
    ASSUME ChangeCall, call.op \in Changing, call.path \in Key,
           NEW step \in {"public", "capture", "revert"}, GoTo(step), Types,
           UNCHANGED <<durable, gone>>
    PROVE  CallInv' /\ call' \in CallRecord /\ outcome' = outcome
  <1>1. /\ call' \in CallRecord /\ call'.step = step /\ call'.op = call.op
        /\ call'.path = call.path /\ call'.new = call.new /\ call'.old = call.old
        /\ call'.record = call.record /\ outcome' = outcome
    BY GoToFacts DEF CallStepName
  <1> QED
    BY <1>1 DEF CallInv, ConfigCall, KeyCall, ImportCall, ChangeCall, DeleteCall, Changing

\* A change of a key: its files are there, its call knows the pair it found.
LEMMA ChangeFacts ==
    ASSUME IInv, call.op \in Changing
    PROVE  /\ call.path \in Key /\ call.new \in Material /\ call.old \in Pair
           /\ gone[call.path] # "yes" /\ ChangeCall /\ Types /\ ready /\ shared # None
  BY CallRuns DEF IInv, CallInv, ChangeCall, KeyCall, Changing

LEMMA ChangeReplacesPrivateStep ==
    ASSUME IInv, ChangeReplacesPrivate
    PROVE  IInv'
  <1>0. /\ call.op \in Changing /\ call.path \in Key /\ call.new \in Material
        /\ gone[call.path] # "yes" /\ ChangeCall /\ Types /\ ready /\ shared # None
    BY ChangeFacts DEF ChangeReplacesPrivate
  <1>1. UNCHANGED <<durable, initialized, config, pub, migrating, ready, prep, env, shared,
                    gen, told, gone>>
    BY DEF ChangeReplacesPrivate, preparing, ghosts
  <1>2. /\ priv' \in FileType /\ pub' \in FileType
        /\ \A j \in Key \ {call.path} : priv'[j] = priv[j] /\ pub'[j] = pub[j]
    BY <1>0, <1>1, TypesOf DEF ChangeReplacesPrivate, FileType
  <1>3. CallInv' /\ call' \in CallRecord /\ outcome' \in Outcome
    BY <1>0, <1>1, ChangeGoes, EndTyped, TypesOf DEF ChangeReplacesPrivate, Outcome
  <1> QED
    BY <1>0, <1>1, <1>2, <1>3, FilesOfCall

LEMMA ChangeReplacesPublicStep ==
    ASSUME IInv, ChangeReplacesPublic
    PROVE  IInv'
  <1>0. /\ call.op \in Changing /\ call.path \in Key /\ call.new \in Material
        /\ call.old.priv \in Material \cup {Broken}
        /\ gone[call.path] # "yes" /\ ChangeCall /\ Types /\ ready /\ shared # None
    BY ChangeFacts, PairIs DEF ChangeReplacesPublic, At, Changing
  <1>1. UNCHANGED <<durable, initialized, config, migrating, ready, prep, env, shared,
                    gen, told, gone>>
    BY DEF ChangeReplacesPublic, preparing, ghosts
  <1>2. /\ priv' \in FileType /\ pub' \in FileType
        /\ \A j \in Key \ {call.path} : priv'[j] = priv[j] /\ pub'[j] = pub[j]
    BY <1>0, <1>1, TypesOf DEF ChangeReplacesPublic, FileType
  <1>3. CallInv' /\ call' \in CallRecord /\ outcome' \in Outcome
    BY <1>0, <1>1, ChangeGoes, EndTyped, TypesOf DEF ChangeReplacesPublic, Outcome
  <1> QED
    BY <1>0, <1>1, <1>2, <1>3, FilesOfCall

LEMMA ChangeRevertsStep ==
    ASSUME IInv, ChangeReverts
    PROVE  IInv'
  <1>0. /\ call.op \in Changing /\ call.path \in Key /\ call.old \in Pair
        /\ gone[call.path] # "yes" /\ Types /\ TypeOK /\ ready /\ shared # None
    BY ChangeFacts, TypesOf DEF ChangeReverts
  <1>1. UNCHANGED <<durable, initialized, config, migrating, ready, prep, env, shared,
                    gen, told, gone>>
    BY DEF ChangeReverts, preparing, ghosts
  <1>2. /\ priv' \in FileType /\ pub' \in FileType
        /\ \A j \in Key \ {call.path} : priv'[j] = priv[j] /\ pub'[j] = pub[j]
    <2>1. call.old.priv \in Material \cup {Broken} /\ call.old.pub \in Material \cup {Broken}
      BY <1>0, PairIs
    <2> QED
      BY <1>0, <2>1, TypesOf DEF ChangeReverts, FileType
  <1>3. CallInv' /\ call' \in CallRecord /\ outcome' \in Outcome
    BY EndTyped DEF ChangeReverts, Outcome
  <1> QED
    BY <1>0, <1>1, <1>2, <1>3, FilesOfCall

LEMMA ChangeCapturesStep ==
    ASSUME IInv, ChangeCaptures
    PROVE  IInv'
  <1>0. /\ call.op \in Changing /\ call.path \in Key
        /\ gone[call.path] # "yes" /\ ChangeCall /\ Types /\ ready /\ shared # None
    BY ChangeFacts DEF ChangeCaptures
  <1>1. UNCHANGED <<initialized, config, priv, pub, migrating, ready, prep, env, shared, gen, gone>>
    BY DEF ChangeCaptures, files, preparing
  <1>2. CallInv' /\ call' \in CallRecord /\ outcome' \in Outcome
    BY <1>0, <1>1, ChangeGoes, EndTyped, TypesOf DEF ChangeCaptures, Outcome
  <1>3. (Capturable(call.path) /\ Captured(call.path)) \/ UNCHANGED <<durable, told>>
    BY DEF ChangeCaptures
  <1>4. /\ KeyFrame /\ told' \in [Key -> {None} \cup Pair]
        /\ (\A j \in Key : durable'[j] \in {None} \cup Pair) /\ KeptInv'
    BY <1>0, <1>1, <1>3, CaptureFrame
  <1>5. Types'
    BY <1>1, <1>2, <1>4, TypesOf, KeyTypes
  <1>6. BootInv' /\ LegacyInv' /\ PrepInv' /\ ConfigInv'
    BY <1>0, <1>4, KeyFrameInv
  <1> QED
    BY <1>2, <1>4, <1>5, <1>6 DEF IInv
-----------------------------------------------------------------------------
(* deleteKey                                                                *)

LEMMA DeleteKeyStep ==
    ASSUME IInv, NEW p \in Pane, NEW k \in Key, DeleteKey(p, k)
    PROVE  IInv'
  <1>0. ready /\ shared # None /\ k \in Path
    BY UserReady, Unfold DEF IInv, DeleteKey
  <1>1. /\ call' \in CallRecord /\ call'.op = "delete" /\ call'.step = "private"
        /\ call'.path = k /\ call'.old = durable[k] /\ call'.record = durable[k]
        /\ outcome' = "none"
    <2>1. Begin("delete", "private", k, None) /\ Types
      BY DEF DeleteKey, IInv
    <2>2. "private" \in CallStepName /\ None \in {None, Broken} \cup Text \cup Material
      BY DEF CallStepName
    <2> QED
      BY <1>0, <2>1, <2>2, BeginFacts
  <1>2. UNCHANGED <<durable, initialized, config, priv, pub, migrating, ready, prep, env, shared,
                    gen>>
    BY DEF DeleteKey, disk, preparing
  <1>3. /\ told' \in [Key -> {None} \cup Pair] /\ gone' \in [Key -> {"no", "deleting", "yes"}]
        /\ told'[k] = None /\ gone'[k] = "deleting"
        /\ \A j \in Key \ {k} : told'[j] = told[j] /\ gone'[j] = gone[j]
    BY TypesOf DEF DeleteKey
  <1>4. KeyFrame
    BY <1>2, TypesOf DEF KeyFrame
  <1>5. Types'
    BY <1>1, <1>2, <1>3, <1>4, TypesOf, KeyTypes DEF Outcome
  <1>6. BootInv' /\ LegacyInv' /\ PrepInv' /\ ConfigInv'
    BY <1>0, <1>4, KeyFrameInv
  <1>7. KeptInv'
    BY <1>2, <1>3 DEF IInv, KeptInv, Absent
  <1>8. CallInv'
    <2>1. durable[k] \in {None} \cup Pair
      BY TypesOf
    <2> QED
      BY <1>1, <1>2, <1>3, <2>1
      DEF CallInv, ConfigCall, KeyCall, ImportCall, ChangeCall, DeleteCall, Changing
  <1> QED
    BY <1>5, <1>6, <1>7, <1>8 DEF IInv

\* Of a call that is a deletion only DeleteCall speaks.
LEMMA DeleteCallOnly ==
    ASSUME call'.op = "delete", call'.path \in Key, DeleteCall'
    PROVE  CallInv'
  BY DEF CallInv, ConfigCall, KeyCall, ImportCall, ChangeCall, Changing

LEMMA DeleteFacts ==
    ASSUME IInv, call.op = "delete"
    PROVE  /\ call.path \in Key /\ call.old \in {None} \cup Pair
           /\ told[call.path] = None /\ gone[call.path] # "yes"
           /\ DeleteCall /\ Types /\ ready /\ shared # None
  BY CallRuns DEF IInv, CallInv, DeleteCall, KeyCall

\* A failure before the record is touched: back to the pair as it was.
LEMMA DeleteFailsFacts ==
    ASSUME IInv, call.op = "delete", call.step \in {"private", "public"}, DeleteFails,
           UNCHANGED <<durable, told, gone>>
    PROVE  CallInv' /\ call' \in CallRecord /\ outcome' \in Outcome
  <1>1. CASE call.old = None
    BY <1>1, EndTyped DEF DeleteFails, Outcome
  <1>2. CASE call.old # None
    <2>1. GoTo("restoreFiles") /\ Types /\ "restoreFiles" \in CallStepName
      BY <1>2 DEF DeleteFails, CallStepName, IInv
    <2>2. /\ call' \in CallRecord /\ call'.step = "restoreFiles" /\ call'.op = "delete"
          /\ call'.path = call.path /\ call'.old = call.old
          /\ call'.record = call.record /\ outcome' = outcome
      BY <2>1, GoToFacts
    <2>3. DeleteCall'
      BY <1>2, <2>2, DeleteFacts DEF DeleteCall
    <2> QED
      BY <2>2, <2>3, DeleteFacts, DeleteCallOnly, TypesOf
  <1> QED
    BY <1>1, <1>2

LEMMA DeletePrivateStep ==
    ASSUME IInv, DeletePrivate
    PROVE  IInv'
  <1>0. /\ call.op = "delete" /\ call.step = "private" /\ call.path \in Key
        /\ gone[call.path] # "yes" /\ DeleteCall /\ Types /\ ready /\ shared # None
    BY DeleteFacts DEF DeletePrivate, At
  <1>1. UNCHANGED <<durable, initialized, config, pub, migrating, ready, prep, env, shared,
                    gen, told, gone>>
    BY DEF DeletePrivate, preparing, ghosts
  <1>2. /\ priv' \in FileType /\ pub' \in FileType
        /\ \A j \in Key \ {call.path} : priv'[j] = priv[j] /\ pub'[j] = pub[j]
    BY <1>0, <1>1, TypesOf DEF DeletePrivate, FileType
  <1>3. CallInv' /\ call' \in CallRecord /\ outcome' \in Outcome
    <2>1. CASE priv' = [priv EXCEPT ![call.path] = None] /\ GoTo("public")
      <3>1. priv'[call.path] = None
        BY <1>0, <2>1, TypesOf DEF FileType
      <3>2. /\ call' \in CallRecord /\ call'.step = "public" /\ call'.op = "delete"
            /\ call'.path = call.path /\ call'.old = call.old
            /\ call'.record = call.record /\ outcome' = outcome
        BY <1>0, <2>1, GoToFacts DEF CallStepName
      <3>3. DeleteCall'
        BY <1>0, <1>1, <3>1, <3>2 DEF DeleteCall
      <3> QED
        BY <1>0, <3>2, <3>3, DeleteCallOnly, TypesOf
    <2>2. CASE DeleteFails
      BY <1>0, <1>1, <2>2, DeleteFailsFacts
    <2> QED
      BY <2>1, <2>2 DEF DeletePrivate
  <1> QED
    BY <1>0, <1>1, <1>2, <1>3, FilesOfCall

LEMMA DeletePublicStep ==
    ASSUME IInv, DeletePublic
    PROVE  IInv'
  <1>0. /\ call.op = "delete" /\ call.step = "public" /\ call.path \in Key
        /\ gone[call.path] # "yes" /\ DeleteCall /\ Types /\ ready /\ shared # None
    BY DeleteFacts DEF DeletePublic, At
  <1>1. UNCHANGED <<durable, initialized, config, priv, migrating, ready, prep, env, shared,
                    gen, told>>
    BY DEF DeletePublic, preparing
  <1>2. CASE DeleteFails /\ UNCHANGED <<pub, gone>>
    <2>1. CallInv' /\ call' \in CallRecord /\ outcome' \in Outcome
      BY <1>0, <1>1, <1>2, DeleteFailsFacts
    <2> QED
      BY <1>0, <1>1, <1>2, <2>1, FilesOfCall, TypesOf
  <1>3. CASE pub' = [pub EXCEPT ![call.path] = None] /\ call.old # None /\ GoTo("durable")
             /\ UNCHANGED gone
    <2>1. /\ pub' \in FileType /\ pub'[call.path] = None
          /\ \A j \in Key \ {call.path} : pub'[j] = pub[j]
      BY <1>0, <1>3, TypesOf DEF FileType
    <2>2. /\ call' \in CallRecord /\ call'.step = "durable" /\ call'.op = "delete"
          /\ call'.path = call.path /\ call'.old = call.old
          /\ call'.record = call.record /\ outcome' = outcome
      BY <1>0, <1>3, GoToFacts DEF CallStepName
    <2>3. DeleteCall'
      BY <1>0, <1>1, <1>3, <2>1, <2>2 DEF DeleteCall
    <2>4. CallInv' /\ outcome' \in Outcome
      BY <1>0, <2>2, <2>3, DeleteCallOnly, TypesOf
    <2> QED
      BY <1>0, <1>1, <1>3, <2>1, <2>2, <2>4, FilesOfCall, TypesOf
  <1>4. CASE pub' = [pub EXCEPT ![call.path] = None] /\ call.old = None
             /\ Deleted(call.path) /\ End("ok")
    <2>1. /\ pub' \in FileType /\ pub'[call.path] = None
          /\ \A j \in Key \ {call.path} : pub'[j] = pub[j]
      BY <1>0, <1>4, TypesOf DEF FileType
    <2>2. CallInv' /\ call' \in CallRecord /\ call'.op = "none" /\ outcome' \in Outcome
      BY <1>4, EndTyped DEF Outcome
    <2>3. /\ gone' \in [Key -> {"no", "deleting", "yes"}]
          /\ \A j \in Key \ {call.path} : gone'[j] = gone[j]
          /\ gone'[call.path] = "yes" => gone[call.path] = "deleting"
      BY <1>0, <1>4, TypesOf DEF Deleted
    <2>4. gone[call.path] = "deleting" => durable[call.path] = None /\ priv[call.path] = None
      BY <1>0, <1>4 DEF DeleteCall
    <2>5. KeyFrame
      BY <1>1, TypesOf DEF KeyFrame
    <2>6. Types'
      BY <1>1, <2>1, <2>2, <2>3, <2>5, TypesOf, KeyTypes
    <2>7. BootInv' /\ LegacyInv' /\ PrepInv' /\ ConfigInv'
      BY <1>0, <2>5, KeyFrameInv
    <2>8. KeptInv'
      BY <1>1, <2>1, <2>3, <2>4 DEF IInv, KeptInv, Absent
    <2> QED
      BY <2>2, <2>6, <2>7, <2>8 DEF IInv
  <1> QED
    BY <1>2, <1>3, <1>4 DEF DeletePublic

\* The record of a key that is being deleted changes, its files do not.
LEMMA RecordOfCall ==
    ASSUME IInv, ready, shared # None, call.path \in Key,
           UNCHANGED <<initialized, config, priv, pub, migrating, ready, prep, env, shared, gen,
                       told>>,
           told[call.path] = None,
           durable' = durable \/ \E v \in {None} \cup Pair : durable' = [durable EXCEPT ![call.path] = v],
           gone' \in [Key -> {"no", "deleting", "yes"}],
           \A j \in Key \ {call.path} : gone'[j] = gone[j],
           gone'[call.path] = "yes" => durable'[call.path] = None /\ Absent(call.path),
           CallInv', call' \in CallRecord, outcome' \in Outcome
    PROVE  IInv'
  <1>1. /\ DOMAIN durable' = Path /\ durable'[Config] = durable[Config]
        /\ (\A j \in Key : durable'[j] \in {None} \cup Pair)
        /\ \A j \in Key \ {call.path} : durable'[j] = durable[j]
    BY TypesOf, Unfold
  <1>2. KeyFrame
    BY <1>1 DEF KeyFrame
  <1>3. Types'
    BY <1>1, <1>2, TypesOf, KeyTypes
  <1>4. BootInv' /\ LegacyInv' /\ PrepInv' /\ ConfigInv'
    BY <1>2, KeyFrameInv
  <1>5. KeptInv'
    BY <1>1 DEF IInv, KeptInv, Absent
  <1> QED
    BY <1>3, <1>4, <1>5 DEF IInv

LEMMA DeleteRecordStep ==
    ASSUME IInv, DeleteRecord
    PROVE  IInv'
  <1>0. /\ call.op = "delete" /\ call.step = "durable" /\ call.path \in Key
        /\ call.old # None /\ told[call.path] = None
        /\ gone[call.path] # "yes" /\ DeleteCall /\ Types /\ ready /\ shared # None
    BY DeleteFacts DEF DeleteRecord, DeleteCall, At
  <1>1. UNCHANGED <<initialized, config, priv, pub, migrating, ready, prep, env, shared, gen, told>>
    BY DEF DeleteRecord, files, preparing
  <1>2. CASE durable' = [durable EXCEPT ![call.path] = None] /\ Deleted(call.path) /\ End("ok")
    <2>1. CallInv' /\ call' \in CallRecord /\ outcome' \in Outcome
      BY <1>2, EndTyped DEF Outcome
    <2>2. /\ gone' \in [Key -> {"no", "deleting", "yes"}]
          /\ \A j \in Key \ {call.path} : gone'[j] = gone[j]
          /\ gone'[call.path] = "yes" => gone[call.path] = "deleting"
      BY <1>0, <1>2, TypesOf DEF Deleted
    <2>3. gone[call.path] = "deleting" => Absent(call.path)
      BY <1>0 DEF DeleteCall, Absent
    <2>4. durable'[call.path] = None
      BY <1>0, <1>2, TypesOf, Unfold
    <2> QED
      BY <1>0, <1>1, <1>2, <2>1, <2>2, <2>3, <2>4, RecordOfCall
  <1>3. CASE /\ durable' \in {durable, [durable EXCEPT ![call.path] = None]}
             /\ GoTo("restoreRecord") /\ UNCHANGED gone
    <2>1. /\ call' \in CallRecord /\ call'.step = "restoreRecord" /\ call'.op = "delete"
          /\ call'.path = call.path /\ call'.old = call.old
          /\ call'.record = call.record /\ outcome' = outcome
      BY <1>0, <1>3, GoToFacts DEF CallStepName
    <2>2. DeleteCall'
      BY <1>0, <1>1, <1>3, <2>1 DEF DeleteCall
    <2>3. CallInv' /\ outcome' \in Outcome
      BY <1>0, <2>1, <2>2, DeleteCallOnly, TypesOf
    <2> QED
      BY <1>0, <1>1, <1>3, <2>1, <2>3, RecordOfCall, TypesOf
  <1> QED
    BY <1>2, <1>3 DEF DeleteRecord

LEMMA DeleteRestoresRecordStep ==
    ASSUME IInv, DeleteRestoresRecord
    PROVE  IInv'
  <1>0. /\ call.op = "delete" /\ call.step = "restoreRecord" /\ call.path \in Key
        /\ call.old # None /\ call.old \in Pair /\ told[call.path] = None
        /\ gone[call.path] # "yes" /\ DeleteCall /\ Types /\ ready /\ shared # None
    BY DeleteFacts DEF DeleteRestoresRecord, DeleteCall, At
  <1>1. UNCHANGED <<initialized, config, priv, pub, migrating, ready, prep, env, shared, gen, told,
                    gone>>
    BY DEF DeleteRestoresRecord, files, preparing, ghosts
  <1>2. \E step \in {"restoreFiles", "restoreFilesOnly"} :
            /\ GoTo(step)
            /\ step = "restoreFiles" => durable' = [durable EXCEPT ![call.path] = call.old]
            /\ step = "restoreFilesOnly" => durable' = durable
    BY DEF DeleteRestoresRecord
  <1>3. PICK step \in {"restoreFiles", "restoreFilesOnly"} :
            /\ GoTo(step)
            /\ step = "restoreFiles" => durable' = [durable EXCEPT ![call.path] = call.old]
            /\ step = "restoreFilesOnly" => durable' = durable
    BY <1>2
  <1>4. /\ call' \in CallRecord /\ call'.step = step /\ call'.op = "delete"
        /\ call'.path = call.path /\ call'.old = call.old
        /\ call'.record = call.record /\ outcome' = outcome
    BY <1>0, <1>3, GoToFacts DEF CallStepName
  <1>5. step = "restoreFiles" => durable'[call.path] = call.old
    BY <1>0, <1>3, TypesOf, Unfold
  <1>6. DeleteCall'
    BY <1>0, <1>1, <1>4, <1>5 DEF DeleteCall
  <1>7. CallInv' /\ outcome' \in Outcome
    BY <1>0, <1>4, <1>6, DeleteCallOnly, TypesOf
  <1> QED
    BY <1>0, <1>1, <1>3, <1>4, <1>7, RecordOfCall, TypesOf

LEMMA DeleteRestoresFilesStep ==
    ASSUME IInv, DeleteRestoresFiles
    PROVE  IInv'
  <1>0. /\ call.op = "delete" /\ call.step \in {"restoreFiles", "restoreFilesOnly"}
        /\ call.path \in Key /\ call.old \in Pair
        /\ call.step = "restoreFiles" => durable[call.path] = call.old
        /\ gone[call.path] # "yes" /\ Types /\ TypeOK /\ ready /\ shared # None
    BY DeleteFacts, TypesOf DEF DeleteRestoresFiles, DeleteCall
  <1>1. UNCHANGED <<durable, initialized, config, migrating, ready, prep, env, shared, gen, gone>>
    BY DEF DeleteRestoresFiles, preparing
  <1>2. /\ priv' \in FileType /\ pub' \in FileType
        /\ \A j \in Key \ {call.path} : priv'[j] = priv[j] /\ pub'[j] = pub[j]
    BY <1>0, TypesOf, PairWrittenFacts, PairPartlyWrittenFacts DEF DeleteRestoresFiles, FileType
  <1>3. CallInv' /\ call' \in CallRecord /\ call'.op = "none" /\ outcome' \in Outcome
    BY EndTyped DEF DeleteRestoresFiles, Outcome
  <1>4. /\ told' \in [Key -> {None} \cup Pair]
        /\ \A j \in Key : told'[j] = told[j] \/ told'[j] = durable[j]
    BY <1>0, TypesOf DEF DeleteRestoresFiles
  <1>5. KeyFrame
    BY <1>1, TypesOf DEF KeyFrame
  <1>6. Types'
    BY <1>1, <1>2, <1>3, <1>4, <1>5, TypesOf, KeyTypes
  <1>7. BootInv' /\ LegacyInv' /\ PrepInv' /\ ConfigInv'
    BY <1>0, <1>3, <1>5, KeyFrameInv
  <1>8. KeptInv'
    BY <1>0, <1>1, <1>2, <1>4 DEF IInv, KeptInv, Absent
  <1> QED
    BY <1>3, <1>6, <1>7, <1>8 DEF IInv
-----------------------------------------------------------------------------
(* generateKeyPair: beside everything else.                                 *)

GenTyped ==
    /\ gen \in [Pane -> GenRecord]
    /\ \A p \in Pane : gen[p].step # "idle" => gen[p].key \in Key /\ gen[p].new \in Material

LEMMA GenGoesToFacts ==
    ASSUME IInv, NEW p \in Pane, gen[p].step # "idle",
           NEW step \in {"idle", "private", "public", "capture"}, GenGoesTo(p, step)
    PROVE  GenTyped'
  <1>1. GenTyped
    BY TypesOf DEF GenTyped
  <1>2. NoGen \in GenRecord /\ NoGen.step = "idle"
    BY DEF NoGen, GenRecord
  <1>3. CASE step = "idle"
    BY <1>1, <1>2, <1>3 DEF GenGoesTo, GenTyped
  <1>4. CASE step # "idle"
    <2> DEFINE g == [gen[p] EXCEPT !.step = step]
    <2>1. g \in GenRecord /\ g.key = gen[p].key /\ g.new = gen[p].new
      BY <1>1 DEF GenTyped, GenRecord
    <2>2. gen' = [gen EXCEPT ![p] = g]
      BY <1>4 DEF GenGoesTo
    <2> HIDE DEF g
    <2> QED
      BY <1>1, <2>1, <2>2 DEF GenTyped
  <1> QED
    BY <1>3, <1>4

LEMMA GenRuns ==
    ASSUME IInv, NEW p \in Pane, gen[p].step # "idle"
    PROVE  ready /\ initialized /\ gen[p].key \in Key /\ gen[p].new \in Material
  BY TypesOf DEF IInv, BootInv

LEMMA GenerateStep ==
    ASSUME IInv, NEW p \in Pane, NEW k \in Key, NEW m \in Material, Generate(p, k, m)
    PROVE  IInv'
  <1>0. ready /\ shared # None
    BY UserReady DEF IInv, Generate
  <1>1. UNCHANGED <<durable, initialized, config, priv, pub, migrating, ready, prep, env, shared,
                    call, outcome, told, gone>>
    BY DEF Generate, disk, preparing, ghosts
  <1>2. GenTyped'
    <2> DEFINE g == [step |-> "private", key |-> k, new |-> m]
    <2>1. g \in GenRecord /\ g.key \in Key /\ g.new \in Material
      BY DEF GenRecord
    <2>2. gen' = [gen EXCEPT ![p] = g]
      BY DEF Generate
    <2> HIDE DEF g
    <2> QED
      BY <2>1, <2>2, TypesOf DEF GenTyped
  <1>3. KeyFrame
    BY <1>1, TypesOf DEF KeyFrame
  <1>4. Types'
    BY <1>1, <1>2, <1>3, TypesOf, KeyTypes DEF GenTyped
  <1>5. BootInv' /\ LegacyInv' /\ PrepInv' /\ ConfigInv'
    BY <1>0, <1>3, KeyFrameInv
  <1> QED
    BY <1>1, <1>4, <1>5, KeptFrame, CallFrame DEF IInv

\* A generation writes files: where it makes one the deletion reported before is
\* forgotten, elsewhere it can only remove.
LEMMA GenFiles ==
    ASSUME IInv, ready, GenTyped',
           UNCHANGED <<durable, initialized, config, migrating, ready, prep, env, shared,
                       call, outcome, told>>,
           priv' \in FileType, pub' \in FileType, gone' \in [Key -> {"no", "deleting", "yes"}],
           \A j \in Key : \/ gone'[j] = "no"
                          \/ gone'[j] = gone[j] /\ priv'[j] \in {priv[j], None}
                             /\ pub'[j] \in {pub[j], None}
    PROVE  IInv'
  <1>1. KeyFrame
    BY TypesOf DEF KeyFrame
  <1>2. Types'
    BY <1>1, TypesOf, KeyTypes DEF GenTyped
  <1>3. BootInv' /\ LegacyInv' /\ PrepInv' /\ ConfigInv'
    BY <1>1, KeyFrameInv DEF IInv, BootInv
  <1>4. KeptInv'
    BY DEF IInv, KeptInv, Absent
  <1>5. CallInv'
    <2>1. CallInv
      BY DEF IInv
    <2>2. ConfigCall' /\ KeyCall'
      BY <2>1 DEF CallInv, ConfigCall, KeyCall
    <2>3. ImportCall' /\ ChangeCall'
      BY <2>1 DEF CallInv, ImportCall, ChangeCall, KeyCall, Changing
    <2>4. DeleteCall'
      BY <2>1 DEF CallInv, DeleteCall, KeyCall
    <2> QED
      BY <2>2, <2>3, <2>4 DEF CallInv
  <1> QED
    BY <1>2, <1>3, <1>4, <1>5 DEF IInv

LEMMA GenWritesPrivateStep ==
    ASSUME IInv, NEW p \in Pane, GenWritesPrivate(p)
    PROVE  IInv'
  <1> DEFINE k == gen[p].key
             m == gen[p].new
  <1>0. ready /\ k \in Key /\ m \in Material /\ gen[p].step # "idle"
    BY GenRuns DEF GenWritesPrivate
  <1>1. UNCHANGED <<durable, initialized, config, pub, migrating, ready, prep, env, shared,
                    call, outcome, told>>
    BY DEF GenWritesPrivate, preparing
  <1>2. GenTyped'
    BY <1>0, GenGoesToFacts DEF GenWritesPrivate
  <1>3. \/ /\ \E v \in Material \cup {Broken} : priv' = [priv EXCEPT ![k] = v]
           /\ gone' = [gone EXCEPT ![k] = "no"]
        \/ UNCHANGED <<priv, gone>>
    BY <1>0 DEF GenWritesPrivate
  <1> HIDE DEF k, m
  <1>4. /\ priv' \in FileType /\ gone' \in [Key -> {"no", "deleting", "yes"}]
        /\ \A j \in Key : gone'[j] = "no" \/ (gone'[j] = gone[j] /\ priv'[j] = priv[j])
    BY <1>0, <1>3, TypesOf DEF FileType
  <1> QED
    BY <1>0, <1>1, <1>2, <1>4, TypesOf, GenFiles

LEMMA GenWritesPublicStep ==
    ASSUME IInv, NEW p \in Pane, GenWritesPublic(p)
    PROVE  IInv'
  <1> DEFINE k == gen[p].key
             m == gen[p].new
  <1>0. ready /\ k \in Key /\ m \in Material /\ gen[p].step # "idle"
    BY GenRuns DEF GenWritesPublic
  <1>1. UNCHANGED <<durable, initialized, config, migrating, ready, prep, env, shared,
                    call, outcome, told>>
    BY DEF GenWritesPublic, preparing
  <1>2. GenTyped'
    BY <1>0, GenGoesToFacts DEF GenWritesPublic
  <1>3. \/ pub' = [pub EXCEPT ![k] = m] /\ gone' = [gone EXCEPT ![k] = "no"] /\ priv' = priv
        \/ /\ pub' \in {pub, [pub EXCEPT ![k] = IF @ = None THEN Broken ELSE @]}
           /\ \E left \in AfterRemoval(priv[k]) : priv' = [priv EXCEPT ![k] = left]
           /\ gone' = IF pub' = pub THEN gone ELSE [gone EXCEPT ![k] = "no"]
    BY DEF GenWritesPublic
  <1> HIDE DEF k, m
  <1>4. /\ priv' \in FileType /\ pub' \in FileType
        /\ gone' \in [Key -> {"no", "deleting", "yes"}]
        /\ \A j \in Key : \/ gone'[j] = "no"
                          \/ gone'[j] = gone[j] /\ priv'[j] \in {priv[j], None}
                             /\ pub'[j] \in {pub[j], None}
    <2>1. CASE pub' = [pub EXCEPT ![k] = m] /\ gone' = [gone EXCEPT ![k] = "no"] /\ priv' = priv
      BY <1>0, <2>1, TypesOf DEF FileType
    <2>2. CASE /\ pub' \in {pub, [pub EXCEPT ![k] = IF @ = None THEN Broken ELSE @]}
               /\ \E left \in AfterRemoval(priv[k]) : priv' = [priv EXCEPT ![k] = left]
               /\ gone' = IF pub' = pub THEN gone ELSE [gone EXCEPT ![k] = "no"]
      <3>1. priv' \in FileType /\ \A j \in Key : priv'[j] \in {priv[j], None}
        <4>1. PICK left \in AfterRemoval(priv[k]) : priv' = [priv EXCEPT ![k] = left]
          BY <2>2
        <4>2. left \in {None, priv[k]}
          BY <4>1 DEF AfterRemoval
        <4> QED
          BY <1>0, <4>1, <4>2, TypesOf DEF FileType
      <3>2. pub' \in FileType
        BY <1>0, <2>2, TypesOf DEF FileType
      <3>3. CASE pub' = pub
        BY <2>2, <3>1, <3>2, <3>3, TypesOf
      <3>4. CASE pub' # pub
        <4>1. gone' = [gone EXCEPT ![k] = "no"]
          BY <2>2, <3>4
        <4>2. pub' = [pub EXCEPT ![k] = IF @ = None THEN Broken ELSE @]
          BY <2>2, <3>4
        <4>3. \A j \in Key \ {k} : pub'[j] = pub[j]
          BY <1>0, <4>2, TypesOf DEF FileType
        <4> QED
          BY <1>0, <3>1, <3>2, <4>1, <4>3, TypesOf
      <3> QED
        BY <3>3, <3>4
    <2> QED
      BY <1>3, <2>1, <2>2
  <1> QED
    BY <1>0, <1>1, <1>2, <1>4, TypesOf, GenFiles

LEMMA GenCapturesStep ==
    ASSUME IInv, NEW p \in Pane, GenCaptures(p)
    PROVE  IInv'
  <1> DEFINE k == gen[p].key
  <1>0. ready /\ k \in Key /\ gen[p].step # "idle" /\ call.op = "none"
    BY GenRuns DEF GenCaptures, ThreadFree
  <1>1. UNCHANGED <<initialized, config, migrating, ready, prep, env, shared, call, outcome, gone>>
    BY DEF GenCaptures, preparing
  <1>2. GenTyped'
    BY <1>0, GenGoesToFacts DEF GenCaptures
  <1>3. \/ Capturable(k) /\ Captured(k) /\ UNCHANGED <<priv, pub>>
        \/ Discarded(k) /\ UNCHANGED <<durable, told>>
        \/ UNCHANGED <<durable, told, priv, pub>>
    BY DEF GenCaptures
  <1> HIDE DEF k
  <1>4. CASE Discarded(k) /\ UNCHANGED <<durable, told>>
    <2>1. /\ priv' \in FileType /\ pub' \in FileType
          /\ \A j \in Key : priv'[j] \in {priv[j], None} /\ pub'[j] \in {pub[j], None}
      BY <1>0, <1>4, DiscardedFacts
    <2> QED
      BY <1>0, <1>1, <1>2, <1>4, <2>1, TypesOf, GenFiles
  <1>5. CASE Capturable(k) /\ Captured(k) /\ UNCHANGED <<priv, pub>>
    <2>1. gone[k] # "yes"
      BY <1>0, <1>5 DEF IInv, KeptInv, Absent, Capturable
    <2>2. /\ KeyFrame /\ told' \in [Key -> {None} \cup Pair]
          /\ (\A j \in Key : durable'[j] \in {None} \cup Pair) /\ KeptInv'
      BY <1>0, <1>1, <1>5, <2>1, CaptureFrame
    <2>3. Types'
      BY <1>1, <1>2, <1>5, <2>2, TypesOf, KeyTypes DEF GenTyped
    <2>4. BootInv' /\ LegacyInv' /\ PrepInv' /\ ConfigInv'
      BY <1>0, <1>1, <2>2, KeyFrameInv
    <2> QED
      BY <1>0, <1>1, <2>2, <2>3, <2>4, NoCallInv DEF IInv
  <1>6. CASE UNCHANGED <<durable, told, priv, pub>>
    BY <1>0, <1>1, <1>2, <1>6, TypesOf, GenFiles
  <1> QED
    BY <1>3, <1>4, <1>5, <1>6

-----------------------------------------------------------------------------
(* The invariant holds.                                                     *)

LEMMA InitInv ==
    ASSUME Init
    PROVE  IInv
  <1>1. prep \in PrepRecord /\ prep.step = "idle"
    BY NoPrepTyped DEF Init
  <1>2. call \in CallRecord /\ call.op = "none" /\ call.path \in Path
    BY Unfold DEF Init, NoCall, CallRecord
  <1>3. GenTyped /\ \A p \in Pane : gen[p].step = "idle" /\ gen[p].key \in {None} \cup Key
    BY DEF Init, NoGen, GenRecord, GenTyped
  <1>4. /\ config \in {None} \cup Text /\ initialized \in BOOLEAN
        /\ migrating = ~initialized /\ ready = FALSE /\ outcome = "none"
        /\ env = [p \in Pane |-> "cold"] /\ shared = None /\ gone = [k \in Key |-> "no"]
        /\ told = [k \in Key |-> IF initialized THEN durable[k]
                                 ELSE IF priv[k] = None THEN None ELSE FileOf(k)]
    BY DEF Init
  <1>5. CASE /\ initialized = FALSE
             /\ durable = [p \in Path |-> None]
             /\ \E m \in [Key -> {None} \cup Material] : priv = m /\ pub = m
    <2>1. /\ DOMAIN durable = Path /\ \A p \in Path : durable[p] = None
          /\ priv \in FileType /\ pub = priv
          /\ \A k \in Key : priv[k] \in {None} \cup Material
      BY <1>5 DEF FileType
    <2>2. told \in [Key -> {None} \cup Pair]
      BY <1>4, <1>5, <2>1 DEF FileOf, Pair
    <2>3. Types
      BY <1>1, <1>2, <1>3, <1>4, <2>1, <2>2
      DEF Types, TypeOK, GenTyped, FileType, PrepRecord
    <2>4. ASSUME NEW k \in Key
          PROVE  LegacyKey(k)
      <3>1. /\ told[k] = IF priv[k] = None THEN None ELSE FileOf(k)
            /\ gone[k] = "no" /\ durable[k] = None /\ pub[k] = priv[k]
        BY <1>4, <1>5, <2>1, Unfold
      <3>2. priv[k] # None => priv[k] \in Material /\ FileOf(k) # None
        BY <2>1, Unfold DEF FileOf, Pair
      <3> QED
        BY <3>1, <3>2 DEF LegacyKey, Absent
    <2>5. LegacyInv /\ KeptInv
      BY <1>4, <1>5, <2>1, <2>4, Unfold DEF LegacyInv, KeptInv
    <2> QED
      BY <1>1, <1>2, <1>3, <1>4, <2>3, <2>5
      DEF IInv, BootInv, PrepInv, ConfigInv, CallInv, ConfigCall, KeyCall, ImportCall, ChangeCall,
          DeleteCall, Changing
  <1>6. CASE /\ initialized = TRUE
             /\ durable \in [Path -> {None} \cup Text \cup [priv : Material, pub : Material]]
             /\ \A p \in Path : durable[p] # None => durable[p] \in Record(p)
             /\ priv = [k \in Key |-> None] /\ pub = priv
    <2>1. /\ DOMAIN durable = Path /\ \A p \in Path : durable[p] \in {None} \cup Record(p)
          /\ priv \in FileType /\ pub \in FileType
      BY <1>6 DEF FileType
    <2>2. told \in [Key -> {None} \cup Pair] /\ \A k \in Key : told[k] = durable[k]
      BY <1>4, <1>6, <2>1, Unfold
    <2>3. Types
      BY <1>1, <1>2, <1>3, <1>4, <2>1, <2>2
      DEF Types, TypeOK, GenTyped, FileType, PrepRecord
    <2>4. LegacyInv /\ KeptInv
      BY <1>4, <1>6, <2>2 DEF LegacyInv, KeptInv
    <2> QED
      BY <1>1, <1>2, <1>3, <1>4, <2>3, <2>4
      DEF IInv, BootInv, PrepInv, ConfigInv, CallInv, ConfigCall, KeyCall, ImportCall, ChangeCall,
          DeleteCall, Changing
  <1> QED
    BY <1>5, <1>6 DEF Init

LEMMA PaneStepInv ==
    ASSUME IInv, NEW p \in Pane, PaneStep(p)
    PROVE  IInv'
  <1>1. CASE Ask(p) \/ LoadConfig(p)
    BY <1>1, AskStep, LoadConfigStep
  <1>2. CASE \E t \in Text \cup {Broken} : CommitConfig(p, t)
    BY <1>2, CommitConfigStep
  <1>3. CASE \E k \in Key, m \in Material : ImportKey(p, k, m)
    BY <1>3, ImportKeyStep
  <1>4. CASE \E k \in Key, m \in Material : Generate(p, k, m)
    BY <1>4, GenerateStep
  <1>5. CASE \E k \in Key, m \in Material, op \in Changing : ChangeKey(p, op, k, m)
    BY <1>5, ChangeKeyStep
  <1>6. CASE \E k \in Key : DeleteKey(p, k)
    BY <1>6, DeleteKeyStep
  <1>7. CASE GenStep(p)
    BY <1>7, GenWritesPrivateStep, GenWritesPublicStep, GenCapturesStep DEF GenStep
  <1> QED
    BY <1>1, <1>2, <1>3, <1>4, <1>5, <1>6, <1>7 DEF PaneStep

LEMMA StepInv ==
    ASSUME IInv, [Next]_vars
    PROVE  IInv'
  <1>1. CASE \E p \in Pane : PaneStep(p)
    BY <1>1, PaneStepInv
  <1>2. CASE PrepStep
    BY <1>2, PrepKnownHostsStep, PrepListsStep, PrepDropsStaleConfigStep, PrepReadsStep,
       PrepMaterialisesStep, PrepListsKeysStep, PrepMigratesStep, PrepMarksMigratedStep,
       PrepLooksUpStep, PrepReconcilesStep, PrepCompletesStep, PrepFailsStep
    DEF PrepStep
  <1>3. CASE CallStep
    BY <1>3, ConfigProjectsStep, ConfigCommitsStep, ConfigRollsBackStep,
       ImportWritesPrivateStep, ImportWritesPublicStep, ImportCapturesStep, ImportDiscardsStep,
       ChangeReplacesPrivateStep, ChangeReplacesPublicStep, ChangeCapturesStep,
       ChangeRevertsStep, DeletePrivateStep, DeletePublicStep, DeleteRecordStep,
       DeleteRestoresRecordStep, DeleteRestoresFilesStep
    DEF CallStep
  <1>4. CASE Crash
    BY <1>4, CrashStep
  <1>5. CASE UNCHANGED vars
    <2>1. UNCHANGED <<durable, initialized, config, priv, pub, migrating, ready, prep, env, shared,
                      call, outcome, gen, told, gone>>
      BY <1>5 DEF vars, disk, preparing, ghosts
    <2>2. Types'
      BY <2>1 DEF IInv, Types, TypeOK
    <2>3. BootInv' /\ ConfigInv'
      BY <2>1 DEF IInv, BootInv, ConfigInv
    <2> QED
      BY <2>1, <2>2, <2>3, LegacyFrame, KeptFrame, PrepFrame, CallFrame DEF IInv
  <1> QED
    BY <1>1, <1>2, <1>3, <1>4, <1>5 DEF Next

(* The inductive invariant: preparation is alone until it has completed,    *)
(* and every call knows what it found and what it has done.                 *)
THEOREM IInvHolds == Spec => []IInv
  <1>1. Init => IInv
    BY InitInv
  <1>2. IInv /\ [Next]_vars => IInv'
    BY StepInv
  <1> QED
    BY <1>1, <1>2, PTL DEF Spec

(* Records, files and ghosts keep their types.                              *)
THEOREM TypeCorrect == Spec => []TypeOK
  <1>1. IInv => TypeOK
    BY DEF IInv, Types
  <1> QED
    BY <1>1, IInvHolds, PTL

(* A pair the user was told is kept stays the durable one until the user    *)
(* changes or deletes it, and a deleted one does not come back: whatever    *)
(* fails, dies or is prepared again, if the key directory can be listed     *)
(* during the migration and no file that a repeated migration captures was  *)
(* written in part.                                                         *)
THEOREM KeptAndGone ==
    ASSUME "listing fails" \in Excluded, "short write" \in Excluded
    PROVE  Spec => []KeptStaysDeletedGoes
  <1>1. IInv => KeptStaysDeletedGoes
    BY DEF IInv, KeptInv, LegacyInv, LegacyKey, KeptStaysDeletedGoes, Lists, Whole
  <1> QED
    BY <1>1, IInvHolds, PTL

(* What the panes use is the durable configuration: after failed commits,   *)
(* restarts and commits by other panes, if the removal of a stale file does *)
(* not fail silently and no file is written in part.                        *)
THEOREM SharedIsDurable ==
    ASSUME "silent unlink" \in Excluded, "short write" \in Excluded
    PROVE  Spec => []SharedConfigIsDurable
  <1>1. IInv => SharedConfigIsDurable
    BY DEF IInv, ConfigInv, SharedConfigIsDurable, Unlinks, Whole
  <1> QED
    BY <1>1, IInvHolds, PTL
-----------------------------------------------------------------------------
(* What steps may never do.                                                 *)

LEMMA OnlyCompletionReadies ==
    ASSUME Next, ~ready, ready'
    PROVE  PrepCompletes
  <1>1. ASSUME NEW p \in Pane, PaneStep(p)
        PROVE  UNCHANGED ready
    BY <1>1 DEF PaneStep, Ask, LoadConfig, CommitConfig, ImportKey, Generate, ChangeKey, DeleteKey,
                GenStep, GenWritesPrivate, GenWritesPublic, GenCaptures, preparing
  <1>2. PrepStep => PrepCompletes \/ UNCHANGED ready
    BY DEF PrepStep, PrepKnownHosts, PrepGoesTo, PrepLists, PrepDropsStaleConfig, PrepReads,
           PrepMaterialises, PrepListsKeys, PrepMigrates, PrepMarksMigrated, PrepLooksUp,
           PrepReconciles, PrepFails
  <1>3. CallStep => UNCHANGED ready
    BY DEF CallStep, ConfigProjects, ConfigCommits, ConfigRollsBack, ImportWritesPrivate,
           ImportWritesPublic, ImportCaptures, ImportDiscards, ChangeReplacesPrivate,
           ChangeReplacesPublic, ChangeCaptures, ChangeReverts, DeletePrivate, DeletePublic,
           DeleteRecord, DeleteRestoresRecord, DeleteRestoresFiles, preparing
  <1>4. Crash => ~ready'
    BY DEF Crash
  <1> QED
    BY <1>1, <1>2, <1>3, <1>4 DEF Next

LEMMA OnlyRollbacksPromise ==
    ASSUME Next, outcome # "previous", outcome' = "previous"
    PROVE  ConfigRollsBack \/ ChangeReverts \/ DeleteRestoresFiles
  <1>1. ASSUME NEW p \in Pane, PaneStep(p)
        PROVE  outcome' \in {outcome, "none"}
    BY <1>1 DEF PaneStep, Ask, LoadConfig, CommitConfig, ImportKey, Generate, ChangeKey, DeleteKey,
                GenStep, GenWritesPrivate, GenWritesPublic, GenCaptures, Begin
  <1>2. PrepStep => outcome' = outcome
    BY DEF PrepStep, PrepKnownHosts, PrepGoesTo, PrepLists, PrepDropsStaleConfig, PrepReads,
           PrepMaterialises, PrepListsKeys, PrepMigrates, PrepMarksMigrated, PrepLooksUp,
           PrepReconciles, PrepCompletes, PrepFails
  <1>3. CallStep => \/ ConfigRollsBack \/ ChangeReverts \/ DeleteRestoresFiles
                    \/ outcome' \in {outcome, "ok", "unknown"}
    BY DEF CallStep, ConfigProjects, ConfigCommits, ImportWritesPrivate,
           ImportWritesPublic, ImportCaptures, ImportDiscards, ChangeReplacesPrivate,
           ChangeReplacesPublic, ChangeCaptures, DeletePrivate, DeletePublic, DeleteFails,
           DeleteRecord, DeleteRestoresRecord, GoTo, End
  <1>4. Crash => outcome' = "none"
    BY DEF Crash
  <1> QED
    BY <1>1, <1>2, <1>3, <1>4 DEF Next

(* When preparation completes, files and records agree, if the directory    *)
(* could be listed, no removal failed silently and no write was short.      *)
THEOREM PreparedRestored ==
    ASSUME Situation \subseteq Excluded
    PROVE  Spec => PreparedMeansRestored
  <1> DEFINE Goal ==
        ~ready /\ ready' =>
            /\ initialized'
            /\ TextOf(config') = TextOf(durable'[Config])
            /\ \A k \in Key :
                /\ durable'[k] # None => [priv |-> priv'[k], pub |-> pub'[k]] = durable'[k]
                /\ durable'[k] = None => ~Verified(k)'
  <1>1. ASSUME IInv, Next
        PROVE  Goal
    <2> SUFFICES ASSUME ~ready, ready'
                 PROVE  Goal
      OBVIOUS
    <2>1. PrepCompletes
      BY <1>1, OnlyCompletionReadies
    <2>2. /\ initialized /\ ConfigAgrees /\ (\A p \in Path : Restored(p))
          /\ \A k \in Key : Reconciled(k)
      BY <1>1, <2>1, CompletedAgrees
    <2>3. UNCHANGED <<durable, initialized, config, priv, pub>>
      BY <2>1 DEF PrepCompletes, disk
    <2>4. TextOf(config) = TextOf(durable[Config])
      BY <2>2, Unfold DEF ConfigAgrees, Restored, TextOf, Unlinks, Whole, Situation
    <2>5. ASSUME NEW k \in Key
          PROVE  /\ durable[k] # None => FileOf(k) = durable[k]
                 /\ durable[k] = None => ~Verified(k)
      BY <2>2, Unfold DEF Restored, Reconciled, Lists, Whole, Situation
    <2>6. /\ TextOf(config') = TextOf(durable'[Config])
          /\ \A k \in Key : FileOf(k) = [priv |-> priv'[k], pub |-> pub'[k]]
                            /\ (Verified(k)' <=> Verified(k))
      BY <2>3, <2>4 DEF FileOf, Verified
    <2> QED
      BY <2>2, <2>3, <2>5, <2>6
  <1>2. IInv /\ [Next]_vars => [Goal]_vars
    BY <1>1
  <1>3. Spec => [][Goal]_vars
    BY <1>2, IInvHolds, PTL DEF Spec
  <1> QED
    BY <1>3 DEF PreparedMeansRestored

(* A call that says the previous value remains active is right about the    *)
(* record and the files, if no removal fails silently and no write is       *)
(* short: whatever failed before, and whatever a generation does meanwhile. *)
THEOREM PreviousActive ==
    ASSUME "silent unlink" \in Excluded, "short write" \in Excluded
    PROVE  Spec => PreviousRemainsActive
  <1> DEFINE Previous == IF call.op \in Changing THEN call.old ELSE call.record
             Goal ==
        outcome # "previous" /\ outcome' = "previous" =>
            /\ durable'[call.path] = call.record
            /\ IF call.path = Config
               THEN config' = Previous
               ELSE [priv |-> priv'[call.path], pub |-> pub'[call.path]] = Previous
  <1>1. ASSUME IInv, Next
        PROVE  Goal
    <2> SUFFICES ASSUME outcome # "previous", outcome' = "previous"
                 PROVE  Goal
      OBVIOUS
    <2>1. CASE ConfigRollsBack
      <3>1. /\ call.path = Config /\ call.op \notin Changing /\ call.old = durable[Config]
            /\ call.record = call.old /\ durable' = durable
        BY <1>1, <2>1 DEF IInv, CallInv, ConfigCall, ConfigRollsBack, At, Changing
      <3>2. call.old # None => call.old \in Text \cup {Broken}
        BY <1>1, <3>1, Unfold DEF IInv, Types, TypeOK
      <3>3. config' = call.old
        BY <2>1, <3>2, WrittenFacts DEF ConfigRollsBack, AfterRemoval, End, Whole
      <3> QED
        BY <3>1, <3>3
    <2>2. CASE ChangeReverts
      <3>1. /\ call.path \in Key /\ call.old \in Pair /\ call.path # Config
            /\ call.op \in Changing /\ call.record = durable[call.path]
        BY <1>1, <2>2, ChangeFacts, Unfold DEF ChangeReverts, ChangeCall
      <3>2. /\ priv' = [priv EXCEPT ![call.path] = call.old.priv]
            /\ pub' = [pub EXCEPT ![call.path] = call.old.pub]
            /\ durable' = durable
        BY <2>2 DEF ChangeReverts, End
      <3>3. priv'[call.path] = call.old.priv /\ pub'[call.path] = call.old.pub
        BY <1>1, <3>1, <3>2, TypesOf DEF FileType
      <3> QED
        BY <3>1, <3>2, <3>3, PairIs
    <2>3. CASE DeleteRestoresFiles
      <3>1. /\ call.path \in Key /\ call.old \in Pair /\ call.path # Config
            /\ call.op \notin Changing /\ call.record = call.old
            /\ call.step = "restoreFiles" => durable[call.path] = call.old
            /\ durable' = durable
        BY <1>1, <2>3, DeleteFacts, Unfold DEF DeleteRestoresFiles, DeleteCall, Changing
      <3>2. PairWritten(call.path, call.old) /\ call.step = "restoreFiles"
        BY <2>3 DEF DeleteRestoresFiles, End
      <3>3. priv'[call.path] = call.old.priv /\ pub'[call.path] = call.old.pub
        BY <1>1, <3>1, <3>2, PairWrittenFacts, TypesOf DEF Whole
      <3> QED
        BY <3>1, <3>2, <3>3, PairIs
    <2> QED
      BY <1>1, <2>1, <2>2, <2>3, OnlyRollbacksPromise
  <1>2. IInv /\ [Next]_vars => [Goal]_vars
    BY <1>1
  <1>3. Spec => [][Goal]_vars
    BY <1>2, IInvHolds, PTL DEF Spec
  <1> QED
    BY <1>3 DEF PreviousRemainsActive

=============================================================================
