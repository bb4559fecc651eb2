--------------------------- MODULE DurableProjection ---------------------------
(***************************************************************************)
(* SSH configuration and key pairs: the durable records, the files under   *)
(* .ssh that are their projection, and the configuration the panes share.  *)
(* Preparation at the first command (SshEnvironment, DurableStateManager), *)
(* the commit policies (SshConfig, SshKeyManager) and native key           *)
(* generation (keygen.rs).                                                 *)
(*                                                                         *)
(* The store is the register DurableRegister specifies: a write that       *)
(* throws changed nothing, a removal that throws may have removed.  A      *)
(* synchronous call holds the thread but may die at every request;         *)
(* preparation yields at its awaits; generation writes its files from      *)
(* another thread.  A file is replaced by rename, but FileUtils does not   *)
(* look at how much of it was written.                                     *)
(***************************************************************************)
EXTENDS Naturals, FiniteSets

CONSTANTS
    Key,            \* key names
    Config,         \* the path ssh/config
    Text, Empty,    \* configuration texts; what a missing file reads as
    Material,       \* private or public key files of some revision
    Identity, IdOf, \* [Material -> Identity], the fingerprint
    Broken,         \* a file of which only a part was written
    Pane,
    Excluded,       \* situations left out of a run, by name
    None

Situation == {"silent unlink", "listing fails", "short write"}

ASSUME ProjectionAssumption ==
    /\ Config \notin Key
    /\ Empty \in Text
    /\ IdOf \in [Material -> Identity]
    /\ Broken \notin Material
    /\ Broken \notin Text
    /\ None \notin Text \cup Material \cup {Broken}
    /\ None \notin [priv : Material \cup {Broken}, pub : Material \cup {Broken}]
    /\ Excluded \subseteq Situation

VARIABLES
    durable,        \* [Path -> the record's text or pair, or None]
    initialized,    \* the record _meta/initialized
    config,         \* .ssh/config
    priv, pub,      \* .ssh/<name>, .ssh/<name>.pub
    migrating,      \* legacyMigrationPending
    ready, prep,    \* SshEnvironmentReadiness, and its preparation
    env,            \* each pane's own sshEnvironmentReady and -Preparation
    shared,         \* SshConfig.shared, or None
    call, outcome,  \* the synchronous call, and what the last one reported
    gen,            \* a key generation per pane
    told,           \* ghost: the pair the user was told is kept
    gone            \* ghost: was a deletion reported, and nothing made since

disk == <<durable, initialized, config, priv, pub>>
files == <<config, priv, pub>>
preparing == <<migrating, ready, prep, env, shared>>
ghosts == <<told, gone>>
vars == <<disk, preparing, call, outcome, gen, ghosts>>

-----------------------------------------------------------------------------
Path == {Config} \cup Key
Pair == [priv : Material \cup {Broken}, pub : Material \cup {Broken}]
Record(p) == IF p = Config THEN Text \cup {Broken} ELSE Pair
FileOf(k) == [priv |-> priv[k], pub |-> pub[k]]

TextOf(v) == IF v = None THEN Empty ELSE v

\* readKeyInfo: both files, one fingerprint.
Verified(k) ==
    /\ priv[k] \in Material /\ pub[k] \in Material
    /\ IdOf[priv[k]] = IdOf[pub[k]]

Absent(k) == priv[k] = None /\ pub[k] = None

\* captureKeyPair refuses a pair of which a file is missing.
Capturable(k) == priv[k] # None /\ pub[k] # None

\* `old` is what the code would go back to; `record`, the durable record as
\* the call found it, is a ghost.
NoCall == [op |-> "none", step |-> "", path |-> Config, old |-> None, record |-> None,
           new |-> None]
NoPrep == [step |-> "idle", todo |-> {}, path |-> Config, value |-> None]
NoGen == [step |-> "idle", key |-> None, new |-> None]

ThreadFree == call.op = "none"
Usable(p) == ThreadFree /\ env[p] = "ready"

\* removeFile swallows its error.
AfterRemoval(v) == IF "silent unlink" \in Excluded THEN {None} ELSE {None, v}

\* writeTextFile does not compare what writeSync wrote with what it was given:
\* of a short write the beginning takes the file's place.  A public key cut in
\* its comment is still that key.
Short(cut) == IF "short write" \in Excluded THEN {} ELSE cut
TextWritten(t) == {t} \cup Short(IF t = Empty THEN {} ELSE {Broken, Empty})
PrivateWritten(m) == {m} \cup Short({Broken})
PublicWritten(m) ==
    {m} \cup Short({Broken} \cup {n \in Material : m \in Material /\ IdOf[n] = IdOf[m]})

\* MUTANT: the payload is not split into its two files.
PairWrittenWhole(k, v) ==
    /\ priv' = [priv EXCEPT ![k] = v]
    /\ \E n \in PublicWritten(v.pub) : pub' = [pub EXCEPT ![k] = n]

\* writeKeyPairPayload: private, then public.  A failure leaves the first.
PairWritten(k, v) ==
    /\ \E m \in PrivateWritten(v.priv) : priv' = [priv EXCEPT ![k] = m]
    /\ \E n \in PublicWritten(v.pub) : pub' = [pub EXCEPT ![k] = n]
PairPartlyWritten(k, v) ==
    /\ priv' \in {priv} \cup {[priv EXCEPT ![k] = m] : m \in PrivateWritten(v.priv)}
    /\ UNCHANGED pub

Discarded(k) ==
    /\ \E left \in AfterRemoval(priv[k]) : priv' = [priv EXCEPT ![k] = left]
    /\ \E left \in AfterRemoval(pub[k]) : pub' = [pub EXCEPT ![k] = left]

-----------------------------------------------------------------------------
\* An older version's files, or a reinstallation over durable records.
Init ==
    /\ \/ /\ initialized = FALSE
          /\ durable = [p \in Path |-> None]
          /\ config \in {None} \cup Text
          /\ \E m \in [Key -> {None} \cup Material] : priv = m /\ pub = m
       \/ /\ initialized = TRUE
          /\ durable \in [Path -> {None} \cup Text \cup [priv : Material, pub : Material]]
          /\ \A p \in Path : durable[p] # None => durable[p] \in Record(p)
          /\ \A k \in Key : durable[k] # None => durable[k].priv = durable[k].pub
          /\ config = None
          /\ priv = [k \in Key |-> None] /\ pub = priv
    /\ migrating = ~initialized
    /\ ready = FALSE /\ prep = NoPrep
    /\ env = [p \in Pane |-> "cold"]
    /\ shared = None
    /\ call = NoCall /\ outcome = "none"
    /\ gen = [p \in Pane |-> NoGen]
    /\ told = [k \in Key |-> IF initialized THEN durable[k]
                             ELSE IF priv[k] = None THEN None ELSE FileOf(k)]
    /\ gone = [k \in Key |-> "no"]

-----------------------------------------------------------------------------
(* Preparation: one for all panes, again after a failure.                   *)

Ask(p) ==
    /\ ThreadFree /\ env[p] = "cold"
    /\ env' = [env EXCEPT ![p] = "asked"]
    /\ prep' = IF ready \/ prep.step # "idle" THEN prep ELSE [NoPrep EXCEPT !.step = "hosts"]
    /\ UNCHANGED <<disk, migrating, ready, shared, call, outcome, gen, ghosts>>

PrepGoesTo(step) ==
    /\ prep' = [NoPrep EXCEPT !.step = step]
    /\ UNCHANGED <<migrating, ready, env, shared, call, outcome, gen, ghosts>>

PrepAt(step) == ThreadFree /\ prep.step = step

\* known_hosts is migrated (KnownHosts), then the durable paths are listed.
PrepKnownHosts ==
    /\ PrepAt("hosts")
    /\ PrepGoesTo("list")
    /\ UNCHANGED disk

PrepLists ==
    /\ prep.step = "list"
    /\ prep' = [prep EXCEPT !.step = "listed", !.todo = {p \in Path : durable[p] # None}]
    /\ UNCHANGED <<disk, migrating, ready, env, shared, call, outcome, gen, ghosts>>

\* MUTANT: a configuration without a durable record stays.
PrepKeepsStaleConfig ==
    /\ PrepAt("listed")
    /\ prep' = [prep EXCEPT !.step = "restore"]
    /\ UNCHANGED <<disk, migrating, ready, env, shared, call, outcome, gen, ghosts>>

PrepDropsStaleConfig ==
    /\ PrepAt("listed")
    /\ config' \in IF ~migrating /\ Config \notin prep.todo THEN AfterRemoval(config) ELSE {config}
    /\ prep' = [prep EXCEPT !.step = "restore"]
    /\ UNCHANGED <<durable, initialized, priv, pub, migrating, ready, env, shared, call, outcome,
                   gen, ghosts>>

\* readAsync of the next path, answered while other tasks may run.
PrepReads ==
    /\ prep.step = "restore"
    /\ \E p \in prep.todo :
        prep' = [step |-> "materialise", todo |-> prep.todo \ {p}, path |-> p, value |-> durable[p]]
    /\ UNCHANGED <<disk, migrating, ready, env, shared, call, outcome, gen, ghosts>>

PrepMaterialises ==
    /\ PrepAt("materialise")
    /\ CASE prep.value = None -> UNCHANGED files
         [] prep.value # None /\ prep.path = Config ->
                config' \in TextWritten(prep.value) /\ UNCHANGED <<priv, pub>>
         [] OTHER -> PairWritten(prep.path, prep.value) /\ UNCHANGED config
    /\ prep' = [NoPrep EXCEPT !.step = "restore", !.todo = prep.todo]
    /\ UNCHANGED <<durable, initialized, migrating, ready, env, shared, call, outcome, gen, ghosts>>

\* listKeys: an unreadable directory counts as an empty one.
PrepListsKeys ==
    /\ PrepAt("restore") /\ prep.todo = {}
    /\ \E names \in {{k \in Key : Verified(k)}} \cup
                    IF "listing fails" \in Excluded THEN {} ELSE {{}} :
        prep' = [NoPrep EXCEPT
                    !.step = IF migrating THEN "migrate" ELSE "reconcile",
                    !.todo = IF migrating THEN names \cup {Config} ELSE names]
    /\ UNCHANGED <<disk, migrating, ready, env, shared, call, outcome, gen, ghosts>>

\* finishLegacyMigration: the configuration, each key, then the mark.
PrepMigrates ==
    /\ PrepAt("migrate")
    /\ \E p \in prep.todo :
        /\ Config \in prep.todo => p = Config
        /\ durable' = CASE p = Config /\ config = None -> durable
                        [] p = Config /\ config # None -> [durable EXCEPT ![p] = config]
                        [] OTHER -> [durable EXCEPT ![p] = FileOf(p)]
        /\ prep' = [prep EXCEPT !.todo = @ \ {p}]
    /\ UNCHANGED <<initialized, files, migrating, ready, env, shared, call, outcome, gen, ghosts>>

PrepMarksMigrated ==
    /\ PrepAt("migrate") /\ prep.todo = {}
    /\ initialized' = TRUE /\ migrating' = FALSE
    /\ prep' = [NoPrep EXCEPT !.step = "protect"]
    /\ UNCHANGED <<durable, files, ready, env, shared, call, outcome, gen, ghosts>>

\* reconcileVerifiedKeys: a pair without a durable record is removed.
PrepLooksUp ==
    /\ prep.step = "reconcile"
    /\ \E k \in prep.todo :
        prep' = [step |-> "remove", todo |-> prep.todo \ {k}, path |-> k, value |-> durable[k]]
    /\ UNCHANGED <<disk, migrating, ready, env, shared, call, outcome, gen, ghosts>>

PrepReconciles ==
    /\ PrepAt("remove")
    /\ IF prep.value = None
       THEN /\ priv' = [priv EXCEPT ![prep.path] = None]
            /\ pub' = [pub EXCEPT ![prep.path] = None]
       ELSE UNCHANGED <<priv, pub>>
    /\ prep' = [NoPrep EXCEPT !.step = "reconcile", !.todo = prep.todo]
    /\ UNCHANGED <<durable, initialized, config, migrating, ready, env, shared, call, outcome,
                   gen, ghosts>>

PrepCompletes ==
    /\ \/ PrepAt("protect")
       \/ PrepAt("reconcile") /\ prep.todo = {}
    /\ ready' = TRUE
    /\ prep' = NoPrep
    /\ UNCHANGED <<disk, migrating, env, shared, call, outcome, gen, ghosts>>

\* Any of it throws, a pair half written or half removed: every pane that
\* waits is told, and may ask again.
PrepFails ==
    /\ ThreadFree /\ prep.step # "idle"
    /\ CASE prep.step = "materialise" /\ prep.path \in Key /\ prep.value # None ->
                PairPartlyWritten(prep.path, prep.value)
         [] prep.step = "remove" /\ prep.value = None ->
                priv' \in {priv, [priv EXCEPT ![prep.path] = None]} /\ UNCHANGED pub
         [] OTHER -> UNCHANGED <<priv, pub>>
    /\ prep' = NoPrep
    /\ env' = [p \in Pane |-> IF env[p] = "asked" THEN "cold" ELSE env[p]]
    /\ UNCHANGED <<durable, initialized, config, migrating, ready, shared, call, outcome, gen, ghosts>>

\* The pane's continuation: the first one loads the shared configuration.  If
\* that throws, the pane keeps its rejected promise.
LoadConfig(p) ==
    /\ ThreadFree /\ ready /\ env[p] = "asked"
    /\ \/ /\ shared' = IF shared = None THEN TextOf(config) ELSE shared
          /\ env' = [env EXCEPT ![p] = "ready"]
       \/ /\ shared = None
          /\ env' = [env EXCEPT ![p] = "rejected"]
          /\ UNCHANGED shared
    /\ UNCHANGED <<disk, migrating, ready, prep, call, outcome, gen, ghosts>>

PrepStep ==
    \/ PrepKnownHosts \/ PrepLists \/ PrepDropsStaleConfig
    \/ PrepReads \/ PrepMaterialises \/ PrepListsKeys
    \/ PrepMigrates \/ PrepMarksMigrated
    \/ PrepLooksUp \/ PrepReconciles
    \/ PrepCompletes \/ PrepFails

-----------------------------------------------------------------------------
(* Synchronous calls: "ok", "previous" (the code says that the previous     *)
(* value remains active) or "unknown" (it says that rollback failed, or     *)
(* nothing about the state).                                                *)

Begin(op, step, path, new) ==
    /\ call' = [op |-> op, step |-> step, path |-> path, old |-> durable[path],
                record |-> durable[path], new |-> new]
    /\ outcome' = "none"

GoTo(step) == call' = [call EXCEPT !.step = step] /\ UNCHANGED outcome
End(result) == call' = NoCall /\ outcome' = result

At(op, step) == call.op = op /\ call.step = step

(* SshConfigCommitPolicy.commit, SshConfig.commitConfigText                 *)

\* What is edited is the configuration in memory: truncated, it remains so.
CommitConfig(p, text) ==
    /\ Usable(p)
    /\ text = Broken => shared = Broken
    /\ Begin("config", "project", Config, text)
    /\ UNCHANGED <<disk, preparing, gen, ghosts>>

\* The backup copy or the projection fails: nothing has changed.
ConfigProjects ==
    /\ At("config", "project")
    /\ \/ config' \in TextWritten(call.new) /\ GoTo("durable")
       \/ End("unknown") /\ UNCHANGED config
    /\ UNCHANGED <<durable, initialized, priv, pub, preparing, gen, ghosts>>

\* MUTANT: a failed commit leaves the edited configuration in memory.
ConfigCommitsInMemory ==
    /\ At("config", "durable")
    /\ shared' = call.new
    /\ \/ durable' = [durable EXCEPT ![Config] = call.new] /\ End("ok")
       \/ GoTo("rollback") /\ UNCHANGED durable
    /\ UNCHANGED <<initialized, files, migrating, ready, prep, env, gen, ghosts>>

ConfigCommits ==
    /\ At("config", "durable")
    /\ \/ /\ durable' = [durable EXCEPT ![Config] = call.new]
          /\ shared' = call.new
          /\ End("ok")
       \/ GoTo("rollback") /\ UNCHANGED <<durable, shared>>
    /\ UNCHANGED <<initialized, files, migrating, ready, prep, env, gen, ghosts>>

\* MUTANT: there is no rollback.
ConfigKeepsProjection ==
    /\ At("config", "rollback")
    /\ End("previous")
    /\ UNCHANGED <<disk, preparing, gen, ghosts>>

ConfigRollsBack ==
    /\ At("config", "rollback")
    /\ IF call.old = None
       THEN config' \in AfterRemoval(config) /\ End("previous")
       ELSE \/ config' \in TextWritten(call.old) /\ End("previous")
            \/ End("unknown") /\ UNCHANGED config
    /\ UNCHANGED <<durable, initialized, priv, pub, preparing, gen, ghosts>>

-----------------------------------------------------------------------------
(* SshKeyManager.importKey                                                  *)

ImportKey(p, k, m) ==
    /\ Usable(p) /\ Absent(k)
    /\ Begin("import", "private", k, m)
    /\ gone' = [gone EXCEPT ![k] = "no"]
    /\ UNCHANGED <<disk, preparing, gen, told>>

ImportWritesPrivate ==
    /\ At("import", "private")
    /\ \/ /\ \E m \in PrivateWritten(call.new) : priv' = [priv EXCEPT ![call.path] = m]
          /\ GoTo("public")
       \/ End("unknown") /\ UNCHANGED priv
    /\ UNCHANGED <<durable, initialized, config, pub, preparing, gen, ghosts>>

\* The public file is derived from the private one as it is now.
ImportWritesPublic ==
    /\ At("import", "public")
    /\ \/ /\ priv[call.path] \in Material
          /\ \E n \in PublicWritten(priv[call.path]) : pub' = [pub EXCEPT ![call.path] = n]
          /\ GoTo("capture")
       \/ GoTo("discard") /\ UNCHANGED pub
    /\ UNCHANGED <<durable, initialized, config, priv, preparing, gen, ghosts>>

Captured(k) ==
    /\ durable' = [durable EXCEPT ![k] = FileOf(k)]
    /\ told' = [told EXCEPT ![k] = FileOf(k)]

ImportCaptures ==
    /\ At("import", "capture")
    /\ \/ Verified(call.path) /\ Captured(call.path) /\ End("ok")
       \/ GoTo("discard") /\ UNCHANGED <<durable, told>>
    /\ UNCHANGED <<initialized, files, preparing, gen, gone>>

ImportDiscards ==
    /\ At("import", "discard")
    /\ Discarded(call.path)
    /\ End("unknown")
    /\ UNCHANGED <<durable, initialized, config, preparing, gen, ghosts>>

-----------------------------------------------------------------------------
(* changeKeyPassphrase, changeKeyComment: the file or files first, then the *)
(* record, then back.                                                       *)

ChangeKey(p, op, k, m) ==
    /\ Usable(p) /\ Verified(k) /\ IdOf[m] = IdOf[priv[k]]
    /\ call' = [op |-> op, step |-> "private", path |-> k, old |-> FileOf(k),
                record |-> durable[k], new |-> m]
    /\ outcome' = "none"
    /\ UNCHANGED <<disk, preparing, gen, ghosts>>

Changing == {"passphrase", "comment"}

ChangeReplacesPrivate ==
    /\ call.op \in Changing /\ call.step = "private"
    /\ \/ /\ priv' = [priv EXCEPT ![call.path] = call.new]
          /\ GoTo(IF call.op = "comment" THEN "public" ELSE "capture")
       \/ End("unknown") /\ UNCHANGED priv
    /\ UNCHANGED <<durable, initialized, config, pub, preparing, gen, ghosts>>

\* The public file fails: the private one is put back, if that succeeds.  The
\* directory sync fails: both are new, and the call throws.
ChangeReplacesPublic ==
    /\ At("comment", "public")
    /\ \/ /\ pub' = [pub EXCEPT ![call.path] = call.new]
          /\ GoTo("capture") \/ End("unknown")
          /\ UNCHANGED priv
       \/ /\ priv' \in {priv, [priv EXCEPT ![call.path] = call.old.priv]}
          /\ End("unknown")
          /\ UNCHANGED pub
    /\ UNCHANGED <<durable, initialized, config, preparing, gen, ghosts>>

ChangeCaptures ==
    /\ call.op \in Changing /\ call.step = "capture"
    /\ \/ Capturable(call.path) /\ Captured(call.path) /\ End("ok")
       \/ GoTo("revert") /\ UNCHANGED <<durable, told>>
    /\ UNCHANGED <<initialized, files, preparing, gen, gone>>

\* The reverse native change may fail at any of its steps, as the change itself.
ChangeReverts ==
    /\ call.op \in Changing /\ call.step = "revert"
    /\ \/ /\ priv' = [priv EXCEPT ![call.path] = call.old.priv]
          /\ pub' = [pub EXCEPT ![call.path] = call.old.pub]
          /\ End("previous") \/ (call.op = "comment" /\ End("unknown"))
       \/ /\ priv' \in {priv, [priv EXCEPT ![call.path] = call.old.priv]}
          /\ End("unknown")
          /\ UNCHANGED pub
    /\ UNCHANGED <<durable, initialized, config, preparing, gen, ghosts>>

-----------------------------------------------------------------------------
(* SshKeyManager.deleteKey, KeyPairDeletionPolicy.commit                    *)

\* Until the deletion ends nothing is promised about the pair.
DeleteKey(p, k) ==
    /\ Usable(p) /\ Verified(k)
    /\ Begin("delete", "private", k, None)
    /\ told' = [told EXCEPT ![k] = None]
    /\ gone' = [gone EXCEPT ![k] = "deleting"]
    /\ UNCHANGED <<disk, preparing, gen>>

\* A key that was never captured has nothing to go back to.
DeleteFails == IF call.old = None THEN End("unknown") ELSE GoTo("restoreFiles")

DeletePrivate ==
    /\ At("delete", "private")
    /\ \/ priv' = [priv EXCEPT ![call.path] = None] /\ GoTo("public")
       \/ DeleteFails /\ UNCHANGED priv
    /\ UNCHANGED <<durable, initialized, config, pub, preparing, gen, ghosts>>

Deleted(k) == gone' = [gone EXCEPT ![k] = IF @ = "deleting" THEN "yes" ELSE @]

DeletePublic ==
    /\ At("delete", "public")
    /\ \/ /\ pub' = [pub EXCEPT ![call.path] = None]
          /\ IF call.old = None THEN Deleted(call.path) /\ End("ok")
                                ELSE GoTo("durable") /\ UNCHANGED gone
       \/ DeleteFails /\ UNCHANGED <<pub, gone>>
    /\ UNCHANGED <<durable, initialized, config, priv, preparing, gen, told>>

\* A removal that throws may have removed the record.
DeleteRecord ==
    /\ At("delete", "durable")
    /\ \/ /\ durable' = [durable EXCEPT ![call.path] = None]
          /\ Deleted(call.path) /\ End("ok")
       \/ /\ durable' \in {durable, [durable EXCEPT ![call.path] = None]}
          /\ GoTo("restoreRecord")
          /\ UNCHANGED gone
    /\ UNCHANGED <<initialized, files, preparing, gen, told>>

\* MUTANT: only the files are restored.
DeleteSkipsRecord ==
    /\ At("delete", "restoreRecord")
    /\ GoTo("restoreFiles")
    /\ UNCHANGED <<disk, preparing, gen, ghosts>>

\* Whether or not it succeeds, the files are restored next.
DeleteRestoresRecord ==
    /\ At("delete", "restoreRecord")
    /\ \/ durable' = [durable EXCEPT ![call.path] = call.old] /\ GoTo("restoreFiles")
       \/ GoTo("restoreFilesOnly") /\ UNCHANGED durable
    /\ UNCHANGED <<initialized, files, preparing, gen, ghosts>>

DeleteRestoresFiles ==
    /\ call.op = "delete" /\ call.step \in {"restoreFiles", "restoreFilesOnly"}
    /\ \/ /\ PairWritten(call.path, call.old)
          /\ IF call.step = "restoreFiles"
             THEN /\ told' = [told EXCEPT ![call.path] = call.old]
                  /\ End("previous")
             ELSE End("unknown") /\ UNCHANGED told
       \/ PairPartlyWritten(call.path, call.old) /\ End("unknown") /\ UNCHANGED told
    /\ UNCHANGED <<durable, initialized, config, preparing, gen, gone>>

CallStep ==
    \/ ConfigProjects \/ ConfigCommits \/ ConfigRollsBack
    \/ ImportWritesPrivate \/ ImportWritesPublic \/ ImportCaptures \/ ImportDiscards
    \/ ChangeReplacesPrivate \/ ChangeReplacesPublic \/ ChangeCaptures \/ ChangeReverts
    \/ DeletePrivate \/ DeletePublic \/ DeleteRecord \/ DeleteRestoresRecord
    \/ DeleteRestoresFiles

-----------------------------------------------------------------------------
(* SshKeyManager.generateKeyPair: the native part runs beside everything.   *)

Generate(p, k, m) ==
    /\ Usable(p) /\ gen[p] = NoGen /\ Absent(k)
    /\ gen' = [gen EXCEPT ![p] = [step |-> "private", key |-> k, new |-> m]]
    /\ UNCHANGED <<disk, preparing, call, outcome, ghosts>>

GenGoesTo(p, step) == gen' = [gen EXCEPT ![p] = IF step = "idle" THEN NoGen ELSE [@ EXCEPT !.step = step]]

\* The file is created anew or not at all; a write that fails leaves it.
GenWritesPrivate(p) ==
    LET k == gen[p].key IN
    /\ gen[p].step = "private"
    /\ \/ /\ Absent(k)
          /\ \/ priv' = [priv EXCEPT ![k] = gen[p].new] /\ GenGoesTo(p, "public")
             \/ priv' = [priv EXCEPT ![k] = Broken] /\ GenGoesTo(p, "idle")
          /\ gone' = [gone EXCEPT ![k] = "no"]
       \/ GenGoesTo(p, "idle") /\ UNCHANGED <<priv, gone>>
    /\ UNCHANGED <<durable, initialized, config, pub, preparing, call, outcome, told>>

GenWritesPublic(p) ==
    LET k == gen[p].key IN
    /\ gen[p].step = "public"
    /\ \/ /\ pub[k] = None
          /\ pub' = [pub EXCEPT ![k] = gen[p].new]
          /\ gone' = [gone EXCEPT ![k] = "no"]
          /\ GenGoesTo(p, "capture")
          /\ UNCHANGED priv
       \/ /\ pub' \in {pub, [pub EXCEPT ![k] = IF @ = None THEN Broken ELSE @]}
          /\ \E left \in AfterRemoval(priv[k]) : priv' = [priv EXCEPT ![k] = left]
          /\ gone' = IF pub' = pub THEN gone ELSE [gone EXCEPT ![k] = "no"]
          /\ GenGoesTo(p, "idle")
    /\ UNCHANGED <<durable, initialized, config, preparing, call, outcome, told>>

\* The continuation in the application: capture, or remove both files.  What is
\* read of the result before the capture may throw: then the files stay.
GenCaptures(p) ==
    LET k == gen[p].key IN
    /\ ThreadFree /\ gen[p].step = "capture"
    /\ \/ Capturable(k) /\ Captured(k) /\ UNCHANGED <<priv, pub>>
       \/ Discarded(k) /\ UNCHANGED <<durable, told>>
       \/ UNCHANGED <<durable, told, priv, pub>>
    /\ GenGoesTo(p, "idle")
    /\ UNCHANGED <<initialized, config, preparing, call, outcome, gone>>

GenStep(p) == GenWritesPrivate(p) \/ GenWritesPublic(p) \/ GenCaptures(p)

-----------------------------------------------------------------------------
\* The process dies and is started again.
Crash ==
    /\ migrating' = ~initialized
    /\ ready' = FALSE /\ prep' = NoPrep
    /\ env' = [p \in Pane |-> "cold"]
    /\ shared' = None
    /\ call' = NoCall /\ outcome' = "none"
    /\ gen' = [p \in Pane |-> NoGen]
    /\ UNCHANGED <<disk, ghosts>>

PaneStep(p) ==
    \/ Ask(p) \/ LoadConfig(p)
    \/ \E t \in Text \cup {Broken} : CommitConfig(p, t)
    \/ \E k \in Key, m \in Material :
        ImportKey(p, k, m) \/ Generate(p, k, m) \/ \E op \in Changing : ChangeKey(p, op, k, m)
    \/ \E k \in Key : DeleteKey(p, k)
    \/ GenStep(p)

Next ==
    \/ \E p \in Pane : PaneStep(p)
    \/ PrepStep
    \/ CallStep
    \/ Crash

Spec == Init /\ [][Next]_vars

-----------------------------------------------------------------------------
(* Properties.                                                              *)

TypeOK ==
    /\ \A p \in Path : durable[p] \in {None} \cup Record(p)
    /\ DOMAIN durable = Path
    /\ initialized \in BOOLEAN
    /\ config \in {None, Broken} \cup Text
    /\ priv \in [Key -> {None, Broken} \cup Material]
    /\ pub \in [Key -> {None, Broken} \cup Material]
    /\ migrating \in BOOLEAN /\ ready \in BOOLEAN
    /\ prep.todo \subseteq Path /\ prep.path \in Path
    /\ env \in [Pane -> {"cold", "asked", "ready", "rejected"}]
    /\ shared \in {None, Broken} \cup Text
    /\ call.path \in Path
    /\ outcome \in {"none", "ok", "previous", "unknown"}
    /\ \A p \in Pane : gen[p].key \in {None} \cup Key
    /\ told \in [Key -> {None} \cup Pair]
    /\ gone \in [Key -> {"no", "deleting", "yes"}]

\* A pair the application said it keeps (generated, imported, changed, or left
\* unchanged by a change or deletion that failed) is the durable one, until
\* the user changes or deletes it: whatever fails, dies, migrates or is
\* prepared again.  Before migration its files are the record.
\* "LeanTTY reports success only after both are absent": a deleted key has no
\* record and no file, and neither restart nor preparation brings it back.  (A
\* generation under that name, begun before, may make a new one.)
KeptStaysDeletedGoes ==
    \A k \in Key :
        /\ told[k] # None => durable[k] = told[k] \/ (~initialized /\ FileOf(k) = told[k])
        /\ gone[k] = "yes" => durable[k] = None /\ Absent(k)

\* What the panes use is the durable configuration: after failed commits,
\* restarts, and commits by other panes.
SharedConfigIsDurable ==
    shared # None /\ ThreadFree => shared = TextOf(durable[Config])

\* When preparation completes, files and records agree: every record has its
\* files, every verified pair its record, and the configuration is the
\* durable one.
PreparedMeansRestored ==
    [][~ready /\ ready' =>
        /\ initialized'
        /\ TextOf(config') = TextOf(durable'[Config])
        /\ \A k \in Key :
            /\ durable'[k] # None => [priv |-> priv'[k], pub |-> pub'[k]] = durable'[k]
            /\ durable'[k] = None => ~Verified(k)']_vars

\* A call that says the previous value remains active is right about record and
\* files (SshConfigCommitPolicy, KeyPairDeletionPolicy, KeyCommentCommitPolicy,
\* changeKeyPassphrase): the record is the one the call found, and the files hold
\* it; after a change of a key they are the files the call found.
PreviousRemainsActive ==
    [][outcome # "previous" /\ outcome' = "previous" =>
        LET previous == IF call.op \in Changing THEN call.old ELSE call.record IN
        /\ durable'[call.path] = call.record
        /\ IF call.path = Config
           THEN config' = previous
           ELSE [priv |-> priv'[call.path], pub |-> pub'[call.path]] = previous]_vars

=============================================================================
