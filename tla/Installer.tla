------------------------------ MODULE Installer ------------------------------
(***************************************************************************)
(* Installer.install (src/src/installer/index.ts) over the stores it       *)
(* writes: the transaction journal, the destination directory, the         *)
(* lockfile in it, the database and the pre-install snapshots.             *)
(*                                                                         *)
(* An install is named by the transaction it creates.  An install of a     *)
(* resource with dependencies runs the installs of its dependencies, one   *)
(* after the other, after its own files are written.  Installs asked for   *)
(* by the user may overlap: nothing in the code keeps them apart.          *)
(***************************************************************************)
EXTENDS TransactionJournal, FiniteSets

CONSTANTS
    Res,            \* resources
    Files,          \* names of the files of a resource
    Manifest,       \* the file "resource.json" of a resource
    BinaryFiles,    \* files that do not survive a decoding as UTF-8
    ResourceOf,     \* ResourceOf[a]: the resource that install a installs
    DepsOf,         \* DepsOf[a]: the installs that a runs, in plan order; the
                    \* plan is flat, these run none
    Roots,          \* the installs asked for by the user
    Removable,      \* resources that the user may remove
    MayFail,        \* the kinds of step that may fail
    MaxConcurrent,  \* bound: calls of the user in progress at a time
    MaxSignals,     \* bound: 1 when a signal may arrive, else 0
    MaxCrashes,     \* bound: crashes of the process
    NoSnapshot,     \* the install has no snapshot
    NoLockfile      \* vetwo.lock.json does not exist

Failures == {"plan", "snapshot", "manifest", "file", "stage", "write",
             "late-stage", "conflict", "hook", "lock", "database", "journal",
             "restore"}

ASSUME InstallerAssumption ==
    /\ Clients = Tx
    /\ Manifest \in Files
    /\ BinaryFiles \subseteq Files \ {Manifest}
    /\ ResourceOf \in [Tx -> Res]
    /\ DepsOf \in [Tx -> Seq(Tx)]
    /\ \A a \in Tx : \A i \in DOMAIN DepsOf[a] : DepsOf[DepsOf[a][i]] = <<>>
    /\ Roots \subseteq Tx
    /\ Removable \subseteq Res
    /\ MayFail \subseteq Failures
    /\ {MaxConcurrent, MaxSignals, MaxCrashes} \subseteq Nat

VARIABLES
    pc,        \* pc[a]: where install a is
    result,    \* result[a]: how the promise of install a settled
    disk,      \* disk[r][f]: content of file f of resource r
    lockfile,  \* entry of each resource in the lockfile, or NoLockfile
    database,  \* database[r]: entry of r in the database
    snapshot,  \* snapshot[a]: what install a copied before it began
    fetched,   \* fetched[a]: files of a's resource that a brought to disk
    content,   \* content[a]: the content of these files read back by a
    todo,      \* todo[a]: files that a has still to fetch, write or restore
    stale,     \* stale[a]: lockfile or database as read by a, to be rewritten
    removing,  \* removing[r]: where a call of remove for resource r is
    rmStale,   \* rmStale[r]: lockfile or database as read by that call
    crashes,   \* how often the process has crashed
    forgiven   \* history: resources at which an error was passed over

installVars == <<pc, result, disk, lockfile, database, snapshot, fetched,
                 content, todo, stale, removing, rmStale, crashes, forgiven>>
vars == <<txFile, txTmp, call, sweep, overlapped, pc, result, disk, lockfile,
          database, snapshot, fetched, content, todo, stale, removing, rmStale,
          crashes, forgiven>>

-----------------------------------------------------------------------------
Versions == {"none", "old", "new", "removed"}
Contents == {"absent", "old", "new", "mangled", "torn"}
Entries == [Res -> Versions]
NoEntries == [r \in Res |-> "none"]
Trees == [Res -> [Files -> Contents]]
LockPath == <<"vetwo.lock.json">>
Paths == (Res \X Files) \cup {LockPath}

\* Mutant of Updates: the transaction is committed before the files are
\* written.
UpdatesCommitEarly ==
  [ record  |-> [set |-> "same",      next |-> "prepare",   throw |-> "prepare"],
    prepare |-> [set |-> "preparing", next |-> "stub",      throw |-> "catch"],
    writing |-> [set |-> "committed", next |-> "read-back", throw |-> "catch"],
    commit  |-> [set |-> "committed", next |-> "return",    throw |-> "catch"],
    fail    |-> [set |-> "failed",    next |-> "reject",    throw |-> "reject"] ]

\* The updates of its transaction an install makes: the status it sets, and
\* where the install goes on when the update returns and when it throws.
\* "record" only stores the snapshot's id and leaves the status alone.
Updates ==
  [ record  |-> [set |-> "same",      next |-> "prepare",   throw |-> "prepare"],
    prepare |-> [set |-> "preparing", next |-> "stub",      throw |-> "catch"],
    writing |-> [set |-> "writing",   next |-> "read-back", throw |-> "catch"],
    commit  |-> [set |-> "committed", next |-> "return",    throw |-> "catch"],
    fail    |-> [set |-> "failed",    next |-> "reject",    throw |-> "reject"] ]

Steps == {"idle", "create", "initialize", "snapshot", "stub", "manifest",
          "fetch", "read-back", "pipeline", "write", "dependencies", "hook",
          "read-lock", "write-lock", "read-db", "write-db", "catch",
          "restore", "return", "reject", "settled", "dead"}
         \cup DOMAIN Updates

RemoveSteps == {"idle", "files", "read-lock", "write-lock", "read-db",
                "write-db", "done", "dead"}

\* Where an install has no transaction yet, or is no longer running.
BeforeCreate == {"idle", "create", "initialize"}
Ended == {"settled", "dead"}

Snapshots == [tree : Trees, lock : Entries \cup {NoLockfile}]

\* What is absent is none of the values, and the program is finite.
ASSUME AbsentAssumption ==
    /\ NoLockfile \notin Entries
    /\ NoSnapshot \notin Snapshots
    /\ IsFiniteSet(Tx) /\ IsFiniteSet(Res)

TypeOK ==
    /\ JournalTypeOK
    /\ pc \in [Tx -> Steps]
    /\ result \in [Tx -> {"none", "ok", "failed"}]
    /\ disk \in Trees
    /\ lockfile \in Entries \cup {NoLockfile}
    /\ database \in Entries
    /\ snapshot \in [Tx -> Snapshots \cup {NoSnapshot}]
    /\ fetched \in [Tx -> SUBSET Files]
    /\ content \in [Tx -> [Files -> Contents]]
    /\ todo \in [Tx -> SUBSET Paths]
    /\ stale \in [Tx -> Entries]
    /\ removing \in [Res -> RemoveSteps]
    /\ rmStale \in [Res -> Entries]
    /\ crashes \in Nat
    /\ forgiven \subseteq Res

\* Some resources are installed in an older version, completely.
Init ==
    /\ JournalInit
    /\ pc = [a \in Tx |-> "idle"]
    /\ result = [a \in Tx |-> "none"]
    /\ \E installed \in SUBSET Res :
          LET old == [r \in Res |-> IF r \in installed THEN "old" ELSE "none"]
          IN  /\ disk = [r \in Res |-> [f \in Files |->
                            IF r \in installed THEN "old" ELSE "absent"]]
              /\ lockfile = IF installed = {} THEN NoLockfile ELSE old
              /\ database = old
    /\ snapshot = [a \in Tx |-> NoSnapshot]
    /\ fetched = [a \in Tx |-> {}]
    /\ content = [a \in Tx |-> [f \in Files |-> "absent"]]
    /\ todo = [a \in Tx |-> {}]
    /\ stale = [a \in Tx |-> NoEntries]
    /\ removing = [r \in Res |-> "idle"]
    /\ rmStale = [r \in Res |-> NoEntries]
    /\ crashes = 0
    /\ forgiven = {}

-----------------------------------------------------------------------------
Goto(a, step) == pc' = [pc EXCEPT ![a] = step]
Running(a) == pc[a] \notin {"idle"} \cup Ended
PathsOf(a, files) == {ResourceOf[a]} \X files

localVars == <<fetched, content, todo, stale>>
storeVars == <<disk, lockfile, database>>
otherVars == <<removing, rmStale, crashes, forgiven>>

\* The code goes on after an error, or undoes less than it has done: what it
\* leaves of these resources may not fit together.
Forgive(resources) ==
    /\ forgiven' = forgiven \cup resources
    /\ UNCHANGED <<removing, rmStale, crashes>>

\* Install a goes to another step and changes nothing else of its own;
\* Jump: nothing of the journal either.
Move(a, step) ==
    Goto(a, step) /\ UNCHANGED <<result, storeVars, snapshot, localVars, otherVars>>

Jump(a, step) == Move(a, step) /\ UNCHANGED journalVars

\* Install a goes on after an error that its resource is left with.
PassOver(a, step) ==
    /\ Goto(a, step)
    /\ Forgive({ResourceOf[a]})
    /\ UNCHANGED <<result, storeVars, snapshot, localVars>>

\* The promise settles and the local variables of the call are gone.
Settle(a, how) ==
    /\ Goto(a, "settled")
    /\ result' = [result EXCEPT ![a] = how]
    /\ snapshot' = [snapshot EXCEPT ![a] = NoSnapshot]
    /\ fetched' = [fetched EXCEPT ![a] = {}]
    /\ content' = [content EXCEPT ![a] = [f \in Files |-> "absent"]]
    /\ todo' = [todo EXCEPT ![a] = {}]
    /\ stale' = [stale EXCEPT ![a] = NoEntries]
    /\ UNCHANGED <<disk, lockfile, database, otherVars>>

\* The dependency that install p runs next: the first of its plan that has
\* not settled, when all before it succeeded.
IsNextDep(p, a) ==
    \E i \in DOMAIN DepsOf[p] :
        /\ DepsOf[p][i] = a
        /\ \A j \in 1 .. i - 1 : result[DepsOf[p][j]] = "ok"

Removing(r) == removing[r] \notin {"idle", "done", "dead"}

UserMayCall ==
    Cardinality({a \in Roots : Running(a)})
        + Cardinality({r \in Removable : Removing(r)}) < MaxConcurrent

Called(a) ==
    \/ a \in Roots /\ UserMayCall
    \/ \E p \in Tx : pc[p] = "dependencies" /\ IsNextDep(p, a)

\* The plan is resolved before there is a transaction.
Start(a) ==
    /\ pc[a] = "idle"
    /\ Called(a)
    /\ \/ Jump(a, "create")
       \/ "plan" \in MayFail /\ Settle(a, "failed") /\ UNCHANGED journalVars

-----------------------------------------------------------------------------
(* The transaction. *)

StoreOpen == sweep[StartupRecovery].phase # "off"

\* ensureInitialized: the first caller waits for the recovery, later callers
\* find the directory known and do not.
OpenStore(a) ==
    /\ pc[a] = "create"
    /\ SweepStart(StartupRecovery)
    /\ Move(a, "initialize")

StoreOpened(a) ==
    /\ pc[a] = "initialize"
    /\ sweep[StartupRecovery].phase = "done"
    /\ Jump(a, "create")

Create(a) ==
    /\ pc[a] = "create"
    /\ StoreOpen
    /\ CreateTransaction(a)
    /\ Move(a, "snapshot")

\* There is no transaction to fail and no snapshot to restore.
CreateFails(a) ==
    /\ "journal" \in MayFail
    /\ pc[a] = "create"
    /\ StoreOpen
    /\ Settle(a, "failed")
    /\ UNCHANGED journalVars

AtUpdate(a) == pc[a] \in DOMAIN Updates

UpdateRead(a) ==
    /\ AtUpdate(a)
    /\ LET st == Updates[pc[a]].set
       IN  ReadForUpdate(a, a, IF st = "same" THEN StatusOf(a) ELSE st)
    /\ UNCHANGED sweep
    /\ UNCHANGED installVars

UpdateWrite(a) ==
    /\ OpenTmp(a) \/ FillTmp(a)
    /\ UNCHANGED installVars

UpdateReturns(a) ==
    /\ RenameTmp(a)
    /\ Move(a, Updates[pc[a]].next)

\* The record does not parse: the handler has the file open under its name.
RecordUnread(a) ==
    /\ AtUpdate(a)
    /\ call[a] = NoCall
    /\ ~Readable(a)
    /\ UNCHANGED journalVars

\* Mutant of UpdateThrows: the rename is waited for until it succeeds.
UpdateThrowsNot(a) ==
    /\ \/ RecordUnread(a)
       \/ "journal" \in MayFail /\ UpdateFails(a) /\ call[a].step # "written"
    /\ Move(a, Updates[pc[a]].throw)

\* markCommitted comes last: when it throws, the catch clause restores files
\* and lockfile, and leaves the database as it is.
UpdateThrows(a) ==
    /\ \/ RecordUnread(a)
       \/ RenameFails(a)
       \/ "journal" \in MayFail /\ UpdateFails(a)
    /\ IF pc[a] = "commit" THEN PassOver(a, "catch")
                           ELSE Move(a, Updates[pc[a]].throw)

-----------------------------------------------------------------------------
(* The snapshot and the download. *)

\* Files are read into the snapshot, and into the pipeline, as UTF-8 text.
Decoded(f, c) == IF f \in BinaryFiles /\ c # "absent" THEN "mangled" ELSE c

CopyOfDestination ==
    [tree |-> [r \in Res |-> [f \in Files |-> Decoded(f, disk[r][f])]],
     lock |-> lockfile]

TakeSnapshot(a) ==
    /\ pc[a] = "snapshot"
    /\ snapshot' = [snapshot EXCEPT ![a] = CopyOfDestination]
    /\ Goto(a, "record")
    /\ UNCHANGED <<result, storeVars, localVars, otherVars>>
    /\ UNCHANGED journalVars

\* The snapshot is best effort: without it the install goes on.
SnapshotFails(a) ==
    /\ "snapshot" \in MayFail
    /\ pc[a] = "snapshot"
    /\ Jump(a, "prepare")

\* A manifest made from the registry's data is written in place, before
\* anything is downloaded.
WriteStub(a) ==
    /\ pc[a] = "stub"
    /\ disk' = [disk EXCEPT ![ResourceOf[a]][Manifest] = "new"]
    /\ fetched' = [fetched EXCEPT ![a] = {Manifest}]
    /\ Goto(a, "manifest")
    /\ UNCHANGED <<result, lockfile, database, snapshot, content, todo, stale,
                   otherVars>>
    /\ UNCHANGED journalVars

FetchManifest(a) ==
    /\ pc[a] = "manifest"
    /\ todo' = [todo EXCEPT ![a] = PathsOf(a, Files \ {Manifest})]
    /\ Goto(a, "fetch")
    /\ UNCHANGED <<result, storeVars, snapshot, fetched, content, stale,
                   otherVars>>
    /\ UNCHANGED journalVars

\* Without the real manifest the install goes on with the stub alone.
FetchManifestFails(a) ==
    /\ "manifest" \in MayFail
    /\ pc[a] = "manifest"
    /\ PassOver(a, "writing")
    /\ UNCHANGED journalVars

\* A downloaded file is renamed into its place; a failed one is skipped.
FetchFile(a) ==
    /\ pc[a] = "fetch"
    /\ \E path \in todo[a] :
          /\ todo' = [todo EXCEPT ![a] = @ \ {path}]
          /\ \/ /\ disk' = [disk EXCEPT ![path[1]][path[2]] = "new"]
                /\ fetched' = [fetched EXCEPT ![a] = @ \cup {path[2]}]
                /\ UNCHANGED otherVars
             \/ /\ "file" \in MayFail
                /\ Forgive({path[1]})
                /\ UNCHANGED <<disk, fetched>>
    /\ UNCHANGED <<pc, result, lockfile, database, snapshot, content, stale>>
    /\ UNCHANGED journalVars

FetchEnds(a) ==
    /\ pc[a] = "fetch"
    /\ todo[a] = {}
    /\ Jump(a, "writing")

-----------------------------------------------------------------------------
(* The pipeline. *)

ReadBack(a) ==
    /\ pc[a] = "read-back"
    /\ content' = [content EXCEPT ![a] =
          [f \in Files |-> IF f \in fetched[a]
                           THEN Decoded(f, disk[ResourceOf[a]][f])
                           ELSE "absent"]]
    /\ Goto(a, "pipeline")
    /\ UNCHANGED <<result, storeVars, snapshot, fetched, todo, stale, otherVars>>
    /\ UNCHANGED journalVars

\* A checksum mismatch is noted and the stages go on, up to the write stage.
IntegrityOK(a) == \A f \in fetched[a] : content[a][f] = "new"

ReachWriteStage(a) ==
    /\ pc[a] = "pipeline"
    /\ todo' = [todo EXCEPT ![a] = PathsOf(a, fetched[a])]
    /\ Goto(a, "write")
    /\ UNCHANGED <<result, storeVars, snapshot, fetched, content, stale,
                   otherVars>>
    /\ UNCHANGED journalVars

WriteFile(a) ==
    /\ pc[a] = "write"
    /\ \E path \in todo[a] :
          /\ disk' = [disk EXCEPT ![path[1]][path[2]] = content[a][path[2]]]
          /\ todo' = [todo EXCEPT ![a] = @ \ {path}]
    /\ UNCHANGED <<pc, result, lockfile, database, snapshot, fetched, content,
                   stale, otherVars>>
    /\ UNCHANGED journalVars

\* The stub cannot be written; the download gives up; a stage throws, before,
\* within or after the write stage.  The pipeline rolls its stages back, which
\* changes no file: the write stage records what it wrote under a context that
\* rollback is not called with.
Throws(a) ==
    /\ \/ pc[a] \in {"stub", "write"} /\ "write" \in MayFail
       \/ pc[a] = "fetch" /\ "file" \in MayFail
       \/ pc[a] = "pipeline" /\ "stage" \in MayFail
       \/ pc[a] = "write" /\ todo[a] = {} /\ "late-stage" \in MayFail
    /\ todo' = [todo EXCEPT ![a] = {}]
    /\ Goto(a, "catch")
    /\ UNCHANGED <<result, storeVars, snapshot, fetched, content, stale,
                   otherVars>>
    /\ UNCHANGED journalVars

\* Success is the absence of noted errors.
PipelineEnds(a) ==
    /\ pc[a] = "write"
    /\ todo[a] = {}
    /\ Jump(a, IF IntegrityOK(a) THEN "dependencies" ELSE "catch")

-----------------------------------------------------------------------------
(* The dependencies, the plugins' hook, the lockfile and the database. *)

Deps(a) == {DepsOf[a][i] : i \in DOMAIN DepsOf[a]}

\* Mutant of DependenciesEnd: a dependency that fails is dropped silently.
DependenciesEndSilent(a) ==
    /\ pc[a] = "dependencies"
    /\ \A d \in Deps(a) : result[d] # "none"
    /\ Jump(a, "hook")

DependenciesEnd(a) ==
    /\ pc[a] = "dependencies"
    /\ \A d \in Deps(a) : result[d] = "ok"
    /\ Jump(a, "hook")

\* A dependency failed, is in conflict or is not in the registry.
DependencyFails(a) ==
    /\ pc[a] = "dependencies"
    /\ \/ \E d \in Deps(a) : result[d] = "failed"
       \/ /\ "conflict" \in MayFail
          /\ \E d \in Deps(a) : pc[d] = "idle" /\ IsNextDep(a, d)
    /\ Jump(a, "catch")

InstallHook(a) ==
    /\ pc[a] = "hook"
    /\ \/ Jump(a, "read-lock")
       \/ "hook" \in MayFail /\ Jump(a, "catch")

LockEntries == IF lockfile = NoLockfile THEN NoEntries ELSE lockfile

\* A restore rewrites the lockfile in place, and every writer of the database
\* rewrites entries.json in place: what is read meanwhile does not parse, and
\* the fallback, no entries, is taken.
LockInFlux == \E b \in Tx : pc[b] = "restore" /\ LockPath \in todo[b]

DatabaseInFlux ==
    \/ \E b \in Tx : pc[b] = "write-db"
    \/ \E r \in Res : removing[r] = "write-db"

\* Mutant of ReadLock: a lockfile that is not there is taken as it is read.
ReadLockRaw(a) ==
    /\ pc[a] = "read-lock"
    /\ stale' = [stale EXCEPT ![a] = lockfile]
    /\ Goto(a, "write-lock")
    /\ UNCHANGED <<result, storeVars, snapshot, fetched, content, todo, otherVars>>
    /\ UNCHANGED journalVars

ReadLock(a) ==
    /\ pc[a] = "read-lock"
    /\ \/ stale' = [stale EXCEPT ![a] = LockEntries]
       \/ LockInFlux /\ stale' = [stale EXCEPT ![a] = NoEntries]
    /\ Goto(a, "write-lock")
    /\ UNCHANGED <<result, storeVars, snapshot, fetched, content, todo, otherVars>>
    /\ UNCHANGED journalVars

WriteLock(a) ==
    /\ pc[a] = "write-lock"
    /\ lockfile' = [stale[a] EXCEPT ![ResourceOf[a]] = "new"]
    /\ Goto(a, "read-db")
    /\ UNCHANGED <<result, disk, database, snapshot, localVars, otherVars>>
    /\ UNCHANGED journalVars

\* An error of the lockfile is a warning.
LockFails(a) ==
    /\ "lock" \in MayFail
    /\ pc[a] \in {"read-lock", "write-lock"}
    /\ PassOver(a, "read-db")
    /\ UNCHANGED journalVars

ReadDatabase(a) ==
    /\ pc[a] = "read-db"
    /\ \/ stale' = [stale EXCEPT ![a] = database]
       \/ DatabaseInFlux /\ stale' = [stale EXCEPT ![a] = NoEntries]
    /\ Goto(a, "write-db")
    /\ UNCHANGED <<result, storeVars, snapshot, fetched, content, todo, otherVars>>
    /\ UNCHANGED journalVars

WriteDatabase(a) ==
    /\ pc[a] = "write-db"
    /\ database' = [stale[a] EXCEPT ![ResourceOf[a]] = "new"]
    /\ Goto(a, "commit")
    /\ UNCHANGED <<result, disk, lockfile, snapshot, localVars, otherVars>>
    /\ UNCHANGED journalVars

\* An error of the database is a warning.  One of the write leaves the file
\* empty that was opened for it, or as it was.
DatabaseAfterError(writing) ==
    \/ UNCHANGED database
    \/ writing /\ database' = NoEntries

LeftWith(own) == IF database' = database THEN {own} ELSE Res

DatabaseFails(a) ==
    /\ "database" \in MayFail
    /\ pc[a] \in {"read-db", "write-db"}
    /\ DatabaseAfterError(pc[a] = "write-db")
    /\ Forgive(LeftWith(ResourceOf[a]))
    /\ Goto(a, "commit")
    /\ UNCHANGED <<result, disk, lockfile, snapshot, localVars>>
    /\ UNCHANGED journalVars

-----------------------------------------------------------------------------
(* The end, and the catch clause. *)

\* Mutant of Return: the transaction's file is deleted once it succeeded.
ReturnDelete(a) ==
    /\ pc[a] = "return"
    /\ Settle(a, "ok")
    /\ txFile' = [txFile EXCEPT ![a] = NoTx]
    /\ UNCHANGED <<txTmp, call, sweep, overlapped>>

Return(a) ==
    /\ pc[a] = "return"
    /\ Settle(a, "ok")
    /\ UNCHANGED journalVars

SnapshotPaths(s) ==
    {p \in Res \X Files : s.tree[p[1]][p[2]] # "absent"}
    \cup {p \in {LockPath} : s.lock # NoLockfile}

\* Mutant of Catch: the snapshot is not restored.
CatchOnly(a) ==
    /\ pc[a] = "catch"
    /\ Jump(a, "fail")

Catch(a) ==
    /\ pc[a] = "catch"
    /\ IF snapshot[a] = NoSnapshot
       THEN /\ Goto(a, "fail")
            /\ Forgive({ResourceOf[a]})
            /\ UNCHANGED todo
       ELSE /\ Goto(a, "restore")
            /\ todo' = [todo EXCEPT ![a] = SnapshotPaths(snapshot[a])]
            /\ UNCHANGED otherVars
    /\ UNCHANGED <<result, storeVars, snapshot, fetched, content, stale>>
    /\ UNCHANGED journalVars

\* restore writes back every file of the snapshot, of whatever resource, and
\* removes none that came after it.
Restored(a, path) ==
    /\ IF path = LockPath
       THEN lockfile' = snapshot[a].lock /\ UNCHANGED disk
       ELSE /\ disk' = [disk EXCEPT ![path[1]][path[2]] =
                          snapshot[a].tree[path[1]][path[2]]]
            /\ UNCHANGED lockfile
    /\ UNCHANGED otherVars

\* A file that cannot be written is counted, and left as it is or torn; the
\* count is only logged.  A snapshot that cannot be read restores none.
NotRestored(path) ==
    /\ "restore" \in MayFail
    /\ IF path = LockPath
       THEN /\ lockfile' \in {lockfile, NoLockfile}
            /\ Forgive(Res)
            /\ UNCHANGED disk
       ELSE /\ \E c \in {disk[path[1]][path[2]], "torn"} :
                  disk' = [disk EXCEPT ![path[1]][path[2]] = c]
            /\ Forgive({path[1]})
            /\ UNCHANGED lockfile

RestoreFile(a) ==
    /\ pc[a] = "restore"
    /\ \E path \in todo[a] :
          /\ Restored(a, path) \/ NotRestored(path)
          /\ todo' = [todo EXCEPT ![a] = @ \ {path}]
    /\ UNCHANGED <<pc, result, database, snapshot, fetched, content, stale>>
    /\ UNCHANGED journalVars

RestoreEnds(a) ==
    /\ pc[a] = "restore"
    /\ todo[a] = {}
    /\ Jump(a, "fail")

Reject(a) ==
    /\ pc[a] = "reject"
    /\ Settle(a, "failed")
    /\ UNCHANGED journalVars

-----------------------------------------------------------------------------
(* remove deletes the directory of a resource, its entry in the lockfile   *)
(* and marks its entry in the database, without a transaction.             *)

RemoveMove(r, step) ==
    /\ removing' = [removing EXCEPT ![r] = step]
    /\ UNCHANGED <<pc, result, snapshot, localVars, crashes>>
    /\ UNCHANGED journalVars

RemoveGoto(r, step) == RemoveMove(r, step) /\ UNCHANGED forgiven

RemoveStart(r) ==
    /\ removing[r] = "idle"
    /\ r \in Removable /\ UserMayCall
    /\ RemoveGoto(r, "files")
    /\ UNCHANGED <<storeVars, rmStale>>

RemoveFile(r) ==
    /\ removing[r] = "files"
    /\ \E f \in Files :
          /\ disk[r][f] # "absent"
          /\ disk' = [disk EXCEPT ![r][f] = "absent"]
    /\ RemoveGoto(r, "files")
    /\ UNCHANGED <<lockfile, database, rmStale>>

\* Files that an install brings meanwhile may be left: the directory is not
\* empty, and the error is ignored.
RemoveFilesEnd(r) ==
    /\ removing[r] = "files"
    /\ \/ \A f \in Files : disk[r][f] = "absent"
       \/ \E a \in Tx : Running(a)
    /\ RemoveGoto(r, "read-lock")
    /\ UNCHANGED <<storeVars, rmStale>>

\* Without a lockfile, or with one that does not parse, nothing is written.
RemoveReadLock(r) ==
    /\ removing[r] = "read-lock"
    /\ \/ /\ lockfile = NoLockfile \/ LockInFlux
          /\ RemoveGoto(r, "read-db")
          /\ UNCHANGED rmStale
       \/ /\ lockfile # NoLockfile
          /\ RemoveGoto(r, "write-lock")
          /\ rmStale' = [rmStale EXCEPT ![r] = lockfile]
    /\ UNCHANGED storeVars

RemoveWriteLock(r) ==
    /\ removing[r] = "write-lock"
    /\ lockfile' = [rmStale[r] EXCEPT ![r] = "none"]
    /\ RemoveGoto(r, "read-db")
    /\ UNCHANGED <<disk, database, rmStale>>

\* A resource without an entry is an error, which is ignored.
RemoveReadDatabase(r) ==
    /\ removing[r] = "read-db"
    /\ \/ /\ database[r] = "none" \/ DatabaseInFlux
          /\ RemoveGoto(r, "done")
          /\ UNCHANGED rmStale
       \/ /\ database[r] # "none"
          /\ RemoveGoto(r, "write-db")
          /\ rmStale' = [rmStale EXCEPT ![r] = database]
    /\ UNCHANGED storeVars

RemoveWriteDatabase(r) ==
    /\ removing[r] = "write-db"
    /\ database' = [rmStale[r] EXCEPT ![r] = "removed"]
    /\ RemoveGoto(r, "done")
    /\ UNCHANGED <<disk, lockfile, rmStale>>

\* So is an error of the lockfile, or of the database.
RemoveFails(r) ==
    /\ \/ /\ "lock" \in MayFail
          /\ removing[r] \in {"read-lock", "write-lock"}
          /\ RemoveMove(r, "read-db")
          /\ UNCHANGED database
       \/ /\ "database" \in MayFail
          /\ removing[r] \in {"read-db", "write-db"}
          /\ DatabaseAfterError(removing[r] = "write-db")
          /\ RemoveMove(r, "done")
    /\ forgiven' = forgiven \cup LeftWith(r)
    /\ UNCHANGED <<disk, lockfile, rmStale>>

RemoveStep(r) ==
    \/ RemoveFile(r) \/ RemoveFilesEnd(r)
    \/ RemoveReadLock(r) \/ RemoveWriteLock(r)
    \/ RemoveReadDatabase(r) \/ RemoveWriteDatabase(r) \/ RemoveFails(r)

-----------------------------------------------------------------------------
InstallStep(a) ==
    \/ OpenStore(a) \/ StoreOpened(a) \/ Create(a) \/ CreateFails(a)
    \/ UpdateRead(a) \/ UpdateWrite(a) \/ UpdateReturns(a) \/ UpdateThrows(a)
    \/ TakeSnapshot(a) \/ SnapshotFails(a)
    \/ WriteStub(a) \/ FetchManifest(a) \/ FetchManifestFails(a)
    \/ FetchFile(a) \/ FetchEnds(a)
    \/ ReadBack(a) \/ ReachWriteStage(a) \/ WriteFile(a) \/ Throws(a)
    \/ PipelineEnds(a) \/ DependenciesEnd(a) \/ DependencyFails(a)
    \/ InstallHook(a) \/ ReadLock(a) \/ WriteLock(a) \/ LockFails(a)
    \/ ReadDatabase(a) \/ WriteDatabase(a) \/ DatabaseFails(a)
    \/ Return(a) \/ Catch(a) \/ RestoreFile(a) \/ RestoreEnds(a) \/ Reject(a)

\* The handlers are installed when the recovery is over.  The handler does
\* not end the process: the installs go on.
Signal ==
    /\ MaxSignals > 0
    /\ sweep[StartupRecovery].phase = "done"
    /\ SweepStart(SignalHandler)
    /\ UNCHANGED installVars

Sweep(h) ==
    /\ \/ SweepStep(h)
       \/ /\ "journal" \in MayFail
          /\ SweepListFails(h) \/ \E id \in Tx : SweepMisses(h, id)
    /\ UNCHANGED installVars

\* The files that are being rewritten in place, of which a crash may leave
\* one torn for each install.
InPlace(a) ==
    CASE pc[a] = "stub" -> PathsOf(a, {Manifest})
      [] pc[a] \in {"write", "restore"} -> todo[a]
      [] OTHER -> {}

Crash ==
    /\ crashes < MaxCrashes
    /\ \E torn \in SUBSET UNION {InPlace(a) : a \in Tx} :
          /\ \A a \in Tx : Cardinality(torn \cap InPlace(a)) <= 1
          /\ disk' = [r \in Res |-> [f \in Files |->
                         IF <<r, f>> \in torn THEN "torn" ELSE disk[r][f]]]
          /\ lockfile' = IF LockPath \in torn THEN NoLockfile ELSE lockfile
    /\ \/ UNCHANGED database
       \/ DatabaseInFlux /\ database' = NoEntries
    /\ pc' = [a \in Tx |-> IF Running(a) THEN "dead" ELSE pc[a]]
    /\ removing' = [r \in Res |->
                       IF Removing(r) THEN "dead" ELSE removing[r]]
    /\ rmStale' = [r \in Res |-> NoEntries]
    /\ crashes' = crashes + 1
    /\ snapshot' = [a \in Tx |-> NoSnapshot]
    /\ fetched' = [a \in Tx |-> {}]
    /\ content' = [a \in Tx |-> [f \in Files |-> "absent"]]
    /\ todo' = [a \in Tx |-> {}]
    /\ stale' = [a \in Tx |-> NoEntries]
    /\ UNCHANGED <<result, forgiven>>
    /\ JournalCrash

Next ==
    \/ \E a \in Tx : Start(a) \/ InstallStep(a)
    \/ \E r \in Res : RemoveStart(r) \/ RemoveStep(r)
    \/ Signal
    \/ \E h \in Sweepers : Sweep(h)
    \/ Crash

\* Every await of an install ends: file operations return; a request has a
\* timer up to the headers of its response, and a body that stalls is given
\* up by fetch itself.
Fairness ==
    /\ \A a \in Tx : WF_vars(InstallStep(a) \/ (a \notin Roots /\ Start(a)))
    /\ \A r \in Res : WF_vars(RemoveStep(r))
    /\ \A h \in Sweepers : WF_vars(Sweep(h))

Spec == Init /\ [][Next]_vars
FairSpec == Spec /\ Fairness

-----------------------------------------------------------------------------
\* The journal has the file of a transaction that installs resource r.  (It is
\* readable unless two flows write it at once: JournalConsistent.)
Journaled(r) == \E a \in Tx : ResourceOf[a] = r /\ txFile[a] # NoTx

\* Write-ahead: whatever version an install brings, be it a file, a lockfile
\* entry or a database entry, there is a record on disk of a transaction that
\* installs the resource, whoever restored or rewrote what meanwhile
\* (createTransaction: "persist intent before mutation").
NewIsJournaled ==
    \A r \in Res :
        \/ \E f \in Files : disk[r][f] = "new"
        \/ LockEntries[r] = "new"
        \/ database[r] = "new"
        => Journaled(r)

\* Why it holds, as an inductive invariant: the copies that calls hold of
\* files and entries, and may write back later, are journaled as well.
CopiesAreJournaled ==
    /\ \A a \in Tx, r \in Res : stale[a][r] = "new" => Journaled(r)
    /\ \A q \in Res, r \in Res : rmStale[q][r] = "new" => Journaled(r)
    /\ \A a \in Tx, f \in Files :
           content[a][f] = "new" => Journaled(ResourceOf[a])
    /\ \A a \in Tx, r \in Res : snapshot[a] # NoSnapshot =>
           /\ \A f \in Files : snapshot[a].tree[r][f] = "new" => Journaled(r)
           /\ snapshot[a].lock # NoLockfile /\ snapshot[a].lock[r] = "new"
                  => Journaled(r)

NewInv ==
    /\ NewIsJournaled
    /\ CopiesAreJournaled
    /\ \A a \in Tx : pc[a] \notin BeforeCreate \cup Ended => txFile[a] # NoTx
    /\ \A a \in Tx : pc[a] \in {"fetch", "write"}
                         => todo[a] \subseteq PathsOf(a, Files)

\* The lockfile, the database and the files of resource r tell one version.
\* Neither says anything of the files of a resource that is not installed.
Agree(r) ==
    LET recorded == IF database[r] = "removed" THEN "none" ELSE database[r]
    IN  /\ LockEntries[r] = recorded
        /\ recorded # "none" => \A f \in Files : disk[r][f] = recorded

\* The lockfile and the database record what landed: where they disagree with
\* each other or with the files, a transaction that the next run can see is
\* still active, even when the process died in the middle (install, its
\* catch clause, restore).  Only a remove that is under way, or died, goes
\* without one.  The code owns up to its failures but for those that it passes
\* over: a manifest or file that is not downloaded, the lockfile or the
\* database not written, a file not restored, no snapshot to restore, and the
\* database once markCommitted has failed.
RecordsWhatLanded ==
    \A r \in Res \ forgiven :
        \/ Agree(r)
        \/ \E a \in Tx : Readable(a) /\ ~IsTerminal(a)
        \/ \E q \in Res : removing[q] \notin {"idle", "done"}

\* The transactions of installs keep the promises of InstallLifecycle: they
\* commit after those of their dependencies, never leave a terminal status,
\* agree with what the caller is told, and stay active after a crash.
Phase(st) ==
    CASE st = "none" -> "none"
      [] st = "committed" -> "committed"
      [] st \in {"failed", "rolled-back"} -> "failed"
      [] OTHER -> "active"

Lifecycle == INSTANCE InstallLifecycle WITH
    Needs <- [a \in Tx |-> Deps(a)],
    phase <- [a \in Tx |-> Phase(StatusOf(a))],
    answer <- result,
    lost <- {a \in Tx : pc[a] = "dead"}

KeepsLifecycle == Lifecycle!Spec

\* Every call of install and of remove settles: with the signal handler, the
\* recovery and each other beside them, and whatever update of the journal
\* fails, none waits for ever (install awaits the recovery and its updates,
\* whose temporary file the handler may rename first; remove deletes a
\* directory that an install may be filling).
CallsSettle ==
    /\ \A a \in Tx : Running(a) ~> ~Running(a)
    /\ \A r \in Res : Removing(r) ~> ~Removing(r)

\* An install changes files, lockfile and database only while its transaction
\* is on disk and not terminal, in its catch clause as well: markFailed comes
\* after the restore.
WritesUnderTransaction ==
    [][\A a \in Tx :
          /\ pc'[a] # "dead"
          /\ pc'[a] # pc[a] \/ todo'[a] # todo[a]
          /\ <<disk, lockfile, database>>' # <<disk, lockfile, database>>
          => StatusOf(a) \in Statuses \ TerminalStatuses]_vars

-----------------------------------------------------------------------------
(* What the documentation says of the program, and the code does not do.    *)

\* docs/installation.md:43, "failed downloads never corrupt existing files":
\* the files of a resource that nobody installs keep their content.
BystandersUntouched ==
    \A r \in Res : (\A a \in Tx : ResourceOf[a] # r)
                      => \A f \in Files : disk[r][f] \in {"absent", "old"}
=============================================================================
