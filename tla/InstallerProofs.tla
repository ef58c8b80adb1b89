--------------------------- MODULE InstallerProofs ---------------------------
(***************************************************************************)
(* Theorems about Installer, for any resources, files, plans of            *)
(* dependencies and failures, any number of installs and removes at a      *)
(* time, and without the bounds on signals and crashes playing a role.     *)
(* The last three theorems are about processes that receive no signal: the *)
(* handler of a signal marks the transactions of installs that go on.  The *)
(* very last is about calls that do not overlap, of installs without       *)
(* dependencies and with files that are text.                              *)
(***************************************************************************)
EXTENDS Installer, TransactionJournalProofs, FiniteSetTheorems

\* The types of the installer's own variables; those of the store are in
\* JournalInv.
InstallTypeOK ==
    /\ pc \in [Tx -> Steps]
    /\ result \in [Tx -> {"none", "ok", "failed"}]
    /\ disk \in Trees
    /\ lockfile \in Entries \cup {NoLockfile}
    /\ database \in Entries
    /\ snapshot \in [Tx -> Snapshots \cup {NoSnapshot}]
    /\ fetched \in [Tx -> SUBSET Files]
    /\ content \in [Tx -> [Files -> Contents]]
    /\ todo \in [Tx -> SUBSET Paths]
    /\ stale \in [Tx -> Entries]
    /\ removing \in [Res -> RemoveSteps]
    /\ rmStale \in [Res -> Entries]
    /\ crashes \in Nat
    /\ forgiven \subseteq Res

\* An install is inside updateTransaction only where it makes an update.
CallsAtUpdates == \A a \in Tx : call[a] # NoCall => AtUpdate(a)

\* An install fetches and writes files of its own resource, and restores
\* files when it has a snapshot.
OwnFiles ==
    \A a \in Tx :
        /\ pc[a] \in {"fetch", "write"} => todo[a] \subseteq PathsOf(a, Files)
        /\ pc[a] = "restore" => snapshot[a] # NoSnapshot

TypeInv ==
    /\ JournalInv
    /\ InstallTypeOK
    /\ CallsAtUpdates
    /\ OwnFiles

-----------------------------------------------------------------------------
\* The installer's update table.
LEMMA UpdatesTable ==
    /\ DOMAIN Updates = {"record", "prepare", "writing", "commit", "fail"}
    /\ \A u \in DOMAIN Updates : /\ Updates[u].set \in Statuses \cup {"same"}
                                 /\ Updates[u].next \in Steps
                                 /\ Updates[u].throw \in Steps
  BY DEF Updates, Statuses, Steps

LEMMA NamesInTypes ==
    /\ {"idle", "create", "initialize", "snapshot", "stub", "manifest",
        "fetch", "read-back", "pipeline", "write", "dependencies", "hook",
        "read-lock", "write-lock", "read-db", "write-db", "catch", "restore",
        "return", "reject", "settled", "dead", "record", "prepare",
        "writing", "commit", "fail"} \subseteq Steps
    /\ NoEntries \in Entries
    /\ [f \in Files |-> "absent"] \in [Files -> Contents]
    /\ \A a \in Tx, files \in SUBSET Files :
           PathsOf(a, files) \subseteq Res \X Files
    /\ \A a \in Tx : ResourceOf[a] \in Res
  BY UpdatesTable, InstallerAssumption
  DEF Steps, NoEntries, Entries, Versions, Contents, PathsOf

\* Who is who among the callers of the journal.
LEMMA InstallsAreCallers ==
    /\ \A a \in Tx : a \in Callers /\ a \notin Sweepers
    /\ StartupRecovery \in Sweepers /\ SignalHandler \in Sweepers
    /\ Sweepers \subseteq Callers
  BY InstallerAssumption, CallersAssumption DEF Callers, Sweepers

LEMMA InitTypeInv == Init => TypeInv
<1> SUFFICES ASSUME Init
             PROVE  TypeInv
  OBVIOUS
<1>1. JournalInv
  BY JournalInitInv DEF Init
<1>2. CallsAtUpdates
  BY InstallsAreCallers DEF Init, JournalInit, CallsAtUpdates
<1>3. InstallTypeOK
  BY NamesInTypes
  DEF Init, InstallTypeOK, Trees, Contents, Entries, Versions, RemoveSteps
<1>4. OwnFiles
  BY DEF Init, OwnFiles
<1> QED
  BY <1>1, <1>2, <1>3, <1>4 DEF TypeInv

-----------------------------------------------------------------------------
(* Steps that leave the journal alone. *)

\* Install a, outside of an update, takes a step of its own.
LEMMA OwnStep ==
    ASSUME TypeInv, NEW a \in Tx, ~AtUpdate(a), UNCHANGED journalVars,
           InstallTypeOK',
           \A b \in Tx \ {a} : /\ pc'[b] = pc[b] /\ todo'[b] = todo[b]
                               /\ snapshot'[b] = snapshot[b],
           pc'[a] \in {"fetch", "write"} => todo'[a] \subseteq PathsOf(a, Files),
           pc'[a] = "restore" => snapshot'[a] # NoSnapshot
    PROVE  TypeInv'
<1>1. JournalInv'
  BY UnchangedInv DEF TypeInv
<1>2. CallsAtUpdates'
  BY DEF TypeInv, CallsAtUpdates, journalVars, AtUpdate
<1>3. OwnFiles'
  BY DEF TypeInv, OwnFiles, PathsOf
<1> QED
  BY <1>1, <1>2, <1>3 DEF TypeInv

LEMMA GotoTyped ==
    ASSUME InstallTypeOK, NEW a \in Tx, NEW step \in Steps, Goto(a, step)
    PROVE  /\ pc' \in [Tx -> Steps] /\ pc'[a] = step
           /\ \A b \in Tx \ {a} : pc'[b] = pc[b]
  BY DEF Goto, InstallTypeOK

LEMMA MoveTyped ==
    ASSUME InstallTypeOK, NEW a \in Tx, NEW step \in Steps, Move(a, step)
    PROVE  InstallTypeOK'
  BY GotoTyped
  DEF Move, InstallTypeOK, storeVars, localVars, otherVars

LEMMA JumpTyped ==
    ASSUME TypeInv, NEW a \in Tx, NEW step \in Steps \ {"fetch", "write", "restore"},
           ~AtUpdate(a), Jump(a, step)
    PROVE  TypeInv'
<1>1. InstallTypeOK'
  BY MoveTyped DEF Jump, TypeInv
<1>2. pc'[a] = step /\ \A b \in Tx \ {a} : pc'[b] = pc[b]
  BY GotoTyped DEF Jump, Move, TypeInv
<1> QED
  BY <1>1, <1>2, OwnStep DEF Jump, Move, localVars

LEMMA SettleTyped ==
    ASSUME TypeInv, NEW a \in Tx, ~AtUpdate(a), UNCHANGED journalVars,
           NEW how \in {"ok", "failed"}, Settle(a, how)
    PROVE  TypeInv'
<1>1. /\ pc' \in [Tx -> Steps] /\ pc'[a] = "settled"
      /\ \A b \in Tx \ {a} : pc'[b] = pc[b]
  BY GotoTyped, NamesInTypes DEF Settle, TypeInv
<1>2. InstallTypeOK'
  BY <1>1, NamesInTypes
  DEF Settle, TypeInv, InstallTypeOK, otherVars
<1>3. \A b \in Tx \ {a} : todo'[b] = todo[b] /\ snapshot'[b] = snapshot[b]
  BY DEF Settle
<1> QED
  BY <1>1, <1>2, <1>3, OwnStep

\* Where an install is not inside an update.
LEMMA OutsideUpdates ==
    ASSUME NEW a \in Tx,
           pc[a] \in {"idle", "create", "initialize", "snapshot", "stub",
                      "manifest", "fetch", "read-back", "pipeline", "write",
                      "dependencies", "hook", "read-lock", "write-lock",
                      "read-db", "write-db", "catch", "restore", "return",
                      "reject"}
    PROVE  ~AtUpdate(a)
  BY UpdatesTable DEF AtUpdate

\* The steps that only move an install.
JumpStep(a) ==
    \/ StoreOpened(a) \/ SnapshotFails(a) \/ FetchEnds(a) \/ PipelineEnds(a)
    \/ DependenciesEnd(a) \/ DependencyFails(a) \/ InstallHook(a)
    \/ RestoreEnds(a)

\* The steps that end an install; a start may end it at once.
EndStep(a) == CreateFails(a) \/ Return(a) \/ Reject(a)

\* The steps on files, lockfile and database, and on what a call knows of
\* them.
FileStep(a) ==
    \/ TakeSnapshot(a) \/ WriteStub(a) \/ FetchManifest(a) \/ FetchFile(a)
    \/ ReadBack(a) \/ ReachWriteStage(a) \/ WriteFile(a) \/ Throws(a)
    \/ ReadLock(a) \/ WriteLock(a) \/ ReadDatabase(a) \/ WriteDatabase(a)
    \/ Catch(a) \/ RestoreFile(a) \/ FetchManifestFails(a) \/ LockFails(a)
    \/ DatabaseFails(a)

LEMMA JumpSteps ==
    ASSUME NEW a \in Tx, JumpStep(a)
    PROVE  /\ ~AtUpdate(a)
           /\ \E step \in Steps \ {"fetch", "write", "restore"} : Jump(a, step)
<1>1. ~AtUpdate(a)
  BY OutsideUpdates
  DEF JumpStep, StoreOpened, SnapshotFails, FetchEnds, PipelineEnds,
      DependenciesEnd, DependencyFails, InstallHook, RestoreEnds
<1>2. \E step \in Steps \ {"fetch", "write", "restore"} : Jump(a, step)
  BY NamesInTypes
  DEF JumpStep, StoreOpened, SnapshotFails, FetchEnds, PipelineEnds,
      DependenciesEnd, DependencyFails, InstallHook, RestoreEnds
<1> QED
  BY <1>1, <1>2

LEMMA EndSteps ==
    ASSUME NEW a \in Tx, EndStep(a)
    PROVE  /\ ~AtUpdate(a) /\ UNCHANGED journalVars
           /\ \E how \in {"ok", "failed"} : Settle(a, how)
  BY OutsideUpdates DEF EndStep, CreateFails, Return, Reject

LEMMA FileSteps ==
    ASSUME NEW a \in Tx, FileStep(a)
    PROVE  ~AtUpdate(a) /\ UNCHANGED journalVars
  BY OutsideUpdates
  DEF FileStep, TakeSnapshot, WriteStub, FetchManifest, FetchFile, ReadBack,
      ReachWriteStage, WriteFile, Throws, ReadLock, WriteLock, ReadDatabase,
      WriteDatabase, Catch, RestoreFile, FetchManifestFails, LockFails,
      DatabaseFails

LEMMA WriteOneFile ==
    ASSUME NEW tree \in Trees, NEW r \in Res, NEW f \in Files,
           NEW cont \in Contents
    PROVE  [tree EXCEPT ![r][f] = cont] \in Trees
  BY DEF Trees

\* A path of a snapshot, restored or not.
LEMMA RestoredTyped ==
    ASSUME InstallTypeOK, NEW a \in Tx, snapshot[a] \in Snapshots,
           NEW path \in Paths, Restored(a, path) \/ NotRestored(path)
    PROVE  /\ lockfile' \in Entries \cup {NoLockfile} /\ disk' \in Trees
           /\ forgiven' \subseteq Res /\ UNCHANGED <<removing, rmStale, crashes>>
<1>t. /\ disk \in Trees /\ lockfile \in Entries \cup {NoLockfile}
      /\ forgiven \subseteq Res /\ "torn" \in Contents
  BY DEF InstallTypeOK, Contents
<1>1. CASE path = LockPath
  BY <1>1, <1>t DEF Restored, NotRestored, Forgive, otherVars, Snapshots
<1>2. CASE path # LockPath
  <2>1. path[1] \in Res /\ path[2] \in Files
    BY <1>2 DEF Paths
  <2>2. /\ snapshot[a].tree[path[1]][path[2]] \in Contents
        /\ disk[path[1]][path[2]] \in Contents
    BY <1>t, <2>1 DEF Snapshots, Trees
  <2>3. PICK c \in Contents : disk' = [disk EXCEPT ![path[1]][path[2]] = c]
    BY <1>2, <1>t, <2>2 DEF Restored, NotRestored
  <2>p. PICK r \in Res, f \in Files : r = path[1] /\ f = path[2]
    BY <2>1
  <2>4. disk' \in Trees
    BY <1>t, <2>3, <2>p, WriteOneFile
  <2>5. UNCHANGED lockfile
    BY <1>2 DEF Restored, NotRestored
  <2>6. forgiven' \subseteq Res /\ UNCHANGED <<removing, rmStale, crashes>>
    BY <1>2, <1>t, <2>1 DEF Restored, NotRestored, Forgive, otherVars
  <2> QED
    BY <1>t, <2>4, <2>5, <2>6
<1> QED
  BY <1>1, <1>2

LEMMA FileStepTyped ==
    ASSUME TypeInv, NEW a \in Tx, FileStep(a)
    PROVE  TypeInv'
<1>t. /\ pc \in [Tx -> Steps] /\ disk \in Trees
      /\ result \in [Tx -> {"none", "ok", "failed"}]
      /\ lockfile \in Entries \cup {NoLockfile} /\ database \in Entries
      /\ snapshot \in [Tx -> Snapshots \cup {NoSnapshot}]
      /\ fetched \in [Tx -> SUBSET Files]
      /\ content \in [Tx -> [Files -> Contents]]
      /\ todo \in [Tx -> SUBSET Paths] /\ stale \in [Tx -> Entries]
      /\ removing \in [Res -> RemoveSteps] /\ rmStale \in [Res -> Entries]
      /\ crashes \in Nat /\ forgiven \subseteq Res
      /\ ResourceOf[a] \in Res /\ Manifest \in Files
      /\ pc[a] \in {"fetch", "write"} => todo[a] \subseteq PathsOf(a, Files)
      /\ pc[a] = "restore" => snapshot[a] # NoSnapshot
      /\ {"new", "absent", "mangled", "torn"} \subseteq Contents
      /\ "new" \in Versions
  BY InstallerAssumption
  DEF TypeInv, InstallTypeOK, OwnFiles, Contents, Versions
<1> SUFFICES /\ InstallTypeOK'
             /\ \A b \in Tx \ {a} : /\ pc'[b] = pc[b] /\ todo'[b] = todo[b]
                                    /\ snapshot'[b] = snapshot[b]
             /\ pc'[a] \in {"fetch", "write"}
                   => todo'[a] \subseteq PathsOf(a, Files)
             /\ pc'[a] = "restore" => snapshot'[a] # NoSnapshot
  BY FileSteps, OwnStep
<1> USE NamesInTypes
<1>1. CASE TakeSnapshot(a)
  <2>1. CopyOfDestination \in Snapshots
    BY <1>t DEF CopyOfDestination, Snapshots, Trees, Decoded
  <2> QED
    BY <1>1, <1>t, <2>1
    DEF TakeSnapshot, Goto, InstallTypeOK, storeVars, localVars, otherVars
<1>2. CASE WriteStub(a)
  BY <1>2, <1>t DEF WriteStub, Goto, InstallTypeOK, Trees, otherVars
<1>3. CASE FetchManifest(a)
  BY <1>3, <1>t
  DEF FetchManifest, Goto, InstallTypeOK, PathsOf, Paths, storeVars, otherVars
<1>4. CASE FetchFile(a)
  <2>1. PICK path \in todo[a] :
           /\ todo' = [todo EXCEPT ![a] = todo[a] \ {path}]
           /\ \/ /\ disk' = [disk EXCEPT ![path[1]][path[2]] = "new"]
                 /\ fetched' = [fetched EXCEPT
                                   ![a] = fetched[a] \cup {path[2]}]
                 /\ UNCHANGED otherVars
              \/ Forgive({path[1]}) /\ UNCHANGED <<disk, fetched>>
    BY <1>4, <1>t DEF FetchFile
  <2>2. path[1] \in Res /\ path[2] \in Files
    BY <1>4, <1>t, <2>1 DEF FetchFile, PathsOf
  <2>3. disk' \in Trees
    BY <1>t, <2>1, <2>2, WriteOneFile
  <2>4. fetched' \in [Tx -> SUBSET Files]
    BY <1>t, <2>1, <2>2
  <2>5. forgiven' \subseteq Res /\ UNCHANGED <<removing, rmStale, crashes>>
    BY <1>t, <2>1, <2>2 DEF Forgive, otherVars
  <2> QED
    BY <1>4, <1>t, <2>1, <2>3, <2>4, <2>5 DEF FetchFile, InstallTypeOK
<1>5. CASE ReadBack(a)
  BY <1>5, <1>t
  DEF ReadBack, Goto, InstallTypeOK, Decoded, Trees, storeVars, otherVars
<1>6. CASE ReachWriteStage(a)
  BY <1>6, <1>t
  DEF ReachWriteStage, Goto, InstallTypeOK, PathsOf, Paths, storeVars, otherVars
<1>7. CASE WriteFile(a)
  BY <1>7, <1>t DEF WriteFile, InstallTypeOK, PathsOf, Trees, otherVars
<1>8. CASE Throws(a)
  BY <1>8, <1>t DEF Throws, Goto, InstallTypeOK, storeVars, otherVars
<1>9. CASE ReadLock(a)
  BY <1>9, <1>t
  DEF ReadLock, LockEntries, Goto, InstallTypeOK, storeVars, otherVars
<1>10. CASE WriteLock(a)
  BY <1>10, <1>t
  DEF WriteLock, Goto, InstallTypeOK, Entries, localVars, otherVars
<1>11. CASE ReadDatabase(a)
  BY <1>11, <1>t DEF ReadDatabase, Goto, InstallTypeOK, storeVars, otherVars
<1>12. CASE WriteDatabase(a)
  BY <1>12, <1>t
  DEF WriteDatabase, Goto, InstallTypeOK, Entries, localVars, otherVars
<1>13. CASE Catch(a)
  <2>1. snapshot[a] # NoSnapshot => SnapshotPaths(snapshot[a]) \subseteq Paths
    BY DEF SnapshotPaths, Paths
  <2>2. forgiven' \subseteq Res /\ UNCHANGED <<removing, rmStale, crashes>>
    BY <1>13, <1>t DEF Catch, Forgive, otherVars
  <2> QED
    BY <1>13, <1>t, <2>1, <2>2 DEF Catch, Goto, InstallTypeOK, storeVars
<1>14. CASE RestoreFile(a)
  <2>1. PICK path \in todo[a] :
           /\ Restored(a, path) \/ NotRestored(path)
           /\ todo' = [todo EXCEPT ![a] = todo[a] \ {path}]
    BY <1>14, <1>t DEF RestoreFile
  <2>2. path \in Paths /\ snapshot[a] \in Snapshots
    BY <1>14, <1>t, <2>1 DEF RestoreFile
  <2>3. /\ lockfile' \in Entries \cup {NoLockfile} /\ disk' \in Trees
        /\ forgiven' \subseteq Res /\ UNCHANGED <<removing, rmStale, crashes>>
    BY <2>1, <2>2, RestoredTyped DEF TypeInv
  <2> QED
    BY <1>14, <1>t, <2>1, <2>3 DEF RestoreFile, InstallTypeOK
<1>15. CASE FetchManifestFails(a) \/ LockFails(a)
  <2>1. forgiven' \subseteq Res /\ UNCHANGED <<removing, rmStale, crashes>>
    BY <1>15, <1>t DEF FetchManifestFails, LockFails, PassOver, Forgive
  <2>2. \E step \in {"writing", "read-db"} : Goto(a, step)
    BY <1>15 DEF FetchManifestFails, LockFails, PassOver
  <2>3. UNCHANGED <<result, storeVars, snapshot, localVars>>
    BY <1>15 DEF FetchManifestFails, LockFails, PassOver
  <2> QED
    BY <1>t, <2>1, <2>2, <2>3 DEF Goto, InstallTypeOK, storeVars, localVars
<1>16. CASE DatabaseFails(a)
  <2>1. forgiven' \subseteq Res /\ UNCHANGED <<removing, rmStale, crashes>>
    BY <1>16, <1>t DEF DatabaseFails, LeftWith, Forgive
  <2>2. database' \in Entries
    BY <1>16, <1>t DEF DatabaseFails, DatabaseAfterError
  <2> QED
    BY <1>16, <1>t, <2>1, <2>2 DEF DatabaseFails, Goto, InstallTypeOK, localVars
<1> QED
  BY <1>1, <1>2, <1>3, <1>4, <1>5, <1>6, <1>7, <1>8, <1>9, <1>10, <1>11,
     <1>12, <1>13, <1>14, <1>15, <1>16 DEF FileStep

-----------------------------------------------------------------------------
(* Steps that change the journal. *)

LEMMA JournalStepTyped ==
    ASSUME TypeInv, NEW a \in Tx,
           \/ OpenStore(a) \/ Create(a) \/ UpdateRead(a) \/ UpdateWrite(a)
           \/ UpdateReturns(a) \/ UpdateThrows(a)
    PROVE  TypeInv'
<1> USE NamesInTypes, InstallsAreCallers
<1>t. /\ JournalInv /\ InstallTypeOK
      /\ call \in [Callers -> Calls \cup {NoCall}]
      /\ sweep \in [Sweepers -> Sweeps]
      /\ \A b \in Tx : call[b] # NoCall => AtUpdate(b)
      /\ a \in Callers
  BY DEF TypeInv, CallsAtUpdates, JournalInv, JournalTypeOK
<1>m. \A step \in Steps \ {"fetch", "write", "restore"} :
         Move(a, step) => /\ InstallTypeOK' /\ OwnFiles'
                          /\ pc'[a] = step
                          /\ \A b \in Tx \ {a} : pc'[b] = pc[b]
  <2> SUFFICES ASSUME NEW step \in Steps \ {"fetch", "write", "restore"},
                      Move(a, step)
               PROVE  /\ InstallTypeOK' /\ OwnFiles'
                      /\ pc'[a] = step
                      /\ \A b \in Tx \ {a} : pc'[b] = pc[b]
    OBVIOUS
  <2>1. InstallTypeOK'
    BY <1>t, MoveTyped
  <2>2. pc'[a] = step /\ \A b \in Tx \ {a} : pc'[b] = pc[b]
    BY <1>t, GotoTyped DEF Move
  <2>3. OwnFiles'
    BY <2>2 DEF Move, TypeInv, OwnFiles, PathsOf, localVars
  <2> QED
    BY <2>1, <2>2, <2>3
<1>1. CASE OpenStore(a)
  <2>1. ~AtUpdate(a)
    BY <1>1, OutsideUpdates DEF OpenStore
  <2>2. JournalInv' /\ UNCHANGED call
    BY <1>1, <1>t, SweepStartInv DEF OpenStore, SweepStart
  <2>3. InstallTypeOK' /\ OwnFiles' /\ \A b \in Tx \ {a} : pc'[b] = pc[b]
    BY <1>1, <1>m DEF OpenStore
  <2>4. CallsAtUpdates'
    BY <1>t, <2>1, <2>2, <2>3 DEF CallsAtUpdates, AtUpdate
  <2> QED
    BY <2>2, <2>3, <2>4 DEF TypeInv
<1>2. CASE Create(a)
  <2>1. ~AtUpdate(a)
    BY <1>2, OutsideUpdates DEF Create
  <2>2. JournalInv' /\ UNCHANGED call
    BY <1>2, <1>t, CreateInv DEF Create, CreateTransaction
  <2>3. InstallTypeOK' /\ OwnFiles' /\ \A b \in Tx \ {a} : pc'[b] = pc[b]
    BY <1>2, <1>m DEF Create
  <2>4. CallsAtUpdates'
    BY <1>t, <2>1, <2>2, <2>3 DEF CallsAtUpdates, AtUpdate
  <2> QED
    BY <2>2, <2>3, <2>4 DEF TypeInv
<1>3. CASE UpdateRead(a)
  <2> DEFINE st == IF Updates[pc[a]].set = "same" THEN StatusOf(a)
                   ELSE Updates[pc[a]].set
  <2>1. AtUpdate(a) /\ ReadForUpdate(a, a, st) /\ UNCHANGED sweep
    BY <1>3 DEF UpdateRead
  <2>2. txFile[a] \in TxRecord
    BY <2>1 DEF ReadForUpdate, Readable
  <2>3. st \in Statuses
    BY <2>1, <2>2, UpdatesTable, ContentsDistinct DEF AtUpdate, StatusOf, TxRecord
  <2>4. JournalInv'
    BY <1>t, <2>1, <2>3, ReadInv
  <2>5. InstallTypeOK' /\ OwnFiles'
    BY <1>3 DEF UpdateRead, installVars, TypeInv, InstallTypeOK, OwnFiles, PathsOf
  <2>6. CallsAtUpdates'
    BY <1>3, <1>t, <2>1
    DEF UpdateRead, installVars, ReadForUpdate, CallsAtUpdates, AtUpdate
  <2> QED
    BY <2>4, <2>5, <2>6 DEF TypeInv
<1>4. CASE UpdateWrite(a)
  <2>1. JournalInv'
    BY <1>4, <1>t, OpenTmpInv, FillTmpInv DEF UpdateWrite
  <2>2. InstallTypeOK' /\ OwnFiles'
    BY <1>4 DEF UpdateWrite, installVars, TypeInv, InstallTypeOK, OwnFiles, PathsOf
  <2>3. \A b \in Tx \ {a} : call'[b] = call[b]
    BY <1>4, <1>t DEF UpdateWrite, OpenTmp, FillTmp
  <2>4. AtUpdate(a)
    BY <1>4, <1>t DEF UpdateWrite, OpenTmp, FillTmp
  <2>5. CallsAtUpdates'
    BY <1>4, <1>t, <2>3, <2>4
    DEF UpdateWrite, installVars, CallsAtUpdates, AtUpdate
  <2> QED
    BY <2>1, <2>2, <2>5 DEF TypeInv
<1>5. CASE UpdateReturns(a)
  <2>1. AtUpdate(a)
    BY <1>5, <1>t DEF UpdateReturns, RenameTmp
  <2>2. Updates[pc[a]].next \in Steps \ {"fetch", "write", "restore"}
    BY <2>1 DEF AtUpdate, Updates, Steps
  <2>3. InstallTypeOK' /\ OwnFiles' /\ \A b \in Tx \ {a} : pc'[b] = pc[b]
    BY <1>5, <1>m, <2>2 DEF UpdateReturns
  <2>4. JournalInv'
    BY <1>5, <1>t, RenameTmpInv DEF UpdateReturns
  <2>5. \A b \in Tx \ {a} : call'[b] # NoCall => call[b] # NoCall
    <3> SUFFICES ASSUME NEW b \in Tx \ {a}
                 PROVE  call'[b] # NoCall => call[b] # NoCall
      OBVIOUS
    <3>1. Stays(b, {})
      BY <1>5, <1>t, RenameStays DEF UpdateReturns, JournalInv
    <3> QED
      BY <3>1 DEF Stays
  <2>6. call'[a] = NoCall
    BY <1>5 DEF UpdateReturns, RenameTmp
  <2>7. CallsAtUpdates'
    BY <1>t, <2>3, <2>5, <2>6 DEF CallsAtUpdates, AtUpdate
  <2> QED
    BY <2>3, <2>4, <2>7 DEF TypeInv
<1>6. CASE UpdateThrows(a)
  <2>1. AtUpdate(a)
    BY <1>6, <1>t DEF UpdateThrows, RecordUnread, RenameFails, UpdateFails
  <2>2. Updates[pc[a]].throw \in Steps \ {"fetch", "write", "restore"}
    BY <2>1 DEF AtUpdate, Updates, Steps
  <2>3. PassOver(a, "catch") => InstallTypeOK'
    <3> SUFFICES ASSUME PassOver(a, "catch")
                 PROVE  InstallTypeOK'
      OBVIOUS
    <3>1. pc' \in [Tx -> Steps]
      BY <1>t, GotoTyped DEF PassOver
    <3> QED
      BY <1>t, <3>1
      DEF PassOver, Forgive, InstallTypeOK, storeVars, localVars
  <2>4. /\ InstallTypeOK' /\ \A b \in Tx \ {a} : pc'[b] = pc[b]
        /\ pc'[a] \notin {"fetch", "write", "restore"}
        /\ UNCHANGED <<snapshot, todo>>
    BY <1>6, <1>m, <1>t, <2>2, <2>3, GotoTyped
    DEF UpdateThrows, PassOver, Move, localVars
  <2>5. JournalInv'
    BY <1>6, <1>t, UpdateFailsInv, UnchangedInv DEF UpdateThrows, RecordUnread
  <2>6. call'[a] = NoCall /\ \A b \in Tx \ {a} : call'[b] = call[b]
    BY <1>6, <1>t
    DEF UpdateThrows, RecordUnread, RenameFails, UpdateFails, journalVars
  <2>7. CallsAtUpdates' /\ OwnFiles'
    BY <1>t, <2>4, <2>6 DEF CallsAtUpdates, AtUpdate, OwnFiles, TypeInv, PathsOf
  <2> QED
    BY <2>4, <2>5, <2>7 DEF TypeInv
<1> QED
  BY <1>1, <1>2, <1>3, <1>4, <1>5, <1>6

\* remove, and the flows that are no install.
LEMMA RemoveTyped ==
    ASSUME TypeInv, NEW r \in Res, RemoveStart(r) \/ RemoveStep(r)
    PROVE  TypeInv'
<1>t. /\ disk \in Trees /\ lockfile \in Entries \cup {NoLockfile}
      /\ database \in Entries /\ removing \in [Res -> RemoveSteps]
      /\ rmStale \in [Res -> Entries]
      /\ "absent" \in Contents /\ "none" \in Versions /\ "removed" \in Versions
  BY DEF TypeInv, InstallTypeOK, Contents, Versions
<1>0. ASSUME NEW step \in RemoveSteps, RemoveMove(r, step),
             disk' \in Trees, lockfile' \in Entries \cup {NoLockfile},
             database' \in Entries, rmStale' \in [Res -> Entries],
             forgiven' \subseteq Res
      PROVE  TypeInv'
  <2>1. JournalInv'
    BY <1>0, UnchangedInv DEF RemoveMove, TypeInv
  <2>2. InstallTypeOK'
    BY <1>0 DEF RemoveMove, TypeInv, InstallTypeOK, localVars
  <2>3. CallsAtUpdates' /\ OwnFiles'
    BY <1>0
    DEF RemoveMove, TypeInv, CallsAtUpdates, OwnFiles, AtUpdate, PathsOf,
        localVars, journalVars
  <2> QED
    BY <2>1, <2>2, <2>3 DEF TypeInv
<1>1. ASSUME NEW step \in RemoveSteps, RemoveGoto(r, step),
             disk' \in Trees, lockfile' \in Entries \cup {NoLockfile},
             database' \in Entries, rmStale' \in [Res -> Entries]
      PROVE  TypeInv'
  BY <1>0, <1>1 DEF RemoveGoto, TypeInv, InstallTypeOK
<1>2. {"files", "read-lock", "write-lock", "read-db", "write-db", "done"}
         \subseteq RemoveSteps
  BY DEF RemoveSteps
<1>3. CASE RemoveStart(r) \/ RemoveFilesEnd(r)
  BY <1>1, <1>2, <1>3, <1>t DEF RemoveStart, RemoveFilesEnd, storeVars
<1>8. CASE RemoveFails(r)
  <2>1. database' \in Entries
    BY <1>8, <1>t, NamesInTypes DEF RemoveFails, DatabaseAfterError
  <2>2. forgiven' \subseteq Res
    BY <1>8 DEF RemoveFails, LeftWith, TypeInv, InstallTypeOK
  <2> QED
    BY <1>0, <1>2, <1>8, <1>t, <2>1, <2>2 DEF RemoveFails
<1>4. CASE RemoveFile(r)
  <2>1. PICK f \in Files : disk' = [disk EXCEPT ![r][f] = "absent"]
    BY <1>4 DEF RemoveFile
  <2>2. disk' \in Trees
    BY <1>t, <2>1, WriteOneFile
  <2>3. RemoveGoto(r, "files") /\ UNCHANGED <<lockfile, database, rmStale>>
    BY <1>4 DEF RemoveFile
  <2> QED
    BY <1>1, <1>2, <1>t, <2>2, <2>3
<1>5. CASE RemoveReadLock(r) \/ RemoveReadDatabase(r)
  BY <1>1, <1>2, <1>5, <1>t DEF RemoveReadLock, RemoveReadDatabase, storeVars
<1>6. CASE RemoveWriteLock(r)
  <2>1. lockfile' \in Entries
    BY <1>6, <1>t DEF RemoveWriteLock, Entries
  <2> QED
    BY <1>1, <1>2, <1>6, <1>t, <2>1 DEF RemoveWriteLock
<1>7. CASE RemoveWriteDatabase(r)
  <2>1. database' \in Entries
    BY <1>7, <1>t DEF RemoveWriteDatabase, Entries
  <2> QED
    BY <1>1, <1>2, <1>7, <1>t, <2>1 DEF RemoveWriteDatabase
<1> QED
  BY <1>3, <1>4, <1>5, <1>6, <1>7, <1>8 DEF RemoveStep

\* A sweep puts no install inside an update.
LEMMA SweepCalls ==
    ASSUME TypeInv, NEW h \in Sweepers, Sweep(h), NEW a \in Tx
    PROVE  call'[a] # NoCall => call[a] # NoCall
<1>t. /\ h \in Callers /\ a \in Callers /\ a # h /\ JournalTypeOK
      /\ call \in [Callers -> Calls \cup {NoCall}]
  BY InstallsAreCallers DEF TypeInv, JournalInv, JournalTypeOK
<1>1. CASE RenameTmp(h)
  <2>1. Stays(a, {})
    BY <1>1, <1>t, RenameStays
  <2> QED
    BY <2>1 DEF Stays
<1>2. CASE ~RenameTmp(h)
  BY <1>2, <1>t
  DEF Sweep, SweepStep, SweepList, SweepRead, SweepScanned, SweepMark,
      ReadForUpdate, SweepSkip, SweepEnd, OpenTmp, FillTmp, RenameFails,
      SweepListFails, SweepMisses, UpdateFails
<1> QED
  BY <1>1, <1>2

LEMMA SweepsTyped ==
    ASSUME TypeInv, Signal \/ \E h \in Sweepers : Sweep(h)
    PROVE  TypeInv'
<1>1. JournalInv'
  BY InstallsAreCallers, SweepStartInv, SweepStepInv, SweepListErrorInv,
     SweepErrorInv
  DEF Signal, Sweep, TypeInv
<1>2. \A a \in Tx : call'[a] # NoCall => call[a] # NoCall
  BY SweepCalls DEF Signal, SweepStart
<1>3. UNCHANGED installVars
  BY DEF Signal, Sweep
<1> QED
  BY <1>1, <1>2, <1>3
  DEF TypeInv, InstallTypeOK, CallsAtUpdates, OwnFiles, AtUpdate, PathsOf,
      installVars

LEMMA CrashTyped ==
    ASSUME TypeInv, Crash
    PROVE  TypeInv'
<1> USE NamesInTypes
<1>1. JournalInv'
  BY CrashInv DEF Crash, TypeInv
<1>2. CallsAtUpdates' /\ OwnFiles'
  BY InstallsAreCallers
  DEF Crash, JournalCrash, Running, Ended, TypeInv, InstallTypeOK,
      CallsAtUpdates, OwnFiles
<1>3. /\ disk' \in Trees /\ pc' \in [Tx -> Steps]
      /\ removing' \in [Res -> RemoveSteps]
  BY DEF Crash, Trees, Contents, TypeInv, InstallTypeOK, RemoveSteps
<1> QED
  BY <1>1, <1>2, <1>3 DEF Crash, TypeInv, InstallTypeOK

LEMMA NextTypeInv == TypeInv /\ [Next]_vars => TypeInv'
<1> SUFFICES ASSUME TypeInv, [Next]_vars
             PROVE  TypeInv'
  OBVIOUS
<1>1. ASSUME NEW a \in Tx, Start(a) \/ InstallStep(a)
      PROVE  TypeInv'
  <2>1. CASE Start(a)
    BY <2>1, OutsideUpdates, NamesInTypes, JumpTyped, SettleTyped DEF Start
  <2>2. CASE JumpStep(a)
    BY <2>2, JumpSteps, JumpTyped
  <2>3. CASE EndStep(a)
    BY <2>3, EndSteps, SettleTyped
  <2>4. CASE FileStep(a)
    BY <2>4, FileStepTyped
  <2> QED
    BY <1>1, <2>1, <2>2, <2>3, <2>4, JournalStepTyped
    DEF InstallStep, JumpStep, EndStep, FileStep
<1>2. ASSUME NEW r \in Res, RemoveStart(r) \/ RemoveStep(r)
      PROVE  TypeInv'
  BY <1>2, RemoveTyped
<1>3. CASE UNCHANGED vars
  <2>1. JournalInv'
    BY <1>3, UnchangedInv DEF vars, journalVars, TypeInv
  <2> QED
    BY <1>3, <2>1
    DEF vars, TypeInv, InstallTypeOK, CallsAtUpdates, OwnFiles, AtUpdate, PathsOf
<1> QED
  BY <1>1, <1>2, <1>3, SweepsTyped, CrashTyped DEF Next

\* No flow of an install, a remove, the recovery or the signal handler, nor a
\* crash, leaves the types of the state.
THEOREM TypeCorrect == Spec => []TypeOK
<1>1. TypeInv => TypeOK
  BY DEF TypeInv, InstallTypeOK, JournalInv, TypeOK
<1> QED
  BY <1>1, InitTypeInv, NextTypeInv, PTL DEF Spec

\* Installs, with the signal handler and the recovery beside them, keep the
\* record of every transaction consistent, and readable unless two flows have
\* written it at once (_writeTransaction).
THEOREM JournalIsConsistent == Spec => []JournalConsistent
<1>1. TypeInv => JournalConsistent
  BY JournalInvConsistent DEF TypeInv
<1> QED
  BY <1>1, InitTypeInv, NextTypeInv, PTL DEF Spec

-----------------------------------------------------------------------------
(* Write-ahead.                                                            *)

Active(a) == pc[a] \notin BeforeCreate \cup Ended

\* No step removes the file of a transaction.
LEMMA JournalGrows ==
    ASSUME TypeInv, [Next]_vars, NEW id \in Tx, txFile[id] # NoTx
    PROVE  txFile'[id] # NoTx
<1>t. /\ txFile \in [Tx -> TxContents \cup {NoTx}]
      /\ txTmp \in [Tx -> TxContents \cup {NoTx}]
      /\ NewTx # NoTx
  BY NewTxWellFormed, AbsenceAssumption, ContentsDistinct
  DEF TypeInv, JournalInv, JournalTypeOK
<1>1. \A h \in Callers : RenameTmp(h) => txFile'[id] # NoTx
  BY <1>t DEF RenameTmp
<1>f. \A h \in Callers : FillTmp(h) => txFile'[id] # NoTx
  <2> SUFFICES ASSUME NEW h \in Callers, FillTmp(h)
               PROVE  txFile'[id] # NoTx
    OBVIOUS
  <2>1. call[h].rec # NoTx /\ Garbled # NoTx
    BY AbsenceAssumption, ContentsDistinct
    DEF FillTmp, TypeInv, JournalInv, JournalTypeOK, Calls
  <2>2. \/ UNCHANGED txFile
        \/ \E new \in {call[h].rec, Garbled} :
              txFile' = [txFile EXCEPT ![call[h].id] = new]
    BY DEF FillTmp, Overwritten
  <2> QED
    BY <1>t, <2>1, <2>2
<1>2. ASSUME NEW a \in Tx, Start(a) \/ InstallStep(a)
      PROVE  txFile'[id] # NoTx
  <2>1. CASE JumpStep(a)
    BY <2>1, JumpSteps DEF Jump, journalVars
  <2>2. CASE EndStep(a)
    BY <2>2, EndSteps DEF journalVars
  <2>3. CASE FileStep(a)
    BY <2>3, FileSteps DEF journalVars
  <2>4. CASE Create(a)
    BY <1>t, <2>4 DEF Create, CreateTransaction
  <2>5. CASE UpdateReturns(a)
    BY <1>1, <2>5, InstallsAreCallers DEF UpdateReturns
  <2>6. CASE Start(a) \/ OpenStore(a) \/ UpdateRead(a) \/ UpdateWrite(a)
             \/ UpdateThrows(a)
    BY <1>f, <2>6, InstallsAreCallers
    DEF Start, Jump, journalVars, OpenStore, SweepStart, UpdateRead,
        ReadForUpdate, UpdateWrite, OpenTmp, UpdateThrows, RecordUnread,
        RenameFails, UpdateFails
  <2> QED
    BY <1>2, <2>1, <2>2, <2>3, <2>4, <2>5, <2>6
    DEF InstallStep, JumpStep, EndStep, FileStep
<1>3. ASSUME NEW r \in Res, RemoveStart(r) \/ RemoveStep(r)
      PROVE  txFile'[id] # NoTx
  BY <1>3
  DEF RemoveStart, RemoveStep, RemoveFile, RemoveFilesEnd, RemoveReadLock,
      RemoveWriteLock, RemoveReadDatabase, RemoveWriteDatabase, RemoveFails,
      RemoveGoto, RemoveMove, journalVars
<1>4. ASSUME NEW h \in Sweepers, Sweep(h)
      PROVE  txFile'[id] # NoTx
  BY <1>1, <1>f, <1>4, InstallsAreCallers
  DEF Sweep, SweepStep, SweepList, SweepRead, SweepScanned, SweepMark,
      ReadForUpdate, SweepSkip, SweepEnd, OpenTmp, RenameFails,
      SweepListFails, SweepMisses, UpdateFails
<1>5. CASE Signal \/ Crash \/ UNCHANGED vars
  BY <1>5 DEF Signal, SweepStart, Crash, JournalCrash, vars
<1> QED
  BY <1>2, <1>3, <1>4, <1>5 DEF Next

\* What a step leaves in the stores, and in the copies that calls hold, of new
\* versions belongs to resources that were journaled before the step.
StoresJournaled ==
    \A r \in Res :
        /\ \A f \in Files : disk'[r][f] = "new" => Journaled(r)
        /\ lockfile' # NoLockfile /\ lockfile'[r] = "new" => Journaled(r)
        /\ database'[r] = "new" => Journaled(r)

StaleJournaled ==
    /\ \A a \in Tx, r \in Res : stale'[a][r] = "new" => Journaled(r)
    /\ \A q \in Res, r \in Res : rmStale'[q][r] = "new" => Journaled(r)

ContentJournaled ==
    \A a \in Tx, f \in Files : content'[a][f] = "new" => Journaled(ResourceOf[a])

SnapshotsJournaled ==
    \A a \in Tx, r \in Res : snapshot'[a] # NoSnapshot =>
        /\ \A f \in Files : snapshot'[a].tree[r][f] = "new" => Journaled(r)
        /\ snapshot'[a].lock # NoLockfile /\ snapshot'[a].lock[r] = "new"
               => Journaled(r)

LEMMA NewFrom ==
    ASSUME StoresJournaled, StaleJournaled, ContentJournaled, SnapshotsJournaled,
           \A id \in Tx : txFile[id] # NoTx => txFile'[id] # NoTx
    PROVE  NewIsJournaled' /\ CopiesAreJournaled'
<1>1. \A r : Journaled(r) => \E a \in Tx : ResourceOf[a] = r /\ txFile'[a] # NoTx
  BY DEF Journaled
<1>2. NewIsJournaled'
  BY <1>1 DEF StoresJournaled, NewIsJournaled, LockEntries, NoEntries, Journaled
<1>3. CopiesAreJournaled'
  BY <1>1
  DEF StaleJournaled, ContentJournaled, SnapshotsJournaled, CopiesAreJournaled,
      Journaled
<1> QED
  BY <1>2, <1>3

\* What a step leaves alone was journaled before.
LEMMA UnchangedNew ==
    ASSUME NewInv
    PROVE  /\ UNCHANGED <<disk, lockfile, database>> => StoresJournaled
           /\ UNCHANGED <<stale, rmStale>> => StaleJournaled
           /\ UNCHANGED content => ContentJournaled
           /\ UNCHANGED snapshot => SnapshotsJournaled
  BY DEF NewInv, NewIsJournaled, CopiesAreJournaled, LockEntries, NoEntries,
     StoresJournaled, StaleJournaled, ContentJournaled, SnapshotsJournaled

\* Nothing new is brought to a resource without a transaction, neither to the
\* stores nor to the copies that calls hold.
LEMMA FileStepNew ==
    ASSUME TypeInv, NewInv, NEW a \in Tx, FileStep(a)
    PROVE  /\ StoresJournaled /\ StaleJournaled
           /\ ContentJournaled /\ SnapshotsJournaled
<1>t. /\ disk \in Trees
      /\ lockfile \in Entries \cup {NoLockfile} /\ database \in Entries
      /\ snapshot \in [Tx -> Snapshots \cup {NoSnapshot}]
      /\ content \in [Tx -> [Files -> Contents]]
      /\ todo \in [Tx -> SUBSET Paths] /\ stale \in [Tx -> Entries]
      /\ ResourceOf[a] \in Res /\ Manifest \in Files
      /\ pc[a] \in {"fetch", "write"} => todo[a] \subseteq PathsOf(a, Files)
      /\ pc[a] = "restore" => snapshot[a] # NoSnapshot
  BY InstallerAssumption DEF TypeInv, InstallTypeOK, OwnFiles
<1>j. Journaled(ResourceOf[a])
  <2>1. txFile[a] # NoTx
    BY DEF NewInv, BeforeCreate, Ended, FileStep, TakeSnapshot, WriteStub,
       FetchManifest, FetchFile, ReadBack, ReachWriteStage, WriteFile, Throws,
       ReadLock, WriteLock, ReadDatabase, WriteDatabase, Catch, RestoreFile,
       FetchManifestFails, LockFails, DatabaseFails
  <2> QED
    BY <2>1 DEF Journaled
<1>s. \A r \in Res :
         /\ \A f \in Files : disk[r][f] = "new" => Journaled(r)
         /\ lockfile # NoLockfile /\ lockfile[r] = "new" => Journaled(r)
         /\ database[r] = "new" => Journaled(r)
  BY DEF NewInv, NewIsJournaled, LockEntries
<1>c. CopiesAreJournaled
  BY DEF NewInv
<1> USE UnchangedNew
<1>1. CASE TakeSnapshot(a)
  <2>1. SnapshotsJournaled
    BY <1>1, <1>t, <1>s, <1>c
    DEF TakeSnapshot, CopyOfDestination, Decoded, CopiesAreJournaled,
        SnapshotsJournaled
  <2> QED
    BY <1>1, <2>1 DEF TakeSnapshot, storeVars, localVars, otherVars
<1>2. CASE WriteStub(a)
  <2>1. StoresJournaled
    BY <1>2, <1>t, <1>j, <1>s DEF WriteStub, StoresJournaled, Trees
  <2> QED
    BY <1>2, <2>1 DEF WriteStub, otherVars
<1>3. CASE FetchManifest(a) \/ ReachWriteStage(a) \/ Throws(a) \/ Catch(a)
           \/ FetchManifestFails(a) \/ LockFails(a)
  BY <1>3
  DEF FetchManifest, ReachWriteStage, Throws, Catch, FetchManifestFails,
      LockFails, PassOver, Forgive, storeVars, localVars, otherVars
<1>4. CASE FetchFile(a)
  <2>1. PICK path \in PathsOf(a, Files) :
           disk' = [disk EXCEPT ![path[1]][path[2]] = "new"] \/ UNCHANGED disk
    BY <1>4, <1>t DEF FetchFile
  <2>2. path[1] = ResourceOf[a] /\ path[2] \in Files
    BY <2>1 DEF PathsOf
  <2>3. \A r \in Res, f \in Files :
           disk'[r][f] = "new" => disk[r][f] = "new" \/ r = ResourceOf[a]
    BY <1>t, <2>1, <2>2 DEF Trees
  <2>4. StoresJournaled
    BY <1>4, <1>j, <1>s, <2>3 DEF FetchFile, StoresJournaled
  <2> QED
    BY <1>4, <2>4 DEF FetchFile, Forgive, otherVars
<1>5. CASE ReadBack(a)
  <2>1. ContentJournaled
    BY <1>5, <1>t, <1>j, <1>c DEF ReadBack, CopiesAreJournaled, ContentJournaled
  <2> QED
    BY <1>5, <2>1 DEF ReadBack, storeVars, otherVars
<1>6. CASE WriteFile(a)
  <2>1. PICK path \in PathsOf(a, Files) :
           disk' = [disk EXCEPT ![path[1]][path[2]] = content[a][path[2]]]
    BY <1>6, <1>t DEF WriteFile
  <2>2. path[1] = ResourceOf[a] /\ path[2] \in Files
    BY <2>1 DEF PathsOf
  <2>3. \A r \in Res, f \in Files :
           disk'[r][f] = "new" => disk[r][f] = "new" \/ r = ResourceOf[a]
    BY <1>t, <2>1, <2>2 DEF Trees
  <2>4. StoresJournaled
    BY <1>6, <1>j, <1>s, <2>3 DEF WriteFile, StoresJournaled
  <2> QED
    BY <1>6, <2>4 DEF WriteFile, otherVars
<1>7. CASE ReadLock(a) \/ ReadDatabase(a)
  <2>1. \A r \in Res : stale'[a][r] = "new" => Journaled(r)
    BY <1>7, <1>t, <1>s DEF ReadLock, ReadDatabase, LockEntries, NoEntries
  <2>2. \A b \in Tx \ {a} : stale'[b] = stale[b]
    BY <1>7, <1>t DEF ReadLock, ReadDatabase
  <2>3. StaleJournaled
    BY <1>7, <1>c, <2>1, <2>2
    DEF ReadLock, ReadDatabase, CopiesAreJournaled, StaleJournaled, otherVars
  <2> QED
    BY <1>7, <2>3 DEF ReadLock, ReadDatabase, storeVars
<1>8. CASE WriteLock(a)
  <2>1. \A r \in Res :
           lockfile'[r] = "new" => stale[a][r] = "new" \/ r = ResourceOf[a]
    BY <1>8, <1>t DEF WriteLock, Entries
  <2>2. StoresJournaled
    BY <1>8, <1>j, <1>s, <1>c, <2>1
    DEF WriteLock, CopiesAreJournaled, StoresJournaled
  <2> QED
    BY <1>8, <2>2 DEF WriteLock, localVars, otherVars
<1>9. CASE WriteDatabase(a)
  <2>1. \A r \in Res :
           database'[r] = "new" => stale[a][r] = "new" \/ r = ResourceOf[a]
    BY <1>9, <1>t DEF WriteDatabase, Entries
  <2>2. StoresJournaled
    BY <1>9, <1>j, <1>s, <1>c, <2>1
    DEF WriteDatabase, CopiesAreJournaled, StoresJournaled
  <2> QED
    BY <1>9, <2>2 DEF WriteDatabase, localVars, otherVars
<1>10. CASE RestoreFile(a)
  <2>1. PICK path \in Paths : Restored(a, path) \/ NotRestored(path)
    BY <1>10, <1>t DEF RestoreFile
  <2>2. snapshot[a] # NoSnapshot
    BY <1>10, <1>t DEF RestoreFile
  <2>3. \A r \in Res, f \in Files :
           disk'[r][f] = "new" => \/ disk[r][f] = "new"
                                 \/ snapshot[a].tree[r][f] = "new"
    <3>1. CASE path = LockPath
      BY <2>1, <3>1 DEF Restored, NotRestored
    <3>2. CASE path # LockPath
      <4>1. path[1] \in Res /\ path[2] \in Files
        BY <2>1, <3>2 DEF Paths
      <4>2. \E c \in {disk[path[1]][path[2]], "torn",
                      snapshot[a].tree[path[1]][path[2]]} :
               disk' = [disk EXCEPT ![path[1]][path[2]] = c]
        BY <2>1, <3>2 DEF Restored, NotRestored
      <4> QED
        BY <1>t, <4>1, <4>2 DEF Trees
    <3> QED
      BY <3>1, <3>2
  <2>4. lockfile' \in {lockfile, snapshot[a].lock, NoLockfile}
    BY <2>1 DEF Restored, NotRestored
  <2>5. StoresJournaled
    BY <1>10, <1>s, <1>c, <2>2, <2>3, <2>4
    DEF RestoreFile, CopiesAreJournaled, StoresJournaled
  <2> QED
    BY <1>10, <2>1, <2>5 DEF RestoreFile, Restored, NotRestored, Forgive, otherVars
<1>11. CASE DatabaseFails(a)
  <2>1. StoresJournaled
    BY <1>11, <1>s
    DEF DatabaseFails, DatabaseAfterError, NoEntries, StoresJournaled
  <2> QED
    BY <1>11, <2>1 DEF DatabaseFails, Forgive, localVars
<1> QED
  BY <1>1, <1>2, <1>3, <1>4, <1>5, <1>6, <1>7, <1>8, <1>9, <1>10, <1>11
  DEF FileStep

\* An install becomes active by creating its transaction.
LEMMA ActiveHasTransaction ==
    ASSUME TypeInv, NewInv, [Next]_vars, NEW b \in Tx, Active(b)'
    PROVE  txFile'[b] # NoTx
<1>1. CASE Active(b)
  BY <1>1, JournalGrows DEF Active, NewInv
<1>2. CASE Create(b)
  BY <1>2, NewTxWellFormed, ContentsDistinct
  DEF Create, CreateTransaction, TypeInv, JournalInv, JournalTypeOK
<1>3. CASE ~Active(b) /\ ~Create(b)
  <2>t. pc \in [Tx -> Steps]
    BY DEF TypeInv, InstallTypeOK
  <2>1. ASSUME NEW a \in Tx, Start(a) \/ InstallStep(a)
        PROVE  FALSE
    <3>1. CASE a # b
      <4>1. pc'[b] = pc[b]
        BY <2>1, <2>t, <3>1, JumpSteps, EndSteps
        DEF InstallStep, Start, JumpStep, EndStep, Settle, Jump, Move, Goto,
            OpenStore, Create, UpdateRead, UpdateWrite, UpdateReturns,
            UpdateThrows, installVars, TakeSnapshot, WriteStub, FetchManifest,
            FetchFile, ReadBack, ReachWriteStage, WriteFile, Throws, ReadLock,
            WriteLock, ReadDatabase, WriteDatabase, Catch, RestoreFile,
            PassOver, FetchManifestFails, LockFails, DatabaseFails
      <4> QED
        BY <1>3, <4>1 DEF Active
    <3>2. CASE a = b
      <4>1. pc[b] \in BeforeCreate \cup Ended
        BY <1>3 DEF Active
      <4>2. ~AtUpdate(b) \/ pc[b] = "dead"
        BY <4>1, UpdatesTable DEF BeforeCreate, Ended, AtUpdate
      <4>3. call[b] = NoCall
        BY <4>1, UpdatesTable
        DEF TypeInv, CallsAtUpdates, BeforeCreate, Ended, AtUpdate
      <4>4. pc'[b] \in BeforeCreate \cup Ended
        BY <1>3, <2>1, <2>t, <3>2, <4>1, <4>2, <4>3, UpdatesTable
        DEF BeforeCreate, Ended, InstallStep, Start, Settle, Jump, Move, Goto,
            OpenStore, StoreOpened, CreateFails, AtUpdate, UpdateRead,
            UpdateWrite, OpenTmp, FillTmp, UpdateReturns, RenameTmp,
            UpdateThrows, RecordUnread, RenameFails, UpdateFails, PassOver,
            TakeSnapshot, SnapshotFails, WriteStub,
            FetchManifest, FetchManifestFails, FetchFile, FetchEnds, ReadBack,
            ReachWriteStage, WriteFile, Throws, PipelineEnds, DependenciesEnd,
            DependencyFails, InstallHook, ReadLock, WriteLock, LockFails,
            ReadDatabase, WriteDatabase, DatabaseFails, Return, Catch,
            RestoreFile, RestoreEnds, Reject
      <4> QED
        BY <4>4 DEF Active
    <3> QED
      BY <3>1, <3>2
  <2>2. CASE Crash
    BY <1>3, <2>2, <2>t DEF Crash, Active, Running, BeforeCreate, Ended
  <2>3. ASSUME UNCHANGED pc
        PROVE  FALSE
    BY <1>3, <2>3 DEF Active
  <2>4. ASSUME NEW r \in Res, RemoveStart(r) \/ RemoveStep(r)
        PROVE  UNCHANGED pc
    BY <2>4
    DEF RemoveStart, RemoveStep, RemoveFile, RemoveFilesEnd, RemoveReadLock,
        RemoveWriteLock, RemoveReadDatabase, RemoveWriteDatabase, RemoveFails,
        RemoveGoto, RemoveMove
  <2>5. Signal \/ (\E h \in Sweepers : Sweep(h)) \/ UNCHANGED vars
          => UNCHANGED pc
    BY DEF Signal, Sweep, installVars, vars
  <2> QED
    BY <2>1, <2>2, <2>3, <2>4, <2>5 DEF Next
<1> QED
  BY <1>1, <1>2, <1>3

\* What remove brings to the stores it read there.
LEMMA RemoveNew ==
    ASSUME TypeInv, NewInv, NEW r \in Res, RemoveStart(r) \/ RemoveStep(r)
    PROVE  /\ StoresJournaled /\ StaleJournaled
           /\ ContentJournaled /\ SnapshotsJournaled
<1>t. /\ disk \in Trees /\ rmStale \in [Res -> Entries]
      /\ lockfile \in Entries \cup {NoLockfile} /\ database \in Entries
  BY DEF TypeInv, InstallTypeOK
<1>s. \A q \in Res :
         /\ \A f \in Files : disk[q][f] = "new" => Journaled(q)
         /\ lockfile # NoLockfile /\ lockfile[q] = "new" => Journaled(q)
         /\ database[q] = "new" => Journaled(q)
  BY DEF NewInv, NewIsJournaled, LockEntries
<1>c. CopiesAreJournaled
  BY DEF NewInv
<1>1. UNCHANGED <<content, snapshot, stale>>
  BY DEF RemoveStart, RemoveStep, RemoveFile, RemoveFilesEnd, RemoveReadLock,
     RemoveWriteLock, RemoveReadDatabase, RemoveWriteDatabase, RemoveFails,
     RemoveGoto, RemoveMove, localVars
<1>2. CASE RemoveStart(r) \/ RemoveFilesEnd(r)
  BY <1>1, <1>2, UnchangedNew DEF RemoveStart, RemoveFilesEnd, storeVars
<1>7. CASE RemoveFails(r)
  <2>1. StoresJournaled
    BY <1>7, <1>s DEF RemoveFails, DatabaseAfterError, NoEntries, StoresJournaled
  <2> QED
    BY <1>1, <1>7, <2>1, UnchangedNew DEF RemoveFails
<1>3. CASE RemoveFile(r)
  <2>1. PICK f \in Files : disk' = [disk EXCEPT ![r][f] = "absent"]
    BY <1>3 DEF RemoveFile
  <2>2. \A q \in Res, g \in Files : disk'[q][g] = "new" => disk[q][g] = "new"
    BY <1>t, <2>1 DEF Trees
  <2>3. StoresJournaled
    BY <1>3, <1>s, <2>2 DEF RemoveFile, StoresJournaled
  <2> QED
    BY <1>1, <1>3, <2>3, UnchangedNew DEF RemoveFile
<1>4. CASE RemoveReadLock(r) \/ RemoveReadDatabase(r)
  <2>1. \A p \in Res, q \in Res :
           rmStale'[p][q] = "new" => rmStale[p][q] = "new" \/ Journaled(q)
    BY <1>4, <1>t, <1>s DEF RemoveReadLock, RemoveReadDatabase
  <2>2. StaleJournaled
    BY <1>1, <1>c, <2>1 DEF CopiesAreJournaled, StaleJournaled
  <2> QED
    BY <1>1, <1>4, <2>2, UnchangedNew
    DEF RemoveReadLock, RemoveReadDatabase, storeVars
<1>5. CASE RemoveWriteLock(r)
  <2>1. \A q \in Res : lockfile'[q] = "new" => rmStale[r][q] = "new"
    BY <1>5, <1>t DEF RemoveWriteLock, Entries
  <2>2. StoresJournaled
    BY <1>5, <1>s, <1>c, <2>1
    DEF RemoveWriteLock, CopiesAreJournaled, StoresJournaled
  <2> QED
    BY <1>1, <1>5, <2>2, UnchangedNew DEF RemoveWriteLock
<1>6. CASE RemoveWriteDatabase(r)
  <2>1. \A q \in Res : database'[q] = "new" => rmStale[r][q] = "new"
    BY <1>6, <1>t DEF RemoveWriteDatabase, Entries
  <2>2. StoresJournaled
    BY <1>6, <1>s, <1>c, <2>1
    DEF RemoveWriteDatabase, CopiesAreJournaled, StoresJournaled
  <2> QED
    BY <1>1, <1>6, <2>2, UnchangedNew DEF RemoveWriteDatabase
<1> QED
  BY <1>2, <1>3, <1>4, <1>5, <1>6, <1>7 DEF RemoveStep

\* A crash tears files and forgets the copies.
LEMMA CrashNew ==
    ASSUME TypeInv, NewInv, Crash
    PROVE  /\ StoresJournaled /\ StaleJournaled
           /\ ContentJournaled /\ SnapshotsJournaled
<1>1. \A r \in Res :
         /\ \A f \in Files : disk[r][f] = "new" => Journaled(r)
         /\ lockfile # NoLockfile /\ lockfile[r] = "new" => Journaled(r)
         /\ database[r] = "new" => Journaled(r)
  BY DEF NewInv, NewIsJournaled, LockEntries
<1>2. \A r \in Res, f \in Files : disk'[r][f] = "new" => disk[r][f] = "new"
  BY DEF Crash
<1>3. StoresJournaled
  BY <1>1, <1>2 DEF Crash, StoresJournaled, NoEntries
<1> QED
  BY <1>3
  DEF Crash, StaleJournaled, ContentJournaled, SnapshotsJournaled, NoEntries

LEMMA NextNewInv == TypeInv /\ NewInv /\ [Next]_vars => NewInv'
<1> SUFFICES ASSUME TypeInv, NewInv, [Next]_vars
             PROVE  NewInv'
  OBVIOUS
<1>1. /\ StoresJournaled /\ StaleJournaled
      /\ ContentJournaled /\ SnapshotsJournaled
  <2>1. ASSUME NEW a \in Tx, Settle(a, "ok") \/ Settle(a, "failed")
        PROVE  /\ StoresJournaled /\ StaleJournaled
               /\ ContentJournaled /\ SnapshotsJournaled
    <3>1. StoresJournaled
      BY <2>1, UnchangedNew DEF Settle
    <3>t. /\ stale \in [Tx -> Entries] /\ content \in [Tx -> [Files -> Contents]]
          /\ snapshot \in [Tx -> Snapshots \cup {NoSnapshot}]
          /\ CopiesAreJournaled
      BY DEF TypeInv, InstallTypeOK, NewInv
    <3>2. StaleJournaled
      BY <2>1, <3>t
      DEF Settle, NoEntries, otherVars, CopiesAreJournaled, StaleJournaled
    <3>3. ContentJournaled
      <4>1. \A b \in Tx, f \in Files :
               content'[b][f] = "new" => content[b][f] = "new"
        BY <2>1, <3>t DEF Settle
      <4> QED
        BY <3>t, <4>1 DEF CopiesAreJournaled, ContentJournaled
    <3>4. SnapshotsJournaled
      BY <2>1, <3>t DEF Settle, CopiesAreJournaled, SnapshotsJournaled
    <3> QED
      BY <3>1, <3>2, <3>3, <3>4
  <2>2. ASSUME UNCHANGED <<storeVars, snapshot, localVars, rmStale>>
        PROVE  /\ StoresJournaled /\ StaleJournaled
               /\ ContentJournaled /\ SnapshotsJournaled
    BY <2>2, UnchangedNew DEF storeVars, localVars
  <2>3. ASSUME NEW a \in Tx, Start(a) \/ InstallStep(a)
        PROVE  /\ StoresJournaled /\ StaleJournaled
               /\ ContentJournaled /\ SnapshotsJournaled
    <3>1. CASE Start(a)
      BY <2>1, <2>2, <3>1 DEF Start, Jump, Move, otherVars
    <3>2. CASE JumpStep(a)
      BY <2>2, <3>2, JumpSteps DEF Jump, Move, otherVars
    <3>3. CASE EndStep(a)
      BY <2>1, <3>3, EndSteps
    <3>4. CASE FileStep(a)
      BY <3>4, FileStepNew
    <3>5. CASE OpenStore(a) \/ Create(a) \/ UpdateReturns(a) \/ UpdateThrows(a)
      BY <2>2, <3>5
      DEF OpenStore, Create, UpdateReturns, UpdateThrows, Move, PassOver, Forgive,
          otherVars
    <3>6. CASE UpdateRead(a) \/ UpdateWrite(a)
      BY <2>2, <3>6
      DEF UpdateRead, UpdateWrite, installVars, storeVars, localVars, otherVars
    <3> QED
      BY <2>3, <3>1, <3>2, <3>3, <3>4, <3>5, <3>6
      DEF InstallStep, JumpStep, EndStep, FileStep
  <2>4. CASE Signal \/ (\E h \in Sweepers : Sweep(h)) \/ UNCHANGED vars
    BY <2>2, <2>4
    DEF Signal, Sweep, vars, installVars, storeVars, localVars, otherVars
  <2> QED
    BY <2>3, <2>4, RemoveNew, CrashNew DEF Next
<1>2. NewIsJournaled' /\ CopiesAreJournaled'
  BY <1>1, NewFrom, JournalGrows
<1>3. (\A a \in Tx : pc[a] \notin BeforeCreate \cup Ended => txFile[a] # NoTx)'
  BY ActiveHasTransaction DEF Active
<1>4. OwnFiles'
  BY NextTypeInv DEF TypeInv
<1> QED
  BY <1>2, <1>3, <1>4 DEF NewInv, OwnFiles

LEMMA InitNewInv == Init => NewInv
<1> SUFFICES ASSUME Init
             PROVE  NewInv
  OBVIOUS
<1>1. NewIsJournaled
  BY DEF Init, NewIsJournaled, LockEntries, NoEntries
<1>2. CopiesAreJournaled
  BY DEF Init, CopiesAreJournaled, NoEntries
<1> QED
  BY <1>1, <1>2 DEF Init, NewInv, BeforeCreate

\* Whatever an install brings to files, lockfile or database has a record of
\* its transaction on disk, whichever calls restore, rewrite or remove beside
\* it and whenever the process dies.
THEOREM WriteAhead == Spec => []NewIsJournaled
<1>1. NewInv => NewIsJournaled
  BY DEF NewInv
<1>2. TypeInv /\ NewInv /\ [Next]_vars => TypeInv' /\ NewInv'
  BY NextTypeInv, NextNewInv
<1> QED
  BY <1>1, <1>2, InitTypeInv, InitNewInv, PTL DEF Spec

-----------------------------------------------------------------------------
(* Transactions and installs agree.                                        *)

\* No signal arrives.
NoSignals == MaxSignals = 0

Undecided == {"pending", "preparing", "writing"}

\* The statuses that the record of an install at a step may have.
StatusesAt(step) ==
    CASE step = "return" -> {"committed"}
      [] step = "reject" -> Undecided \cup {"failed"}
      [] OTHER -> Undecided

\* The call of flow c writes to its temporary file, which nobody else writes.
WritesOwn(c) ==
    /\ call[c].step \in {"merged", "tmp", "written"}
    /\ call[c].step = "tmp" => txTmp[call[c].id] = Truncated
    /\ call[c].step = "written" => txTmp[call[c].id] = call[c].rec

\* The recovery has chosen a transaction, or is marking it.
Recovering(id) ==
    \/ id \in sweep[StartupRecovery].marks
    \/ call[StartupRecovery] # NoCall /\ call[StartupRecovery].id = id

\* The recovery has to do with transactions of earlier runs alone, that were
\* left undecided.
RecoveryApart ==
    /\ sweep[SignalHandler].phase = "off" /\ call[SignalHandler] = NoCall
    /\ sweep[StartupRecovery].phase = "off" => \A a \in Tx : ~Active(a)
    /\ \A id \in Tx : id \in sweep[StartupRecovery].aged =>
         txFile[id] # NoTx /\ ~Active(id)
    /\ \A id \in Tx : Recovering(id) =>
         txFile[id] # NoTx /\ ~IsTerminal(id) /\ ~Active(id)
    /\ call[StartupRecovery] # NoCall =>
         /\ call[StartupRecovery].rec.status = "recovery-required"
         /\ WritesOwn(StartupRecovery)

\* An install that has not ended agrees with its record, and alone updates it.
RecordsOfInstalls ==
    \A a \in Tx :
        /\ pc[a] \in BeforeCreate => txFile[a] = NoTx
        /\ Active(a) => /\ txFile[a] # NoTx
                        /\ txFile[a].status \in StatusesAt(pc[a])
        /\ call[a] # NoCall =>
             /\ call[a].id = a
             /\ call[a].rec.status = IF Updates[pc[a]].set = "same"
                                     THEN txFile[a].status
                                     ELSE Updates[pc[a]].set
             /\ WritesOwn(a)
        /\ pc[a] \in {"idle"} \cup Ended => todo[a] = {}

TxInv == RecoveryApart /\ RecordsOfInstalls

-----------------------------------------------------------------------------
\* The steps at which an install is neither before its transaction, nor at its
\* end.
Working == Steps \ (BeforeCreate \cup Ended \cup {"return", "reject"})

LEMMA WorkingSteps ==
    /\ \A step \in Working : StatusesAt(step) = Undecided
    /\ StatusesAt("return") = {"committed"}
    /\ StatusesAt("reject") = Undecided \cup {"failed"}
    /\ Undecided \cap TerminalStatuses = {} /\ Undecided \subseteq Statuses
    /\ DOMAIN Updates \subseteq Working
    /\ \A step \in Working \cup {"return", "reject"} :
          step \notin {"idle"} \cup Ended \cup BeforeCreate
  BY UpdatesTable
  DEF Working, StatusesAt, Undecided, TerminalStatuses, Statuses, BeforeCreate, Ended, Steps

\* An install that takes a step of its own, on files or only onwards, keeps
\* working on its transaction, or still has none.
LEMMA LocalSteps ==
    ASSUME TypeInv, NEW a \in Tx, JumpStep(a) \/ FileStep(a)
    PROVE  /\ ~AtUpdate(a) /\ UNCHANGED journalVars /\ UNCHANGED result
           /\ \/ pc[a] \in Working /\ pc'[a] \in Working
              \/ pc[a] = "initialize" /\ pc'[a] = "create"
           /\ \A b \in Tx \ {a} : pc'[b] = pc[b] /\ todo'[b] = todo[b]
<1>t. pc \in [Tx -> Steps] /\ todo \in [Tx -> SUBSET Paths]
  BY DEF TypeInv, InstallTypeOK
<1>1. CASE JumpStep(a)
  <2>1. ~AtUpdate(a) /\ \E step \in Steps : Jump(a, step)
    BY <1>1, JumpSteps
  <2>2. UNCHANGED <<journalVars, result, todo>>
    BY <2>1 DEF Jump, Move, localVars
  <2>3. \A b \in Tx \ {a} : pc'[b] = pc[b]
    BY <1>t, <2>1 DEF Jump, Move, Goto
  <2>4. \/ pc[a] \in Working /\ pc'[a] \in Working
        \/ pc[a] = "initialize" /\ pc'[a] = "create"
    BY <1>1, <1>t, NamesInTypes
    DEF Working, BeforeCreate, Ended, Jump, Move, Goto, JumpStep, StoreOpened,
        SnapshotFails, FetchEnds, PipelineEnds, DependenciesEnd,
        DependencyFails, InstallHook, RestoreEnds
  <2> QED
    BY <2>1, <2>2, <2>3, <2>4
<1>2. CASE FileStep(a)
  <2>1. ~AtUpdate(a) /\ UNCHANGED journalVars
    BY <1>2, FileSteps
  <2>2. UNCHANGED result /\ \A b \in Tx \ {a} : pc'[b] = pc[b] /\ todo'[b] = todo[b]
    BY <1>2, <1>t
    DEF Goto, localVars, FileStep, TakeSnapshot, WriteStub, FetchManifest,
        FetchFile, ReadBack, ReachWriteStage, WriteFile, Throws, ReadLock,
        WriteLock, ReadDatabase, WriteDatabase, Catch, RestoreFile, PassOver,
        FetchManifestFails, LockFails, DatabaseFails
  <2>3. pc[a] \in Working /\ pc'[a] \in Working
    BY <1>2, <1>t, NamesInTypes
    DEF Working, BeforeCreate, Ended, Goto, FileStep, TakeSnapshot, WriteStub,
        FetchManifest, FetchFile, ReadBack, ReachWriteStage, WriteFile, Throws,
        ReadLock, WriteLock, ReadDatabase, WriteDatabase, Catch, RestoreFile,
        PassOver, FetchManifestFails, LockFails, DatabaseFails
  <2> QED
    BY <2>1, <2>2, <2>3
<1> QED
  BY <1>1, <1>2

\* A step that leaves the journal alone, and moves one install at most.
LEMMA QuietStep ==
    ASSUME TypeInv, TxInv, NEW a \in Tx, UNCHANGED journalVars,
           \/ ~AtUpdate(a)
           \/ pc'[a] = pc[a],
           \/ pc'[a] = pc[a] /\ todo'[a] = todo[a]
           \/ pc[a] \in Working /\ pc'[a] \in Working
           \/ pc[a] \in BeforeCreate /\ pc'[a] \in BeforeCreate \ {"idle"}
           \/ pc'[a] \in Ended /\ todo'[a] = {},
           \A b \in Tx \ {a} : pc'[b] = pc[b] /\ todo'[b] = todo[b]
    PROVE  TxInv'
<1>1. /\ txFile' = txFile /\ txTmp' = txTmp /\ call' = call /\ sweep' = sweep
  BY DEF journalVars
<1>2. \A b \in Tx : Active(b)' => Active(b)
  BY WorkingSteps DEF Active, Ended
<1>3. RecoveryApart'
  BY <1>1, <1>2 DEF TxInv, RecoveryApart, Recovering, IsTerminal, WritesOwn
<1>4. ASSUME NEW b \in Tx
      PROVE  /\ pc'[b] \in BeforeCreate => txFile[b] = NoTx
             /\ Active(b)' => txFile[b] # NoTx /\ txFile[b].status \in StatusesAt(pc'[b])
             /\ call[b] # NoCall => pc'[b] = pc[b]
             /\ pc'[b] \in {"idle"} \cup Ended => todo'[b] = {}
  <2>1. CASE b # a
    BY <2>1 DEF TxInv, RecordsOfInstalls, Active
  <2>2. CASE b = a
    <3>1. call[a] # NoCall => pc'[a] = pc[a]
      BY DEF TypeInv, CallsAtUpdates
    <3>2. CASE pc'[a] = pc[a] /\ todo'[a] = todo[a]
      BY <2>2, <3>1, <3>2 DEF TxInv, RecordsOfInstalls, Active
    <3>3. CASE pc[a] \in Working /\ pc'[a] \in Working
      BY <2>2, <3>1, <3>3, WorkingSteps DEF TxInv, RecordsOfInstalls, Active
    <3>4. CASE pc[a] \in BeforeCreate /\ pc'[a] \in BeforeCreate \ {"idle"}
      BY <2>2, <3>1, <3>4 DEF TxInv, RecordsOfInstalls, Active, BeforeCreate, Ended
    <3>5. CASE pc'[a] \in Ended /\ todo'[a] = {}
      BY <2>2, <3>1, <3>5 DEF TxInv, RecordsOfInstalls, Active, BeforeCreate, Ended
    <3> QED
      BY <3>2, <3>3, <3>4, <3>5
  <2> QED
    BY <2>1, <2>2
<1>5. RecordsOfInstalls'
  BY <1>1, <1>4 DEF TxInv, RecordsOfInstalls, Active, WritesOwn
<1> QED
  BY <1>3, <1>5 DEF TxInv

\* The end of an install, with or without a transaction.
LEMMA SettleAgrees ==
    ASSUME TypeInv, TxInv, NEW a \in Tx, ~AtUpdate(a), UNCHANGED journalVars,
           NEW how, Settle(a, how)
    PROVE  TxInv'
<1>1. /\ pc'[a] \in Ended /\ todo'[a] = {}
      /\ \A b \in Tx \ {a} : pc'[b] = pc[b] /\ todo'[b] = todo[b]
  BY DEF TypeInv, InstallTypeOK, Settle, Goto, Ended
<1> QED
  BY <1>1, QuietStep

LEMMA LocalAgrees ==
    ASSUME TypeInv, TxInv, NEW a \in Tx, Start(a) \/ JumpStep(a) \/ FileStep(a) \/ EndStep(a)
    PROVE  TxInv'
<1>1. CASE Start(a)
  <2>1. pc[a] = "idle" /\ ~AtUpdate(a) /\ UNCHANGED journalVars
    BY <1>1, OutsideUpdates DEF Start, Jump
  <2>2. CASE Jump(a, "create")
    <3>1. pc'[a] = "create" /\ UNCHANGED todo /\ \A b \in Tx \ {a} : pc'[b] = pc[b]
      BY <2>2 DEF Jump, Move, Goto, localVars, TypeInv, InstallTypeOK
    <3>2. pc[a] \in BeforeCreate /\ pc'[a] \in BeforeCreate \ {"idle"}
      BY <2>1, <3>1 DEF BeforeCreate
    <3> QED
      BY <2>1, <3>1, <3>2, QuietStep
  <2>3. CASE Settle(a, "failed")
    BY <2>1, <2>3, SettleAgrees
  <2> QED
    BY <1>1, <2>2, <2>3 DEF Start
<1>2. CASE JumpStep(a) \/ FileStep(a)
  <2>1. /\ ~AtUpdate(a) /\ UNCHANGED journalVars
        /\ \/ pc[a] \in Working /\ pc'[a] \in Working
           \/ pc[a] = "initialize" /\ pc'[a] = "create"
        /\ \A b \in Tx \ {a} : pc'[b] = pc[b] /\ todo'[b] = todo[b]
    BY <1>2, LocalSteps
  <2>2. \/ pc[a] \in Working /\ pc'[a] \in Working
        \/ pc[a] \in BeforeCreate /\ pc'[a] \in BeforeCreate \ {"idle"}
    BY <2>1 DEF BeforeCreate
  <2> QED
    BY <2>1, <2>2, QuietStep
<1>3. CASE EndStep(a)
  BY <1>3, EndSteps, SettleAgrees
<1> QED
  BY <1>1, <1>2, <1>3

-----------------------------------------------------------------------------
(* Steps that change the journal, or the sweeps. *)

\* What the recovery has to do with stays apart when install a comes to have a
\* record, or changes its own.
LEMMA ApartFromOwn ==
    ASSUME TypeInv, TxInv, NEW a \in Tx, UNCHANGED sweep,
           call'[StartupRecovery] = call[StartupRecovery],
           call'[SignalHandler] = call[SignalHandler],
           Active(a) \/ (pc[a] = "create" /\ StoreOpen),
           \A b \in Tx \ {a} : /\ pc'[b] = pc[b] /\ txFile'[b] = txFile[b]
                               /\ txTmp'[b] = txTmp[b]
    PROVE  RecoveryApart'
<1>1. /\ ~Recovering(a) /\ a \notin sweep[StartupRecovery].aged
      /\ sweep[StartupRecovery].phase # "off"
  BY DEF TxInv, RecoveryApart, RecordsOfInstalls, BeforeCreate, StoreOpen
<1>2. call[StartupRecovery] # NoCall =>
        call[StartupRecovery].id \in Tx /\ call[StartupRecovery].id # a
  BY <1>1, InstallsAreCallers
  DEF Recovering, TypeInv, JournalInv, JournalTypeOK, Calls
<1>3. \A b \in Tx \ {a} : Active(b)' <=> Active(b)
  BY DEF Active
<1>4. ASSUME NEW b \in Tx, Recovering(b)'
      PROVE  b # a /\ Recovering(b)
  BY <1>1, <1>4 DEF Recovering
<1>5. \A id \in Tx : Recovering(id)' =>
        (txFile[id] # NoTx)' /\ (~IsTerminal(id))' /\ (~Active(id))'
  <2> SUFFICES ASSUME NEW id \in Tx, Recovering(id)'
               PROVE  (txFile[id] # NoTx)' /\ (~IsTerminal(id))' /\ (~Active(id))'
    OBVIOUS
  <2>1. id # a /\ Recovering(id)
    BY <1>4
  <2>2. txFile[id] # NoTx /\ ~IsTerminal(id) /\ ~Active(id)
    BY <2>1 DEF TxInv, RecoveryApart
  <2> QED
    BY <1>3, <2>1, <2>2 DEF IsTerminal
<1>6. \A id \in Tx : id \in sweep[StartupRecovery].aged =>
        (txFile[id] # NoTx)' /\ (~Active(id))'
  BY <1>1, <1>3 DEF TxInv, RecoveryApart
<1>7. call[StartupRecovery] # NoCall => WritesOwn(StartupRecovery)'
  BY <1>2 DEF TxInv, RecoveryApart, WritesOwn
<1> QED
  BY <1>1, <1>5, <1>6, <1>7 DEF TxInv, RecoveryApart

\* Install a alone changes its record, its temporary file and its call.
LEMMA RecordsFromOwn ==
    ASSUME TypeInv, TxInv, NEW a \in Tx,
           \A b \in Tx \ {a} : /\ pc'[b] = pc[b] /\ todo'[b] = todo[b]
                               /\ txFile'[b] = txFile[b]
                               /\ txTmp'[b] = txTmp[b] /\ call'[b] = call[b],
           Active(a)', txFile'[a] # NoTx,
           txFile'[a].status \in StatusesAt(pc'[a]),
           call'[a] # NoCall =>
             /\ call'[a].id = a
             /\ call'[a].rec.status = IF Updates[pc'[a]].set = "same"
                                      THEN txFile'[a].status
                                      ELSE Updates[pc'[a]].set
             /\ WritesOwn(a)'
    PROVE  RecordsOfInstalls'
<1>1. pc'[a] \notin BeforeCreate /\ pc'[a] \notin {"idle"} \cup Ended
  BY DEF Active, BeforeCreate
<1>2. ASSUME NEW b \in Tx \ {a}
      PROVE  /\ pc'[b] \in BeforeCreate => txFile'[b] = NoTx
             /\ Active(b)' => /\ txFile'[b] # NoTx
                              /\ txFile'[b].status \in StatusesAt(pc'[b])
             /\ call'[b] # NoCall =>
                  /\ call'[b].id = b
                  /\ call'[b].rec.status = IF Updates[pc'[b]].set = "same"
                                           THEN txFile'[b].status
                                           ELSE Updates[pc'[b]].set
                  /\ WritesOwn(b)'
             /\ pc'[b] \in {"idle"} \cup Ended => todo'[b] = {}
  BY DEF TxInv, RecordsOfInstalls, Active, WritesOwn
<1> QED
  BY <1>1, <1>2 DEF RecordsOfInstalls

LEMMA MoveFacts ==
    ASSUME TypeInv, NEW a \in Tx, NEW step \in Steps, Move(a, step)
    PROVE  /\ pc'[a] = step /\ UNCHANGED todo /\ UNCHANGED result
           /\ \A b \in Tx \ {a} : pc'[b] = pc[b]
  BY DEF Move, Goto, localVars, TypeInv, InstallTypeOK

\* The first user opens the store when no install has a transaction under way:
\* what the recovery may take for aged was left by earlier runs.
LEMMA OpenStoreAgrees ==
    ASSUME TypeInv, TxInv, NEW a \in Tx, OpenStore(a)
    PROVE  TxInv'
<1>1. /\ pc[a] = "create" /\ pc'[a] = "initialize" /\ UNCHANGED todo
      /\ \A b \in Tx \ {a} : pc'[b] = pc[b]
  BY MoveFacts, NamesInTypes DEF OpenStore
<1>2. /\ UNCHANGED <<txFile, txTmp, call>>
      /\ sweep[StartupRecovery].phase = "off"
      /\ \E aged \in SUBSET Persisted :
           sweep' = [sweep EXCEPT ![StartupRecovery] =
                       [sweep[StartupRecovery] EXCEPT !.phase = "list", !.aged = aged]]
  BY DEF OpenStore, SweepStart
<1>3. sweep \in [Sweepers -> Sweeps]
  BY DEF TypeInv, JournalInv, JournalTypeOK
<1>4. /\ sweep'[SignalHandler] = sweep[SignalHandler]
      /\ sweep'[StartupRecovery].phase = "list"
      /\ sweep'[StartupRecovery].marks = sweep[StartupRecovery].marks
      /\ sweep'[StartupRecovery].aged \subseteq Persisted
  BY <1>2, <1>3, CallersAssumption DEF Sweepers, Sweeps
<1>5. \A b \in Tx : ~Active(b) /\ (~Active(b))'
  <2>1. \A b \in Tx : ~Active(b)
    BY <1>2 DEF TxInv, RecoveryApart
  <2>2. \A b \in Tx : pc'[b] # pc[b] => pc'[b] \in BeforeCreate
    BY <1>1 DEF BeforeCreate
  <2> QED
    BY <2>1, <2>2 DEF Active
<1>6. RecoveryApart'
  BY <1>2, <1>4, <1>5
  DEF TxInv, RecoveryApart, Recovering, IsTerminal, Persisted, WritesOwn
<1>7. RecordsOfInstalls'
  <2>1. ASSUME NEW b \in Tx
        PROVE  /\ pc'[b] \in BeforeCreate => txFile[b] = NoTx
               /\ call[b] # NoCall => pc'[b] = pc[b]
               /\ pc'[b] \in {"idle"} \cup Ended => todo[b] = {}
    <3>1. CASE b = a
      <4>1. ~AtUpdate(a)
        BY <1>1, OutsideUpdates
      <4> QED
        BY <1>1, <3>1, <4>1
        DEF TxInv, RecordsOfInstalls, BeforeCreate, Ended, TypeInv, CallsAtUpdates
    <3>2. CASE b # a
      BY <1>1, <3>2 DEF TxInv, RecordsOfInstalls
    <3> QED
      BY <3>1, <3>2
  <2> QED
    BY <1>1, <1>2, <1>5, <2>1 DEF TxInv, RecordsOfInstalls, WritesOwn
<1> QED
  BY <1>6, <1>7 DEF TxInv

LEMMA CreateAgrees ==
    ASSUME TypeInv, TxInv, NEW a \in Tx, Create(a)
    PROVE  TxInv'
<1>1. /\ pc[a] = "create" /\ StoreOpen /\ pc'[a] = "snapshot" /\ UNCHANGED todo
      /\ \A b \in Tx \ {a} : pc'[b] = pc[b]
  BY MoveFacts, NamesInTypes DEF Create
<1>2. /\ txFile' = [txFile EXCEPT ![a] = NewTx]
      /\ UNCHANGED <<txTmp, call, sweep>>
  BY DEF Create, CreateTransaction
<1>3. /\ txFile'[a] = NewTx /\ \A b \in Tx \ {a} : txFile'[b] = txFile[b]
  BY <1>2 DEF TypeInv, JournalInv, JournalTypeOK
<1>4. RecoveryApart'
  BY <1>1, <1>2, <1>3, ApartFromOwn
<1>5. Active(a)' /\ NewTx # NoTx /\ NewTx.status \in StatusesAt("snapshot")
  BY <1>1, NewTxWellFormed, ContentsDistinct
  DEF Active, BeforeCreate, Ended, NewTx, StatusesAt, Undecided
<1>6. call'[a] = NoCall
  BY <1>1, <1>2, OutsideUpdates DEF TypeInv, CallsAtUpdates
<1>7. RecordsOfInstalls'
  BY <1>1, <1>2, <1>3, <1>5, <1>6, RecordsFromOwn
<1> QED
  BY <1>4, <1>7 DEF TxInv

\* An install at an update works on its transaction, which is undecided.
LEMMA UpdatesAreOfActive ==
    ASSUME TypeInv, TxInv, NEW a \in Tx, AtUpdate(a)
    PROVE  /\ pc[a] \in Working /\ Active(a)
           /\ txFile[a] \in TxRecord /\ txFile[a] # NoTx
           /\ txFile[a].status \in Undecided
           /\ Updates[pc[a]].set \in Statuses \cup {"same"}
<1>1. pc[a] \in Working
  BY WorkingSteps DEF AtUpdate
<1>2. Active(a)
  BY <1>1, WorkingSteps DEF Active
<1>3. txFile[a] # NoTx /\ txFile[a].status \in Undecided
  BY <1>1, <1>2, WorkingSteps DEF TxInv, RecordsOfInstalls
<1>4. txFile[a] \in TxRecord
  BY <1>3
  DEF TypeInv, JournalInv, JournalTypeOK, TxContents, Truncated, Garbled, Undecided
<1> QED
  BY <1>1, <1>2, <1>3, <1>4, UpdatesTable DEF AtUpdate

\* Nobody else writes the record of an install that has not ended.
LEMMA OthersWriteOthers ==
    ASSUME TypeInv, TxInv, NEW a \in Tx, Active(a), NEW c \in Callers \ {a}
    PROVE  ~Writes(c, a)
<1>1. CASE c \in Tx
  BY <1>1 DEF TxInv, RecordsOfInstalls, Writes
<1>2. CASE c = StartupRecovery
  BY <1>2 DEF TxInv, RecoveryApart, Recovering, Writes
<1>3. CASE c = SignalHandler
  BY <1>3 DEF TxInv, RecoveryApart, Writes
<1> QED
  BY <1>1, <1>2, <1>3, InstallerAssumption DEF Callers, Sweepers

LEMMA CallersDiffer ==
    ASSUME NEW a \in Tx
    PROVE  a # StartupRecovery /\ a # SignalHandler /\ a \in Callers
  BY InstallsAreCallers

LEMMA UpdateReadAgrees ==
    ASSUME TypeInv, TxInv, NEW a \in Tx, UpdateRead(a)
    PROVE  TxInv'
<1> DEFINE st == IF Updates[pc[a]].set = "same" THEN StatusOf(a)
                 ELSE Updates[pc[a]].set
<1>1. /\ AtUpdate(a) /\ UNCHANGED <<sweep, txFile, txTmp>>
      /\ call' = [call EXCEPT ![a] = [step |-> "merged", id |-> a,
                                      rec |-> WithStatus(txFile[a], st)]]
      /\ UNCHANGED <<pc, todo>>
  BY DEF UpdateRead, ReadForUpdate, installVars, localVars
<1>2. /\ Active(a) /\ txFile[a] # NoTx /\ st = IF Updates[pc[a]].set = "same"
                                               THEN txFile[a].status
                                               ELSE Updates[pc[a]].set
  BY <1>1, UpdatesAreOfActive DEF StatusOf
<1> HIDE DEF st
<1>3. WithStatus(txFile[a], st).status = st
  BY DEF WithStatus
<1>4. call \in [Callers -> Calls \cup {NoCall}]
  BY DEF TypeInv, JournalInv, JournalTypeOK
<1>5. /\ call'[a].id = a /\ call'[a].rec.status = st /\ call'[a].step = "merged"
      /\ \A c \in Callers : c # a => call'[c] = call[c]
  BY <1>1, <1>3, <1>4, CallersDiffer
<1>6. RecoveryApart'
  <2>1. /\ call'[StartupRecovery] = call[StartupRecovery]
        /\ call'[SignalHandler] = call[SignalHandler]
    BY <1>5, CallersDiffer, InstallsAreCallers
  <2>2. \A b \in Tx \ {a} : /\ pc'[b] = pc[b] /\ txFile'[b] = txFile[b]
                             /\ txTmp'[b] = txTmp[b]
    BY <1>1
  <2> QED
    BY <1>1, <1>2, <2>1, <2>2, ApartFromOwn
<1>7. RecordsOfInstalls'
  <2>1. Active(a)' /\ txFile'[a].status \in StatusesAt(pc'[a])
    BY <1>1, <1>2 DEF Active, TxInv, RecordsOfInstalls
  <2>2. WritesOwn(a)' /\ \A b \in Tx \ {a} : call'[b] = call[b]
    BY <1>5, InstallsAreCallers DEF WritesOwn
  <2> QED
    BY <1>1, <1>2, <1>5, <2>1, <2>2, RecordsFromOwn
<1> QED
  BY <1>6, <1>7 DEF TxInv

LEMMA UpdateWriteAgrees ==
    ASSUME TypeInv, TxInv, NEW a \in Tx, UpdateWrite(a)
    PROVE  TxInv'
<1>1. /\ call[a] # NoCall /\ UNCHANGED <<sweep, pc, todo>>
      /\ OpenTmp(a) \/ FillTmp(a)
  BY DEF UpdateWrite, OpenTmp, FillTmp, installVars
<1>2. AtUpdate(a) /\ call[a].id = a /\ WritesOwn(a)
  BY <1>1 DEF TypeInv, CallsAtUpdates, TxInv, RecordsOfInstalls
<1>3. Active(a) /\ txFile[a] # NoTx
  BY <1>2, UpdatesAreOfActive
<1>4. /\ call \in [Callers -> Calls \cup {NoCall}]
      /\ txTmp \in [Tx -> TxContents \cup {NoTx}]
  BY DEF TypeInv, JournalInv, JournalTypeOK
<1>g. PICK step \in {"tmp", "written"} : call' = [call EXCEPT ![a].step = step]
  BY <1>1 DEF OpenTmp, FillTmp
<1>5. /\ call'[a] # NoCall /\ call'[a].step = step
      /\ call'[a].id = a /\ call'[a].rec = call[a].rec
      /\ \A c \in Callers : c # a => call'[c] = call[c]
  BY <1>1, <1>2, <1>g, CallersDiffer, CallGoesOn
  DEF TypeInv, JournalInv, OpenedAt
<1>6. /\ UNCHANGED txFile /\ \A b \in Tx \ {a} : txTmp'[b] = txTmp[b]
      /\ WritesOwn(a)'
  <2>1. CASE OpenTmp(a)
    <3>1. txTmp' = [txTmp EXCEPT ![a] = Truncated] /\ UNCHANGED txFile
      BY <1>2, <2>1 DEF OpenTmp
    <3>2. call'[a].step = "tmp"
      BY <1>1, <2>1, CallersDiffer, CallGoesOn
      DEF OpenTmp, TypeInv, JournalInv, OpenedAt
    <3> QED
      BY <1>4, <1>5, <3>1, <3>2 DEF WritesOwn
  <2>2. CASE FillTmp(a)
    <3>1. call[a].step = "tmp" /\ txTmp[a] = Truncated
      BY <1>2, <2>2 DEF FillTmp, WritesOwn
    <3>2. txTmp' = [txTmp EXCEPT ![a] = call[a].rec] /\ UNCHANGED txFile
      BY <1>2, <2>2, <3>1 DEF FillTmp, Overwritten
    <3>3. call'[a].step = "written"
      BY <1>1, <2>2, CallersDiffer, CallGoesOn DEF FillTmp, TypeInv, JournalInv
    <3> QED
      BY <1>4, <1>5, <3>2, <3>3 DEF WritesOwn
  <2> QED
    BY <1>1, <2>1, <2>2
<1>7. RecoveryApart'
  <2>1. /\ call'[StartupRecovery] = call[StartupRecovery]
        /\ call'[SignalHandler] = call[SignalHandler]
    BY <1>5, CallersDiffer, InstallsAreCallers
  <2>2. \A b \in Tx \ {a} : /\ pc'[b] = pc[b] /\ txFile'[b] = txFile[b]
                             /\ txTmp'[b] = txTmp[b]
    BY <1>1, <1>6
  <2> QED
    BY <1>1, <1>3, <2>1, <2>2, ApartFromOwn
<1>8. RecordsOfInstalls'
  <2>1. /\ Active(a)' /\ txFile'[a].status \in StatusesAt(pc'[a])
        /\ call[a].rec.status = IF Updates[pc[a]].set = "same"
                                THEN txFile[a].status ELSE Updates[pc[a]].set
    BY <1>1, <1>3, <1>6 DEF Active, TxInv, RecordsOfInstalls
  <2>2. \A b \in Tx \ {a} : call'[b] = call[b]
    BY <1>5, InstallsAreCallers
  <2> QED
    BY <1>1, <1>3, <1>5, <1>6, <2>1, <2>2, RecordsFromOwn
<1> QED
  BY <1>7, <1>8 DEF TxInv

LEMMA UpdateReturnsAgrees ==
    ASSUME TypeInv, TxInv, NEW a \in Tx, UpdateReturns(a)
    PROVE  TxInv'
<1>1. /\ call[a] # NoCall /\ call[a].step = "written" /\ UNCHANGED sweep
      /\ txFile' = [txFile EXCEPT ![call[a].id] = txTmp[call[a].id]]
      /\ txTmp' = [txTmp EXCEPT ![call[a].id] = NoTx]
      /\ txTmp[call[a].id] # NoTx
      /\ RenameTmp(a)
  BY DEF UpdateReturns, RenameTmp
<1>2. AtUpdate(a) /\ call[a].id = a /\ txTmp[a] = call[a].rec
  BY <1>1 DEF TypeInv, CallsAtUpdates, TxInv, RecordsOfInstalls, WritesOwn
<1>3. Active(a) /\ txFile[a].status \in Undecided
  BY <1>2, UpdatesAreOfActive
<1>4. /\ call \in [Callers -> Calls \cup {NoCall}]
      /\ txTmp \in [Tx -> TxContents \cup {NoTx}]
      /\ txFile \in [Tx -> TxContents \cup {NoTx}]
  BY DEF TypeInv, JournalInv, JournalTypeOK
<1>5. /\ txFile'[a] = call[a].rec /\ txFile'[a] # NoTx /\ call'[a] = NoCall
      /\ \A b \in Tx \ {a} : txFile'[b] = txFile[b] /\ txTmp'[b] = txTmp[b]
      /\ \A c \in Callers : c # a => call'[c] = call[c]
  <2>1. \A c \in Callers : c # a => call'[c] = call[c]
    BY <1>1, <1>2, <1>3, OthersWriteOthers DEF RenameTmp
  <2> QED
    BY <1>1, <1>2, <1>4, <2>1, CallersDiffer DEF RenameTmp
<1>6. Updates[pc[a]].next \in Steps
  BY <1>2, UpdatesTable DEF AtUpdate
<1>7. /\ pc'[a] = Updates[pc[a]].next /\ UNCHANGED todo
      /\ \A b \in Tx \ {a} : pc'[b] = pc[b]
  BY <1>6, MoveFacts DEF UpdateReturns
<1>8. Active(a)' /\ txFile'[a].status \in StatusesAt(pc'[a])
  <2>1. call[a].rec.status = IF Updates[pc[a]].set = "same"
                             THEN txFile[a].status ELSE Updates[pc[a]].set
    BY <1>1 DEF TxInv, RecordsOfInstalls
  <2>2. pc[a] \in {"record", "prepare", "writing", "commit", "fail"}
    BY <1>2, UpdatesTable DEF AtUpdate
  <2>3. CASE pc[a] = "record"
    BY <1>3, <1>5, <1>7, <2>1, <2>3
    DEF Updates, StatusesAt, Active, BeforeCreate, Ended
  <2>4. CASE pc[a] \in {"prepare", "writing"}
    BY <1>5, <1>7, <2>1, <2>4
    DEF Updates, StatusesAt, Undecided, Active, BeforeCreate, Ended
  <2>5. CASE pc[a] \in {"commit", "fail"}
    BY <1>5, <1>7, <2>1, <2>5
    DEF Updates, StatusesAt, Active, BeforeCreate, Ended
  <2> QED
    BY <2>2, <2>3, <2>4, <2>5
<1>9. RecoveryApart'
  <2>1. /\ call'[StartupRecovery] = call[StartupRecovery]
        /\ call'[SignalHandler] = call[SignalHandler]
    BY <1>5, CallersDiffer, InstallsAreCallers
  <2> QED
    BY <1>1, <1>3, <1>5, <1>7, <2>1, ApartFromOwn
<1>10. RecordsOfInstalls'
  <2>1. \A b \in Tx \ {a} : call'[b] = call[b]
    BY <1>5, InstallsAreCallers
  <2> QED
    BY <1>5, <1>7, <1>8, <2>1, RecordsFromOwn
<1> QED
  BY <1>9, <1>10 DEF TxInv

\* An update throws when the journal fails: without a signal nobody else
\* tears the record or renames the temporary file.
LEMMA UpdateThrowsAgrees ==
    ASSUME TypeInv, TxInv, NEW a \in Tx, UpdateThrows(a)
    PROVE  TxInv'
<1>0. ~RecordUnread(a)
  BY UpdatesAreOfActive DEF RecordUnread, Readable
<1>1. call[a] # NoCall /\ UNCHANGED <<sweep, txFile, txTmp>>
      /\ call' = [call EXCEPT ![a] = NoCall]
  BY <1>0 DEF UpdateThrows, RenameFails, UpdateFails
<1>2. AtUpdate(a)
  BY <1>1 DEF TypeInv, CallsAtUpdates
<1>3. Active(a) /\ txFile[a] # NoTx /\ txFile[a].status \in Undecided
  BY <1>2, UpdatesAreOfActive
<1>4. /\ call'[a] = NoCall /\ \A c \in Callers : c # a => call'[c] = call[c]
  BY <1>1, CallersDiffer DEF TypeInv, JournalInv, JournalTypeOK
<1>5. Updates[pc[a]].throw \in Steps
  BY <1>2, UpdatesTable DEF AtUpdate
<1>6. /\ pc'[a] = Updates[pc[a]].throw /\ UNCHANGED todo
      /\ \A b \in Tx \ {a} : pc'[b] = pc[b]
  <2>1. CASE pc[a] = "commit"
    <3>1. Updates[pc[a]].throw = "catch"
      BY <2>1 DEF Updates
    <3> QED
      BY <1>5, <2>1, <3>1, GotoTyped DEF UpdateThrows, PassOver, localVars, TypeInv
  <2>2. CASE pc[a] # "commit"
    BY <1>5, <2>2, MoveFacts DEF UpdateThrows
  <2> QED
    BY <2>1, <2>2
<1>7. Active(a)' /\ txFile'[a].status \in StatusesAt(pc'[a])
  <2>1. pc[a] \in {"record", "prepare", "writing", "commit", "fail"}
    BY <1>2, UpdatesTable DEF AtUpdate
  <2>2. pc'[a] \in {"prepare", "catch", "reject"}
    BY <1>6, <2>1 DEF Updates
  <2> QED
    BY <1>1, <1>3, <2>2 DEF StatusesAt, Active, BeforeCreate, Ended
<1>8. RecoveryApart'
  <2>1. /\ call'[StartupRecovery] = call[StartupRecovery]
        /\ call'[SignalHandler] = call[SignalHandler]
    BY <1>4, CallersDiffer, InstallsAreCallers
  <2>2. \A b \in Tx \ {a} : /\ pc'[b] = pc[b] /\ txFile'[b] = txFile[b]
                             /\ txTmp'[b] = txTmp[b]
    BY <1>1, <1>6
  <2> QED
    BY <1>1, <1>3, <2>1, <2>2, ApartFromOwn
<1>9. RecordsOfInstalls'
  <2>1. \A b \in Tx \ {a} : call'[b] = call[b]
    BY <1>4, InstallsAreCallers
  <2> QED
    BY <1>1, <1>3, <1>4, <1>6, <1>7, <2>1, RecordsFromOwn
<1> QED
  BY <1>8, <1>9 DEF TxInv

\* remove leaves installs and journal alone.
LEMMA RemoveIsApart ==
    ASSUME NEW r \in Res, RemoveStart(r) \/ RemoveStep(r)
    PROVE  UNCHANGED <<journalVars, pc, todo, result>>
  BY DEF RemoveStart, RemoveStep, RemoveFile, RemoveFilesEnd, RemoveReadLock,
     RemoveWriteLock, RemoveReadDatabase, RemoveWriteDatabase, RemoveFails,
     RemoveGoto, RemoveMove, localVars

LEMMA IdleAgrees ==
    ASSUME TxInv, UNCHANGED <<journalVars, pc, todo>>
    PROVE  TxInv'
  BY DEF TxInv, RecoveryApart, RecordsOfInstalls, Recovering, IsTerminal, Active,
     WritesOwn, journalVars

LEMMA CrashAgrees ==
    ASSUME TypeInv, TxInv, Crash
    PROVE  TxInv'
<1>1. /\ UNCHANGED <<txFile, txTmp>>
      /\ call' = [c \in Callers |-> NoCall]
      /\ sweep' = [h \in Sweepers |-> SweepOff]
      /\ pc' = [a \in Tx |-> IF Running(a) THEN "dead" ELSE pc[a]]
      /\ todo' = [a \in Tx |-> {}]
  BY DEF Crash, JournalCrash
<1>2. \A a \in Tx : (~Active(a))' /\ pc'[a] \in {"idle"} \cup Ended
  BY <1>1 DEF Active, Running, Ended, BeforeCreate
<1>3. RecoveryApart'
  BY <1>1, <1>2, InstallsAreCallers
  DEF RecoveryApart, Recovering, SweepOff
<1>4. RecordsOfInstalls'
  <2>1. \A a \in Tx : pc'[a] \in BeforeCreate => pc[a] \in BeforeCreate
    BY <1>1, <1>2 DEF BeforeCreate, Ended
  <2>2. \A a \in Tx : call'[a] = NoCall /\ todo'[a] = {}
    BY <1>1, InstallsAreCallers
  <2> QED
    BY <1>1, <1>2, <2>1, <2>2 DEF TxInv, RecordsOfInstalls
<1> QED
  BY <1>3, <1>4 DEF TxInv

\* The recovery reads and marks the records that earlier runs left.
LEMMA SweepAgrees ==
    ASSUME TypeInv, TxInv, NEW h \in Sweepers, Sweep(h)
    PROVE  /\ TxInv'
           /\ \A id \in Tx : txFile'[id] # txFile[id] =>
                /\ txFile[id] # NoTx /\ ~IsTerminal(id)
                /\ txFile'[id] # NoTx /\ txFile'[id].status = "recovery-required"
<1> DEFINE R == StartupRecovery
<1>0. UNCHANGED <<pc, todo>>
  BY DEF Sweep, installVars, localVars
<1>1. h = R
  <2>1. ~Sweep(SignalHandler)
    BY DEF TxInv, RecoveryApart, Sweep, SweepStep, SweepList, SweepRead,
           SweepScanned, SweepMark, SweepSkip, SweepEnd, OpenTmp, FillTmp,
           RenameTmp, RenameFails, SweepListFails, SweepMisses, UpdateFails
  <2> QED
    BY <2>1 DEF Sweep, Sweepers
<1>t. /\ sweep \in [Sweepers -> Sweeps] /\ call \in [Callers -> Calls \cup {NoCall}]
      /\ txFile \in [Tx -> TxContents \cup {NoTx}]
      /\ txTmp \in [Tx -> TxContents \cup {NoTx}]
      /\ R \in Sweepers /\ SignalHandler \in Sweepers /\ R # SignalHandler
      /\ R \in Callers /\ SignalHandler \in Callers
      /\ \A a \in Tx : a \in Callers /\ a # R
  BY InstallsAreCallers, CallersAssumption DEF TypeInv, JournalInv, JournalTypeOK
<1>s. SweepStep(R) \/ SweepListFails(R) \/ \E id \in Tx : SweepMisses(R, id)
  BY <1>1 DEF Sweep
<1>a. /\ sweep[SignalHandler].phase = "off" /\ call[SignalHandler] = NoCall
      /\ sweep[R].phase = "off" => \A a \in Tx : ~Active(a)
      /\ \A id \in Tx : id \in sweep[R].aged => txFile[id] # NoTx /\ ~Active(id)
      /\ \A id \in Tx : Recovering(id) => txFile[id] # NoTx /\ ~IsTerminal(id) /\ ~Active(id)
      /\ call[R] # NoCall =>
           /\ call[R].rec.status = "recovery-required"
           /\ WritesOwn(R)
  BY DEF TxInv, RecoveryApart
<1> HIDE DEF R
<1>u. \A id \in Tx : Active(id)' <=> Active(id)
  BY <1>0 DEF Active
\* A step on the sweep alone.
<1>2. CASE \/ SweepList(R) \/ SweepScanned(R) \/ SweepSkip(R) \/ SweepEnd(R)
           \/ SweepRead(R) \/ SweepListFails(R)
           \/ \E id \in Tx : SweepMisses(R, id) /\ ~UpdateFails(R)
  <2>1. UNCHANGED <<txFile, txTmp, call>>
    BY <1>2 DEF SweepList, SweepScanned, SweepSkip, SweepEnd, SweepRead,
                SweepListFails, SweepMisses
  <2>2. /\ sweep'[SignalHandler] = sweep[SignalHandler]
        /\ sweep'[R].phase # "off" /\ sweep[R].phase # "off"
        /\ sweep'[R].aged \subseteq sweep[R].aged
        /\ \A id \in Tx : id \in sweep'[R].marks =>
             id \in sweep[R].marks \/ Selected(R, id)
    <3>1. CASE SweepRead(R)
      <4>1. PICK id \in sweep[R].unread : sweep' = [sweep EXCEPT ![R] = AfterRead(R, id)]
        BY <3>1 DEF SweepRead
      <4>2. /\ AfterRead(R, id).phase = sweep[R].phase
            /\ AfterRead(R, id).aged = sweep[R].aged
            /\ \A x \in Tx : x \in AfterRead(R, id).marks =>
                  x \in sweep[R].marks \/ Selected(R, x)
        BY <1>t DEF AfterRead, Sweeps
      <4> QED
        BY <1>t, <3>1, <4>1, <4>2 DEF SweepRead
    <3>2. CASE SweepSkip(R)
      BY <1>t, <3>2 DEF SweepSkip, Sweeps
    <3>3. CASE SweepList(R) \/ SweepScanned(R) \/ SweepEnd(R) \/ SweepListFails(R)
      BY <1>t, <3>3 DEF SweepList, SweepScanned, SweepEnd, SweepListFails, Sweeps
    <3>4. ASSUME NEW id \in Tx, SweepMisses(R, id), ~UpdateFails(R)
          PROVE  /\ sweep'[SignalHandler] = sweep[SignalHandler]
                 /\ sweep'[R].phase # "off" /\ sweep[R].phase # "off"
                 /\ sweep'[R].aged \subseteq sweep[R].aged
                 /\ sweep'[R].marks \subseteq sweep[R].marks
      BY <1>t, <3>4 DEF SweepMisses, Sweeps
    <3> QED
      BY <1>2, <3>1, <3>2, <3>3, <3>4
  <2>3. \A id \in Tx : Selected(R, id) => txFile[id] # NoTx /\ ~IsTerminal(id) /\ ~Active(id)
    <3> SUFFICES ASSUME NEW id \in Tx, Selected(R, id)
                 PROVE  txFile[id] # NoTx /\ ~IsTerminal(id) /\ ~Active(id)
      OBVIOUS
    <3>1. \/ id \in sweep[R].aged
          \/ txFile[id].status = "committing"
      BY <1>t DEF Selected
    <3>2. Active(id) => txFile[id].status # "committing"
      BY DEF TxInv, RecordsOfInstalls, StatusesAt, Undecided
    <3> QED
      BY <1>a, <3>1, <3>2, ContentsDistinct DEF Selected, Readable
  <2>4. \A id \in Tx : Recovering(id)' => Recovering(id) \/ Selected(R, id)
    BY <2>1, <2>2 DEF Recovering, R
  <2>5. \A id \in Tx : Recovering(id)' =>
          txFile'[id] # NoTx /\ (~IsTerminal(id))' /\ (~Active(id))'
    BY <1>a, <1>u, <2>1, <2>3, <2>4 DEF IsTerminal
  <2>6. RecoveryApart'
    BY <1>a, <1>u, <2>1, <2>2, <2>5 DEF RecoveryApart, WritesOwn, R
  <2>7. RecordsOfInstalls'
    BY <1>0, <1>u, <2>1 DEF TxInv, RecordsOfInstalls, WritesOwn
  <2> QED
    BY <2>1, <2>6, <2>7 DEF TxInv
<1>3. CASE SweepMark(R)
  <2>1. PICK id \in sweep[R].marks :
           /\ call[R] = NoCall
           /\ call' = [call EXCEPT ![R] =
                 [step |-> "merged", id |-> id,
                  rec |-> WithStatus(txFile[id], "recovery-required")]]
           /\ sweep' = [sweep EXCEPT ![R].marks = sweep[R].marks \ {id}]
    BY <1>3 DEF SweepMark, ReadForUpdate
  <2>2. UNCHANGED <<txFile, txTmp>> /\ sweep[R].phase = "mark"
    BY <1>3 DEF SweepMark, ReadForUpdate
  <2>3. /\ sweep'[SignalHandler] = sweep[SignalHandler]
        /\ sweep'[R].phase = "mark" /\ sweep'[R].aged = sweep[R].aged
        /\ sweep'[R].marks = sweep[R].marks \ {id}
    BY <1>t, <2>1, <2>2 DEF Sweeps
  <2>4. /\ call'[R].id = id /\ call'[R].rec.status = "recovery-required"
        /\ call'[R].step = "merged"
        /\ \A c \in Callers : c # R => call'[c] = call[c]
    BY <1>t, <2>1 DEF WithStatus
  <2>5. \A x \in Tx : Recovering(x)' => Recovering(x)
    BY <2>1, <2>3, <2>4 DEF Recovering, R
  <2>6. \A x \in Tx : Recovering(x)' =>
          txFile'[x] # NoTx /\ (~IsTerminal(x))' /\ (~Active(x))'
    BY <1>a, <1>u, <2>2, <2>5 DEF IsTerminal
  <2>7. call'[SignalHandler] = call[SignalHandler]
    BY <1>t, <2>4
  <2>8. RecoveryApart'
    BY <1>a, <1>u, <2>2, <2>3, <2>4, <2>6, <2>7 DEF RecoveryApart, WritesOwn, R
  <2>9. \A a \in Tx : call'[a] = call[a]
    BY <1>t, <2>4
  <2>10. RecordsOfInstalls'
    BY <1>0, <1>u, <2>2, <2>9 DEF TxInv, RecordsOfInstalls, WritesOwn
  <2> QED
    BY <2>2, <2>8, <2>10 DEF TxInv
<1>4. CASE OpenTmp(R) \/ FillTmp(R) \/ RenameTmp(R) \/ RenameFails(R) \/ UpdateFails(R)
  <2>1. call[R] # NoCall /\ UNCHANGED sweep
    BY <1>4 DEF OpenTmp, FillTmp, RenameTmp, RenameFails, UpdateFails
  <2>0. PICK id \in Tx : id = call[R].id
    BY <1>t, <2>1 DEF Calls
  <2>2. id \in Tx /\ Recovering(id)
    BY <2>0, <2>1 DEF Recovering, R
  <2>3. txFile[id] # NoTx /\ ~IsTerminal(id) /\ ~Active(id)
    BY <1>a, <2>2
  <2>4. call[id] = NoCall
    <3>1. pc[id] \in BeforeCreate \cup Ended
      BY <2>3 DEF Active
    <3>2. ~AtUpdate(id)
      BY <3>1, WorkingSteps DEF AtUpdate, Working
    <3> QED
      BY <2>2, <3>2 DEF TypeInv, CallsAtUpdates
  <2>w. WritesOwn(R)
    BY <1>a, <2>1
  <2>5. /\ \A c \in Callers : c # R => call'[c] = call[c]
        /\ \A x \in Tx \ {id} : txFile'[x] = txFile[x] /\ txTmp'[x] = txTmp[x]
        /\ call'[R] # NoCall =>
             /\ call'[R].id = id /\ call'[R].rec = call[R].rec
             /\ txFile'[id] = txFile[id] /\ WritesOwn(R)'
        /\ \/ txFile'[id] = txFile[id]
           \/ txFile'[id] = call[R].rec /\ txFile'[id] # NoTx
    <3>g. ASSUME NEW step \in {"tmp", "written"}, call' = [call EXCEPT ![R].step = step]
          PROVE  /\ \A c \in Callers : c # R => call'[c] = call[c]
                 /\ call'[R] # NoCall /\ call'[R].step = step
                 /\ call'[R].id = id /\ call'[R].rec = call[R].rec
      BY <1>t, <2>0, <2>1, <3>g, CallGoesOn DEF TypeInv, JournalInv, OpenedAt
    <3>1. CASE OpenTmp(R)
      <4>1. txTmp' = [txTmp EXCEPT ![id] = Truncated] /\ UNCHANGED txFile
        BY <2>0, <3>1 DEF OpenTmp
      <4>2. call' = [call EXCEPT ![R].step = "tmp"]
        BY <3>1 DEF OpenTmp
      <4>3. WritesOwn(R)'
        BY <1>t, <3>g, <4>1, <4>2 DEF WritesOwn
      <4> QED
        BY <1>t, <3>g, <4>1, <4>2, <4>3
    <3>2. CASE FillTmp(R)
      <4>0. call[R].step = "tmp" /\ txTmp[id] = Truncated
        BY <2>0, <2>w, <3>2 DEF FillTmp, WritesOwn
      <4>1. txTmp' = [txTmp EXCEPT ![id] = call[R].rec] /\ UNCHANGED txFile
        BY <2>0, <3>2, <4>0 DEF FillTmp, Overwritten
      <4>2. call' = [call EXCEPT ![R].step = "written"]
        BY <3>2 DEF FillTmp
      <4>3. WritesOwn(R)'
        BY <1>t, <3>g, <4>1, <4>2 DEF WritesOwn
      <4> QED
        BY <1>t, <3>g, <4>1, <4>2, <4>3
    <3>3. CASE RenameTmp(R)
      <4>1. txTmp[id] = call[R].rec /\ txTmp[id] # NoTx
        BY <2>0, <2>w, <3>3 DEF RenameTmp, WritesOwn
      <4>2. \A c \in Callers \ {R} : ~Writes(c, id)
        <5> SUFFICES ASSUME NEW c \in Callers \ {R}, Writes(c, id)
                     PROVE  FALSE
          OBVIOUS
        <5>1. c # SignalHandler
          BY <1>a DEF Writes
        <5>2. c \in Tx
          BY <5>1, InstallerAssumption DEF Callers, Sweepers, R
        <5>3. c = id
          BY <5>2 DEF Writes, TxInv, RecordsOfInstalls
        <5> QED
          BY <2>4, <5>3 DEF Writes
      <4>3. /\ call'[R] = NoCall
            /\ \A c \in Callers : c # R => call'[c] = call[c]
        BY <1>t, <2>0, <3>3, <4>2 DEF RenameTmp
      <4> QED
        BY <1>t, <2>0, <3>3, <4>1, <4>3 DEF RenameTmp
    <3>4. CASE RenameFails(R) \/ UpdateFails(R)
      BY <1>t, <2>0, <3>4 DEF RenameFails, UpdateFails
    <3> QED
      BY <1>4, <3>1, <3>2, <3>3, <3>4
  <2>6. call[R].rec.status = "recovery-required"
    BY <1>a, <2>1
  <2>7. (txFile[id] # NoTx)' /\ (~IsTerminal(id))' /\ (~Active(id))'
    BY <1>u, <2>2, <2>3, <2>5, <2>6 DEF IsTerminal, TerminalStatuses
  <2>8. \A x \in Tx : Recovering(x)' =>
          txFile'[x] # NoTx /\ (~IsTerminal(x))' /\ (~Active(x))'
    <3> SUFFICES ASSUME NEW x \in Tx, Recovering(x)', x # id
                 PROVE  txFile'[x] # NoTx /\ (~IsTerminal(x))' /\ (~Active(x))'
      BY <2>7
    <3>1. Recovering(x)
      BY <2>0, <2>1, <2>5 DEF Recovering, R
    <3> QED
      BY <1>a, <1>u, <2>5, <3>1 DEF IsTerminal
  <2>9. \A x \in Tx : x \in sweep'[R].aged => txFile'[x] # NoTx /\ (~Active(x))'
    BY <1>a, <1>u, <2>1, <2>5, <2>7
  <2>10. call'[SignalHandler] = call[SignalHandler]
    BY <1>t, <2>5
  <2>11. RecoveryApart'
    BY <1>a, <1>u, <2>1, <2>5, <2>6, <2>8, <2>9, <2>10 DEF RecoveryApart, R
  <2>12. \A a \in Tx : call'[a] = call[a]
    BY <1>t, <2>5
  <2>13. ASSUME NEW a \in Tx
         PROVE  /\ pc'[a] \in BeforeCreate => txFile'[a] = NoTx
                /\ Active(a)' => /\ txFile'[a] # NoTx
                                 /\ txFile'[a].status \in StatusesAt(pc'[a])
                /\ call'[a] # NoCall =>
                     /\ call'[a].id = a
                     /\ call'[a].rec.status = IF Updates[pc'[a]].set = "same"
                                              THEN txFile'[a].status
                                              ELSE Updates[pc'[a]].set
                     /\ WritesOwn(a)'
                /\ pc'[a] \in {"idle"} \cup Ended => todo'[a] = {}
    <3>1. CASE a = id
      <4>1. pc[a] \notin BeforeCreate
        BY <2>2, <2>3, <3>1 DEF TxInv, RecordsOfInstalls
      <4> QED
        BY <1>0, <1>u, <2>3, <2>4, <2>12, <3>1, <4>1 DEF TxInv, RecordsOfInstalls
    <3>2. CASE a # id
      BY <1>0, <1>u, <2>5, <2>12, <3>2 DEF TxInv, RecordsOfInstalls, WritesOwn
    <3> QED
      BY <3>1, <3>2
  <2>14. RecordsOfInstalls'
    BY <2>13 DEF RecordsOfInstalls
  <2> QED
    BY <2>2, <2>3, <2>5, <2>6, <2>7, <2>11, <2>14 DEF TxInv
<1> QED
  BY <1>s, <1>2, <1>3, <1>4 DEF SweepStep

LEMMA InitTxInv == Init => TxInv
<1> SUFFICES ASSUME Init
             PROVE  TxInv
  OBVIOUS
<1>1. /\ txFile = [id \in Tx |-> NoTx]
      /\ call = [c \in Callers |-> NoCall]
      /\ sweep = [h \in Sweepers |-> SweepOff]
      /\ pc = [a \in Tx |-> "idle"] /\ todo = [a \in Tx |-> {}]
  BY DEF Init, JournalInit
<1>2. \A a \in Tx : ~Active(a) /\ call[a] = NoCall
  BY <1>1, InstallsAreCallers DEF Active, BeforeCreate
<1>3. RecoveryApart
  BY <1>1, <1>2, InstallsAreCallers DEF RecoveryApart, Recovering, SweepOff
<1>4. RecordsOfInstalls
  BY <1>1, <1>2 DEF RecordsOfInstalls
<1> QED
  BY <1>3, <1>4 DEF TxInv

LEMMA NextTxInv ==
    ASSUME NoSignals, TypeInv, TxInv, [Next]_vars
    PROVE  TxInv'
<1>1. ASSUME NEW a \in Tx, Start(a) \/ InstallStep(a)
      PROVE  TxInv'
  <2>1. CASE Start(a) \/ JumpStep(a) \/ FileStep(a) \/ EndStep(a)
    BY <2>1, LocalAgrees
  <2>2. CASE OpenStore(a)
    BY <2>2, OpenStoreAgrees
  <2>3. CASE Create(a)
    BY <2>3, CreateAgrees
  <2>4. CASE UpdateRead(a)
    BY <2>4, UpdateReadAgrees
  <2>5. CASE UpdateWrite(a)
    BY <2>5, UpdateWriteAgrees
  <2>6. CASE UpdateReturns(a)
    BY <2>6, UpdateReturnsAgrees
  <2>7. CASE UpdateThrows(a)
    BY <2>7, UpdateThrowsAgrees
  <2> QED
    BY <1>1, <2>1, <2>2, <2>3, <2>4, <2>5, <2>6, <2>7
    DEF InstallStep, JumpStep, EndStep, FileStep
<1>2. ASSUME NEW r \in Res, RemoveStart(r) \/ RemoveStep(r)
      PROVE  TxInv'
  BY <1>2, RemoveIsApart, IdleAgrees
<1>3. CASE UNCHANGED vars
  BY <1>3, IdleAgrees DEF vars, journalVars
<1>4. ~Signal
  BY InstallerAssumption DEF NoSignals, Signal
<1> QED
  BY <1>1, <1>2, <1>3, <1>4, SweepAgrees, CrashAgrees DEF Next

\* What an install changes of files, lockfile and database it changes while
\* its record is undecided, one step of an install being what moves it.
LEMMA StoresAreWrittenUndecided ==
    ASSUME NoSignals, TypeInv, TxInv, [Next]_vars, NEW a \in Tx,
           pc'[a] # "dead",
           pc'[a] # pc[a] \/ todo'[a] # todo[a],
           <<disk, lockfile, database>>' # <<disk, lockfile, database>>
    PROVE  StatusOf(a) \in Statuses \ TerminalStatuses
<1>1. ASSUME NEW b \in Tx, Start(b) \/ InstallStep(b)
      PROVE  pc[a] \in Working
  <2>1. FileStep(b)
    <3>1. JumpStep(b) => UNCHANGED <<disk, lockfile, database>>
      BY JumpSteps DEF Jump, Move, storeVars
    <3>2. EndStep(b) => UNCHANGED <<disk, lockfile, database>>
      BY EndSteps DEF Settle
    <3>3. Start(b) \/ OpenStore(b) \/ Create(b) \/ UpdateRead(b) \/ UpdateWrite(b)
          \/ UpdateReturns(b) \/ UpdateThrows(b)
            => UNCHANGED <<disk, lockfile, database>>
      BY DEF Start, Jump, Settle, OpenStore, Create, UpdateRead, UpdateWrite,
             UpdateReturns, UpdateThrows, Move, PassOver, storeVars, installVars
    <3> QED
      BY <1>1, <3>1, <3>2, <3>3 DEF InstallStep, JumpStep, EndStep, FileStep
  <2>2. /\ pc[b] \in Working \/ (pc[b] = "initialize" /\ pc'[b] = "create")
        /\ \A c \in Tx \ {b} : pc'[c] = pc[c] /\ todo'[c] = todo[c]
    BY <2>1, LocalSteps
  <2>3. a = b
    BY <2>2
  <2>4. pc[b] # "initialize"
    BY <2>1
    DEF FileStep, TakeSnapshot, WriteStub, FetchManifest, FetchFile, ReadBack,
        ReachWriteStage, WriteFile, Throws, ReadLock, WriteLock, ReadDatabase,
        WriteDatabase, Catch, RestoreFile, FetchManifestFails, LockFails,
        DatabaseFails
  <2> QED
    BY <2>2, <2>3, <2>4
<1>2. ~(\E r \in Res : RemoveStart(r) \/ RemoveStep(r))
  BY RemoveIsApart
<1>3. ~Signal /\ ~(\E h \in Sweepers : Sweep(h)) /\ ~UNCHANGED vars
  BY DEF Signal, Sweep, installVars, vars
<1>4. ~Crash
  <2>1. ASSUME Crash
        PROVE  FALSE
    <3>1. /\ pc' = [b \in Tx |-> IF Running(b) THEN "dead" ELSE pc[b]]
          /\ todo' = [b \in Tx |-> {}]
      BY <2>1 DEF Crash
    <3>2. ~Running(a) /\ pc'[a] = pc[a] /\ todo'[a] = {}
      BY <3>1
    <3>3. todo[a] = {}
      BY <3>2 DEF Running, TxInv, RecordsOfInstalls
    <3> QED
      BY <3>2, <3>3
  <2> QED
    BY <2>1
<1>5. pc[a] \in Working
  BY <1>1, <1>2, <1>3, <1>4 DEF Next
<1>6. txFile[a] # NoTx /\ txFile[a].status \in Undecided
  BY <1>5, WorkingSteps DEF TxInv, RecordsOfInstalls, Active
<1> QED
  BY <1>6, WorkingSteps DEF StatusOf

\* Without a signal, an install changes files, lockfile and database only
\* while its transaction is on disk and not terminal, in its catch clause as
\* well, however many installs and removes overlap, whatever fails, and with
\* the recovery marking what earlier runs left (install, markCommitted,
\* markFailed).
THEOREM ChangesAreCovered ==
    ASSUME NoSignals
    PROVE  Spec => WritesUnderTransaction
<1>1. TypeInv /\ TxInv /\ [Next]_vars => TypeInv' /\ TxInv'
  BY NextTypeInv, NextTxInv
<1>2. TypeInv /\ TxInv /\ [Next]_vars =>
        [\A a \in Tx :
            /\ pc'[a] # "dead"
            /\ pc'[a] # pc[a] \/ todo'[a] # todo[a]
            /\ <<disk, lockfile, database>>' # <<disk, lockfile, database>>
            => StatusOf(a) \in Statuses \ TerminalStatuses]_vars
  BY StoresAreWrittenUndecided
<1> QED
  BY <1>1, <1>2, InitTypeInv, InitTxInv, PTL DEF Spec, WritesUnderTransaction
-----------------------------------------------------------------------------
(* The installs implement InstallLifecycle.                                *)

\* A transaction is one call of install: a plan has an install once, no two
\* plans have the same, and none has one that the user asked for.
SeparatePlans ==
    /\ \A p \in Tx : Deps(p) \cap Roots = {}
    /\ \A p, q \in Tx : p # q => Deps(p) \cap Deps(q) = {}
    /\ \A p \in Tx : \A i, j \in DOMAIN DepsOf[p] :
          DepsOf[p][i] = DepsOf[p][j] => i = j

\* Where an install has all its dependencies.
Complete == {"hook", "read-lock", "write-lock", "read-db", "write-db", "commit"}

\* The caller is told what the transaction says, and an install gets past its
\* dependencies with all of them.
AnswersAgree ==
    \A a \in Tx :
        /\ result[a] # "none" <=> pc[a] = "settled"
        /\ result[a] = "ok" => StatusOf(a) = "committed"
        /\ pc[a] \in Complete => \A d \in Deps(a) : result[d] = "ok"

\* Dependencies are installed in the order of the plan, while the install that
\* needs them waits.
PlansAreFollowed ==
    /\ \A p \in Tx : \A i \in DOMAIN DepsOf[p] : pc[DepsOf[p][i]] # "idle" =>
          \A j \in 1 .. i - 1 : result[DepsOf[p][j]] = "ok"
    /\ \A a \in Tx \ Roots : Running(a) =>
          \E p \in Tx : a \in Deps(p) /\ pc[p] = "dependencies"

PlanInv == AnswersAgree /\ PlansAreFollowed

LEMMA PlansAreOfInstalls ==
    \A p \in Tx : /\ DepsOf[p] \in Seq(Tx) /\ DOMAIN DepsOf[p] = 1 .. Len(DepsOf[p])
                  /\ Len(DepsOf[p]) \in Nat
                  /\ \A i \in DOMAIN DepsOf[p] : DepsOf[p][i] \in Tx
                  /\ Deps(p) \subseteq Tx
  BY InstallerAssumption DEF Deps

\* An install that is started is the next of its plan, and one that runs keeps
\* the install that needs it waiting.
LEMMA WaitsForDependency ==
    ASSUME SeparatePlans, TypeInv, PlanInv, NEW p \in Tx, NEW a \in Deps(p), Running(a),
           pc[p] = "dependencies"
    PROVE  ~DependenciesEnd(p) /\ ~DependencyFails(p)
<1>1. PICK i \in DOMAIN DepsOf[p] : DepsOf[p][i] = a
  BY DEF Deps
<1>2. a \in Tx /\ result[a] = "none" /\ pc[a] # "idle"
  BY PlansAreOfInstalls DEF PlanInv, AnswersAgree, Running, Ended
<1>3. ~DependenciesEnd(p)
  BY <1>2 DEF DependenciesEnd
<1>4. \A j \in 1 .. i - 1 : result[DepsOf[p][j]] = "ok"
  BY <1>1, <1>2 DEF PlanInv, PlansAreFollowed
<1>5. ASSUME NEW k \in DOMAIN DepsOf[p], pc[DepsOf[p][k]] # "idle"
      PROVE  k <= i
  <2>1. k > i => result[DepsOf[p][i]] = "ok"
    BY <1>5, PlansAreOfInstalls DEF PlanInv, PlansAreFollowed
  <2> QED
    BY <1>1, <1>2, <2>1, PlansAreOfInstalls
<1>6. ASSUME NEW k \in DOMAIN DepsOf[p], result[DepsOf[p][k]] = "failed"
      PROVE  FALSE
  <2>1. pc[DepsOf[p][k]] # "idle"
    BY <1>6, PlansAreOfInstalls DEF PlanInv, AnswersAgree
  <2>2. k <= i /\ k # i
    BY <1>1, <1>2, <1>5, <1>6, <2>1
  <2> QED
    BY <1>4, <1>6, <2>2, PlansAreOfInstalls
<1>7. ASSUME NEW k \in DOMAIN DepsOf[p], pc[DepsOf[p][k]] = "idle",
             NEW l \in DOMAIN DepsOf[p], DepsOf[p][l] = DepsOf[p][k],
             \A j \in 1 .. l - 1 : result[DepsOf[p][j]] = "ok"
      PROVE  FALSE
  <2>1. k = l
    BY <1>7 DEF SeparatePlans
  <2>2. k # i
    BY <1>1, <1>2, <1>7
  <2>3. ~(k > i)
    BY <1>1, <1>2, <1>7, <2>1, PlansAreOfInstalls
  <2>4. ~(k < i)
    <3>1. k < i => result[DepsOf[p][k]] = "ok"
      BY <1>4, PlansAreOfInstalls
    <3>2. result[DepsOf[p][k]] = "none"
      BY <1>7, PlansAreOfInstalls
      DEF PlanInv, AnswersAgree, TypeInv, InstallTypeOK
    <3> QED
      BY <3>1, <3>2
  <2> QED
    BY <2>2, <2>3, <2>4, PlansAreOfInstalls
<1>8. ~DependencyFails(p)
  <2>1. \A d \in Deps(p) : result[d] # "failed"
    BY <1>6 DEF Deps
  <2>2. \A d \in Deps(p) : ~(pc[d] = "idle" /\ IsNextDep(p, d))
    BY <1>7 DEF Deps, IsNextDep
  <2> QED
    BY <2>1, <2>2 DEF DependencyFails
<1> QED
  BY <1>3, <1>8

\* The record of an install that has ended stays as it is, but for the mark
\* of the recovery when it is undecided.
LEMMA EndedRecordsStay ==
    ASSUME NoSignals, TypeInv, TxInv, [Next]_vars, NEW d \in Tx, txFile[d] # NoTx,
           ~Active(d)
    PROVE  \/ txFile'[d] = txFile[d]
           \/ /\ ~IsTerminal(d) /\ txFile'[d] # NoTx
              /\ txFile'[d].status = "recovery-required"
<1>1. ASSUME NEW a \in Tx, Start(a) \/ InstallStep(a)
      PROVE  txFile'[d] = txFile[d]
  <2>1. CASE JumpStep(a) \/ FileStep(a)
    BY <2>1, LocalSteps DEF journalVars
  <2>2. CASE EndStep(a)
    BY <2>2, EndSteps DEF journalVars
  <2>3. CASE Create(a)
    BY <2>3 DEF Create, CreateTransaction, TypeInv, JournalInv, JournalTypeOK
  <2>6. CASE UpdateWrite(a)
    <3>1. call[a] # NoCall
      BY <2>6 DEF UpdateWrite, OpenTmp, FillTmp
    <3>2. WritesOwn(a)
      BY <3>1 DEF TxInv, RecordsOfInstalls
    <3> QED
      BY <2>6, <3>2 DEF UpdateWrite, OpenTmp, FillTmp, WritesOwn
  <2>4. CASE UpdateReturns(a)
    <3>1. call[a] # NoCall /\ txFile' = [txFile EXCEPT ![call[a].id] = txTmp[call[a].id]]
      BY <2>4 DEF UpdateReturns, RenameTmp
    <3>2. AtUpdate(a) /\ call[a].id = a
      BY <3>1 DEF TypeInv, CallsAtUpdates, TxInv, RecordsOfInstalls
    <3>3. a # d
      BY <3>2, UpdatesAreOfActive
    <3> QED
      BY <3>1, <3>2, <3>3 DEF TypeInv, JournalInv, JournalTypeOK
  <2>5. CASE Start(a) \/ OpenStore(a) \/ UpdateRead(a) \/ UpdateThrows(a)
    BY <2>5
    DEF Start, Jump, journalVars, OpenStore, SweepStart, UpdateRead,
        ReadForUpdate, UpdateThrows, RecordUnread, RenameFails, UpdateFails
  <2> QED
    BY <1>1, <2>1, <2>2, <2>3, <2>4, <2>5, <2>6
    DEF InstallStep, JumpStep, EndStep, FileStep
<1>2. ASSUME NEW r \in Res, RemoveStart(r) \/ RemoveStep(r)
      PROVE  txFile'[d] = txFile[d]
  BY <1>2, RemoveIsApart DEF journalVars
<1>3. ASSUME NEW h \in Sweepers, Sweep(h), txFile'[d] # txFile[d]
      PROVE  /\ ~IsTerminal(d) /\ txFile'[d] # NoTx
             /\ txFile'[d].status = "recovery-required"
  BY <1>3, SweepAgrees
<1>4. Crash \/ UNCHANGED vars => txFile' = txFile
  BY DEF Crash, JournalCrash, vars
<1>5. ~Signal
  BY InstallerAssumption DEF NoSignals, Signal
<1> QED
  BY <1>1, <1>2, <1>3, <1>4, <1>5 DEF Next

\* One step of an install: it leaves the others alone, settles its promise or
\* goes on, and gets past its dependencies with all of them.
LEMMA OneInstallMoves ==
    ASSUME TypeInv, NEW a \in Tx, Start(a) \/ InstallStep(a)
    PROVE  /\ pc[a] \notin Ended /\ pc'[a] # "idle" /\ pc'[a] # "dead"
           /\ \A b \in Tx \ {a} : pc'[b] = pc[b] /\ result'[b] = result[b]
           /\ \/ result'[a] = result[a] /\ pc'[a] # "settled"
              \/ /\ Start(a) \/ EndStep(a)
                 /\ pc'[a] = "settled" /\ UNCHANGED journalVars
                 /\ \/ result'[a] = "ok" /\ pc[a] = "return"
                    \/ result'[a] = "failed" /\ pc[a] # "return"
           /\ pc[a] = "idle" => Start(a)
           /\ pc'[a] \in Complete => pc[a] \in Complete \/ DependenciesEnd(a)
           /\ pc[a] = "dependencies" => DependenciesEnd(a) \/ DependencyFails(a)
<1>t. pc \in [Tx -> Steps] /\ result \in [Tx -> {"none", "ok", "failed"}]
  BY DEF TypeInv, InstallTypeOK
<1>1. CASE Start(a)
  <2>1. CASE Jump(a, "create")
    BY <1>1, <1>t, <2>1 DEF Start, Jump, Move, Goto, Ended, Complete
  <2>2. CASE Settle(a, "failed")
    BY <1>1, <1>t, <2>2 DEF Start, Jump, Settle, Goto, Ended, Complete
  <2> QED
    BY <1>1, <2>1, <2>2 DEF Start
<1>2. CASE JumpStep(a)
  <2>1. UNCHANGED result /\ \A b \in Tx \ {a} : pc'[b] = pc[b]
    BY <1>2, LocalSteps
  <2>2. \/ pc[a] \in Working /\ pc'[a] \in Working
        \/ pc[a] = "initialize" /\ pc'[a] = "create"
    BY <1>2, LocalSteps
  <2>3. /\ pc'[a] \in Complete => pc[a] \in Complete \/ DependenciesEnd(a)
        /\ pc[a] = "dependencies" => DependenciesEnd(a) \/ DependencyFails(a)
    BY <1>2, <1>t
    DEF Complete, Jump, Move, Goto, JumpStep, StoreOpened, SnapshotFails,
        FetchEnds, PipelineEnds, InstallHook, RestoreEnds, DependencyFails
  <2> QED
    BY <2>1, <2>2, <2>3 DEF Working, BeforeCreate, Ended
<1>3. CASE FileStep(a)
  <2>1. UNCHANGED result /\ \A b \in Tx \ {a} : pc'[b] = pc[b]
    BY <1>3, LocalSteps
  <2>2. pc[a] # "initialize" /\ pc[a] # "dependencies"
        /\ (pc'[a] \in Complete => pc[a] \in Complete)
    BY <1>3, <1>t
    DEF Complete, Goto, FileStep, TakeSnapshot, WriteStub, FetchManifest,
        FetchFile, ReadBack, ReachWriteStage, WriteFile, Throws, ReadLock,
        WriteLock, ReadDatabase, WriteDatabase, Catch, RestoreFile, PassOver,
        FetchManifestFails, LockFails, DatabaseFails
  <2>3. pc[a] \in Working /\ pc'[a] \in Working
    BY <1>3, <2>2, LocalSteps
  <2> QED
    BY <2>1, <2>2, <2>3 DEF Working, BeforeCreate, Ended
<1>4. CASE EndStep(a)
  BY <1>4, <1>t
  DEF EndStep, CreateFails, Return, Reject, Settle, Goto, Ended, Complete
<1>5. CASE OpenStore(a) \/ Create(a)
  BY <1>5, <1>t DEF OpenStore, Create, Move, Goto, Ended, Complete
<1>6. CASE UpdateRead(a) \/ UpdateWrite(a)
  <2>1. AtUpdate(a) /\ UNCHANGED <<pc, result>>
    BY <1>6
    DEF UpdateRead, UpdateWrite, OpenTmp, FillTmp, installVars, TypeInv,
        CallsAtUpdates
  <2> QED
    BY <2>1, UpdatesTable DEF AtUpdate, Ended, Complete
<1>7. CASE UpdateReturns(a) \/ UpdateThrows(a)
  <2>1. AtUpdate(a)
    BY <1>7
    DEF UpdateReturns, UpdateThrows, RecordUnread, RenameTmp, RenameFails,
        UpdateFails, TypeInv, CallsAtUpdates
  <2>2. pc[a] \in {"record", "prepare", "writing", "commit", "fail"}
    BY <2>1, UpdatesTable DEF AtUpdate
  <2>3. \/ Move(a, Updates[pc[a]].next) \/ Move(a, Updates[pc[a]].throw)
        \/ PassOver(a, "catch")
    BY <1>7 DEF UpdateReturns, UpdateThrows
  <2>4. \E step \in {"prepare", "stub", "read-back", "return", "catch", "reject"} :
           Goto(a, step) /\ UNCHANGED result
    <3>1. {Updates[pc[a]].next, Updates[pc[a]].throw, "catch"} \subseteq
             {"prepare", "stub", "read-back", "return", "catch", "reject"}
      BY <2>2 DEF Updates
    <3> QED
      BY <2>3, <3>1 DEF Move, PassOver
  <2> QED
    BY <1>t, <2>2, <2>4 DEF Goto, Ended, Complete
<1> QED
  BY <1>1, <1>2, <1>3, <1>4, <1>5, <1>6, <1>7 DEF InstallStep, JumpStep, EndStep, FileStep

\* One step of the system, as far as installs go: an install moves, all that
\* run die, or none moves.
LEMMA InstallsMove ==
    ASSUME NoSignals, TypeInv, [Next]_vars
    PROVE  \/ \E a \in Tx : Start(a) \/ InstallStep(a)
           \/ Crash
           \/ UNCHANGED <<pc, result>>
<1>1. ~Signal
  BY InstallerAssumption DEF NoSignals, Signal
<1> QED
  BY <1>1, RemoveIsApart DEF Next, Sweep, installVars, vars

LEMMA InitPlanInv == Init => PlanInv
  BY PlansAreOfInstalls
  DEF Init, PlanInv, AnswersAgree, PlansAreFollowed, Complete, Running, Ended

\* What is answered stays, whoever moves.
LEMMA AnswersStay ==
    ASSUME NoSignals, TypeInv, PlanInv, [Next]_vars, NEW d \in Tx, result[d] # "none"
    PROVE  result'[d] = result[d] /\ pc'[d] = "settled"
<1>1. pc[d] = "settled"
  BY DEF PlanInv, AnswersAgree, TypeInv, InstallTypeOK
<1>2. ASSUME NEW a \in Tx, Start(a) \/ InstallStep(a)
      PROVE  result'[d] = result[d] /\ pc'[d] = "settled"
  <2>1. a # d
    BY <1>1, <1>2, OneInstallMoves DEF Ended
  <2> QED
    BY <1>1, <1>2, <2>1, OneInstallMoves
<1>3. Crash => result'[d] = result[d] /\ pc'[d] = "settled"
  BY <1>1 DEF Crash, Running, Ended
<1> QED
  BY <1>1, <1>2, <1>3, InstallsMove

LEMMA NextAnswersAgree ==
    ASSUME NoSignals, TypeInv, TxInv, PlanInv, [Next]_vars
    PROVE  AnswersAgree'
<1>t. result \in [Tx -> {"none", "ok", "failed"}] /\ pc \in [Tx -> Steps]
  BY DEF TypeInv, InstallTypeOK
<1>1. ASSUME NEW d \in Tx
      PROVE  /\ result'[d] # "none" <=> pc'[d] = "settled"
             /\ result'[d] = "ok" => StatusOf(d)' = "committed"
  <2>1. CASE result[d] # "none"
    <3>1. result'[d] = result[d] /\ pc'[d] = "settled" /\ pc[d] = "settled"
      BY <2>1, AnswersStay DEF PlanInv, AnswersAgree
    <3>2. ASSUME result[d] = "ok"
          PROVE  StatusOf(d)' = "committed"
      <4>1. StatusOf(d) = "committed"
        BY <3>2 DEF PlanInv, AnswersAgree
      <4>2. IsTerminal(d) /\ ~Active(d)
        BY <3>1, <4>1
        DEF StatusOf, IsTerminal, TerminalStatuses, Active, Ended
      <4> QED
        BY <4>1, <4>2, EndedRecordsStay DEF StatusOf, IsTerminal
    <3> QED
      BY <2>1, <3>1, <3>2
  <2>2. CASE result[d] = "none"
    <3>0. pc[d] # "settled"
      BY <2>2 DEF PlanInv, AnswersAgree
    <3>1. ASSUME NEW a \in Tx, Start(a) \/ InstallStep(a)
          PROVE  /\ result'[d] # "none" <=> pc'[d] = "settled"
                 /\ result'[d] = "ok" => StatusOf(d)' = "committed"
      <4>1. CASE a # d
        BY <2>2, <3>0, <3>1, <4>1, OneInstallMoves
      <4>2. CASE a = d /\ result'[a] = result[a] /\ pc'[a] # "settled"
        BY <2>2, <4>2
      <4>3. CASE a = d /\ pc'[a] = "settled" /\ result'[a] = "failed"
        BY <4>3
      <4>4. CASE a = d /\ pc'[a] = "settled" /\ UNCHANGED journalVars
                 /\ result'[a] = "ok" /\ pc[a] = "return"
        <5>1. txFile[a] # NoTx /\ txFile[a].status \in StatusesAt("return")
          BY <4>4 DEF TxInv, RecordsOfInstalls, Active, BeforeCreate, Ended
        <5>2. StatusOf(a)' = "committed"
          BY <4>4, <5>1, WorkingSteps DEF StatusOf, journalVars
        <5> QED
          BY <4>4, <5>2
      <4> QED
        BY <3>1, <4>1, <4>2, <4>3, <4>4, OneInstallMoves
    <3>2. Crash => result'[d] = "none" /\ pc'[d] # "settled"
      BY <2>2, <3>0 DEF Crash
    <3> QED
      BY <2>2, <3>0, <3>1, <3>2, InstallsMove
  <2> QED
    BY <2>1, <2>2
<1>2. ASSUME NEW a \in Tx, pc'[a] \in Complete, NEW d \in Deps(a)
      PROVE  result'[d] = "ok"
  <2>1. pc[a] \in Complete \/ DependenciesEnd(a)
    <3>1. ASSUME NEW b \in Tx, Start(b) \/ InstallStep(b)
          PROVE  pc[a] \in Complete \/ DependenciesEnd(a)
      <4>1. CASE b = a
        BY <1>2, <3>1, <4>1, OneInstallMoves
      <4>2. CASE b # a
        BY <1>2, <3>1, <4>2, OneInstallMoves
      <4> QED
        BY <4>1, <4>2
    <3>2. Crash => pc[a] \in Complete
      BY <1>2 DEF Crash, Complete
    <3> QED
      BY <1>2, <3>1, <3>2, InstallsMove
  <2>2. result[d] = "ok" /\ d \in Tx
    BY <1>2, <2>1, PlansAreOfInstalls DEF DependenciesEnd, PlanInv, AnswersAgree
  <2> QED
    BY <2>2, AnswersStay
<1> QED
  BY <1>1, <1>2 DEF AnswersAgree

\* An install that is started is asked for by the user or is the next of the
\* only plan it belongs to.
LEMMA StartsInOrder ==
    ASSUME SeparatePlans, NEW a \in Tx, Start(a)
    PROVE  \/ a \in Roots /\ \A p \in Tx : a \notin Deps(p)
           \/ \E p \in Tx :
                 /\ a \in Deps(p) /\ pc[p] = "dependencies"
                 /\ \A q \in Tx : a \in Deps(q) => q = p
                 /\ \A i \in DOMAIN DepsOf[p] : DepsOf[p][i] = a =>
                       \A j \in 1 .. i - 1 : result[DepsOf[p][j]] = "ok"
<1>1. CASE a \in Roots
  BY <1>1 DEF SeparatePlans
<1>2. CASE a \notin Roots
  <2>1. PICK p \in Tx : pc[p] = "dependencies" /\ IsNextDep(p, a)
    BY <1>2 DEF Start, Called
  <2>2. PICK i \in DOMAIN DepsOf[p] :
           /\ DepsOf[p][i] = a
           /\ \A j \in 1 .. i - 1 : result[DepsOf[p][j]] = "ok"
    BY <2>1 DEF IsNextDep
  <2>3. a \in Deps(p)
    BY <2>2 DEF Deps
  <2>4. \A q \in Tx : a \in Deps(q) => q = p
    BY <2>3 DEF SeparatePlans
  <2>5. \A k \in DOMAIN DepsOf[p] : DepsOf[p][k] = a => k = i
    BY <2>2 DEF SeparatePlans
  <2> QED
    BY <2>1, <2>2, <2>3, <2>4, <2>5
<1> QED
  BY <1>1, <1>2

LEMMA NextPlansAreFollowed ==
    ASSUME NoSignals, SeparatePlans, TypeInv, TxInv, PlanInv, [Next]_vars
    PROVE  PlansAreFollowed'
<1>1. ASSUME NEW p \in Tx, NEW i \in DOMAIN DepsOf[p], pc'[DepsOf[p][i]] # "idle",
             NEW j \in 1 .. i - 1
      PROVE  result'[DepsOf[p][j]] = "ok"
  <2>0. j \in DOMAIN DepsOf[p] /\ DepsOf[p][j] \in Tx /\ DepsOf[p][i] \in Tx
    BY <1>1, PlansAreOfInstalls
  <2>1. result[DepsOf[p][j]] = "ok"
    <3>1. CASE pc[DepsOf[p][i]] # "idle"
      BY <1>1, <3>1 DEF PlanInv, PlansAreFollowed
    <3>2. CASE pc[DepsOf[p][i]] = "idle"
      <4> DEFINE d == DepsOf[p][i]
      <4>1. Start(d)
        <5>1. ASSUME NEW b \in Tx, Start(b) \/ InstallStep(b)
              PROVE  Start(d)
          BY <1>1, <2>0, <3>2, <5>1, OneInstallMoves
        <5>2. ~Crash
          BY <1>1, <2>0, <3>2 DEF Crash, Running
        <5> QED
          BY <1>1, <3>2, <5>1, <5>2, InstallsMove
      <4>2. d \in Deps(p)
        BY DEF Deps
      <4>3. \A k \in DOMAIN DepsOf[p] : DepsOf[p][k] = d =>
               \A l \in 1 .. k - 1 : result[DepsOf[p][l]] = "ok"
        BY <2>0, <4>1, <4>2, StartsInOrder
      <4> QED
        BY <1>1, <4>3
    <3> QED
      BY <3>1, <3>2
  <2> QED
    BY <2>0, <2>1, AnswersStay
<1>2. ASSUME NEW a \in Tx \ Roots, Running(a)'
      PROVE  \E p \in Tx : a \in Deps(p) /\ pc'[p] = "dependencies"
  <2>1. \E p \in Tx : a \in Deps(p) /\ pc[p] = "dependencies"
    <3>1. CASE Running(a)
      BY <3>1 DEF PlanInv, PlansAreFollowed
    <3>2. CASE ~Running(a)
      <4>1. Start(a)
        <5>1. ASSUME NEW b \in Tx, Start(b) \/ InstallStep(b)
              PROVE  Start(a)
          BY <1>2, <3>2, <5>1, OneInstallMoves DEF Running
        <5>2. ~Crash
          BY <1>2, <3>2 DEF Crash, Running, Ended
        <5> QED
          BY <1>2, <3>2, <5>1, <5>2, InstallsMove DEF Running
      <4> QED
        BY <4>1, StartsInOrder
    <3> QED
      BY <3>1, <3>2
  <2>2. PICK p \in Tx : a \in Deps(p) /\ pc[p] = "dependencies"
    BY <2>1
  <2>3. pc'[p] = "dependencies"
    <3>1. ASSUME NEW b \in Tx, Start(b) \/ InstallStep(b)
          PROVE  pc'[p] = "dependencies"
      <4>1. CASE b # p
        BY <2>2, <3>1, <4>1, OneInstallMoves
      <4>2. CASE b = p
        <5>1. DependenciesEnd(p) \/ DependencyFails(p)
          BY <2>2, <3>1, <4>2, OneInstallMoves
        <5>2. pc'[a] = pc[a] \/ a = p
          BY <3>1, <4>2, OneInstallMoves
        <5>3. Running(a)
          BY <1>2, <2>2, <5>2 DEF Running, Ended
        <5> QED
          BY <2>2, <5>1, <5>3, WaitsForDependency
      <4> QED
        BY <4>1, <4>2
    <3>2. ~Crash
      BY <1>2 DEF Crash, Running, Ended
    <3> QED
      BY <2>2, <3>1, <3>2, InstallsMove
  <2> QED
    BY <2>2, <2>3
<1> QED
  BY <1>1, <1>2 DEF PlansAreFollowed

LEMMA NextPlanInv ==
    ASSUME NoSignals, SeparatePlans, TypeInv, TxInv, PlanInv, [Next]_vars
    PROVE  PlanInv'
  BY NextAnswersAgree, NextPlansAreFollowed DEF PlanInv

-----------------------------------------------------------------------------
(* Each step of the installer is one of InstallLifecycle, or none.          *)

LEMMA StatusKept ==
    ASSUME NEW d \in Tx, txFile'[d] = txFile[d]
    PROVE  StatusOf(d)' = StatusOf(d)
  BY DEF StatusOf

LEMMA PhasesOfStatuses ==
    /\ Phase("none") = "none" /\ Phase("committed") = "committed"
    /\ Phase("failed") = "failed" /\ Phase("recovery-required") = "active"
    /\ \A st \in Undecided : Phase(st) = "active"
    /\ \A st \in Statuses \ TerminalStatuses : Phase(st) = "active"
  BY DEF Phase, Undecided, Statuses, TerminalStatuses

\* Nothing that InstallLifecycle speaks of changes.
LEMMA StutterMapped ==
    ASSUME \A d \in Tx : Phase(StatusOf(d))' = Phase(StatusOf(d)),
           \A d \in Tx : pc'[d] = "dead" <=> pc[d] = "dead",
           UNCHANGED result
    PROVE  UNCHANGED Lifecycle!vars
  BY DEF Lifecycle!vars

\* One install gets another phase.
LEMMA PhaseMapped ==
    ASSUME NEW a \in Tx, NEW ph,
           Phase(StatusOf(a))' = ph,
           \A d \in Tx \ {a} : txFile'[d] = txFile[d],
           \A d \in Tx : pc'[d] = "dead" <=> pc[d] = "dead"
    PROVE  /\ [d \in Tx |-> Phase(StatusOf(d))]' =
                 [[d \in Tx |-> Phase(StatusOf(d))] EXCEPT ![a] = ph]
           /\ {d \in Tx : pc[d] = "dead"}' = {d \in Tx : pc[d] = "dead"}
<1>1. \A d \in Tx \ {a} : Phase(StatusOf(d))' = Phase(StatusOf(d))
  BY StatusKept
<1> QED
  BY <1>1

LEMMA AliveInstalls ==
    ASSUME TypeInv, PlanInv, NEW a \in Tx, pc[a] \notin Ended
    PROVE  Lifecycle!Alive(a)
  BY DEF PlanInv, AnswersAgree, Ended, Lifecycle!Alive

LEMMA CreateMapped ==
    ASSUME TypeInv, TxInv, PlanInv, NEW a \in Tx, Create(a)
    PROVE  Lifecycle!Begin(a)
<1>1. /\ pc[a] = "create" /\ txFile' = [txFile EXCEPT ![a] = NewTx]
      /\ UNCHANGED result
  BY DEF Create, CreateTransaction, Move
<1>2. /\ txFile'[a] = NewTx /\ \A d \in Tx \ {a} : txFile'[d] = txFile[d]
      /\ txFile[a] = NoTx
  BY <1>1 DEF TypeInv, JournalInv, JournalTypeOK, TxInv, RecordsOfInstalls, BeforeCreate
<1>3. Phase(StatusOf(a)) = "none" /\ Phase(StatusOf(a))' = "active"
  <2>1. NewTx # NoTx /\ NewTx.status \in Undecided
    BY NewTxWellFormed, ContentsDistinct DEF NewTx, Undecided
  <2> QED
    BY <1>2, <2>1, PhasesOfStatuses DEF StatusOf
<1>4. \A d \in Tx : pc'[d] = "dead" <=> pc[d] = "dead"
  <2>1. InstallStep(a)
    BY DEF InstallStep
  <2> QED
    BY <2>1, OneInstallMoves DEF Ended
<1>5. Lifecycle!Alive(a)
  BY <1>1, AliveInstalls DEF Ended
<1>6. \/ a \in Roots
      \/ \E p \in Tx : a \in Deps(p) /\ Phase(StatusOf(p)) = "active" /\ Lifecycle!Alive(p)
  <2>1. CASE a \notin Roots
    <3>1. Running(a)
      BY <1>1 DEF Running, Ended
    <3>2. PICK p \in Tx : a \in Deps(p) /\ pc[p] = "dependencies"
      BY <2>1, <3>1 DEF PlanInv, PlansAreFollowed
    <3>3. Lifecycle!Alive(p)
      BY <3>2, AliveInstalls DEF Ended
    <3>4. txFile[p] # NoTx /\ txFile[p].status \in Undecided
      BY <3>2 DEF TxInv, RecordsOfInstalls, Active, BeforeCreate, Ended, StatusesAt
    <3>5. Phase(StatusOf(p)) = "active"
      BY <3>4, PhasesOfStatuses DEF StatusOf
    <3> QED
      BY <3>2, <3>3, <3>5
  <2> QED
    BY <2>1
<1> QED
  BY <1>1, <1>2, <1>3, <1>4, <1>5, <1>6, PhaseMapped DEF Lifecycle!Begin

\* An update that returns commits the transaction, fails it, or leaves it
\* active.
LEMMA UpdateMapped ==
    ASSUME TypeInv, TxInv, PlanInv, NEW a \in Tx, UpdateReturns(a)
    PROVE  Lifecycle!Commit(a) \/ Lifecycle!Fail(a) \/ UNCHANGED Lifecycle!vars
<1>1. /\ call[a] # NoCall /\ call[a].step = "written"
      /\ txFile' = [txFile EXCEPT ![call[a].id] = txTmp[call[a].id]]
      /\ UNCHANGED result
  BY DEF UpdateReturns, RenameTmp, Move
<1>2. /\ AtUpdate(a) /\ call[a].id = a /\ txTmp[a] = call[a].rec
      /\ call[a].rec.status = IF Updates[pc[a]].set = "same"
                              THEN txFile[a].status ELSE Updates[pc[a]].set
  BY <1>1 DEF TypeInv, CallsAtUpdates, TxInv, RecordsOfInstalls, WritesOwn
<1>3. /\ pc[a] \in Working /\ txFile[a] # NoTx /\ txFile[a].status \in Undecided
  BY <1>2, UpdatesAreOfActive
<1>4. /\ txFile'[a] = call[a].rec /\ txFile'[a] # NoTx
      /\ \A d \in Tx \ {a} : txFile'[d] = txFile[d]
  BY <1>1, <1>2 DEF TypeInv, JournalInv, JournalTypeOK, UpdateReturns, RenameTmp
<1>5. \A d \in Tx : pc'[d] = "dead" <=> pc[d] = "dead"
  <2>1. InstallStep(a)
    BY DEF InstallStep
  <2> QED
    BY <2>1, OneInstallMoves DEF Ended
<1>6. Lifecycle!Alive(a)
  BY <1>3, AliveInstalls DEF Working
<1>7. Phase(StatusOf(a)) = "active"
  BY <1>3, PhasesOfStatuses DEF StatusOf
<1>8. StatusOf(a)' = call[a].rec.status
  BY <1>4 DEF StatusOf
<1>9. CASE pc[a] = "commit"
  <2>1. Phase(StatusOf(a))' = "committed"
    BY <1>2, <1>8, <1>9, PhasesOfStatuses DEF Updates
  <2>2. \A d \in Deps(a) : d \in Tx /\ Phase(StatusOf(d)) = "committed"
    BY <1>9, PlansAreOfInstalls, PhasesOfStatuses DEF PlanInv, AnswersAgree, Complete
  <2> QED
    BY <1>1, <1>4, <1>5, <1>6, <1>7, <2>1, <2>2, PhaseMapped DEF Lifecycle!Commit
<1>10. CASE pc[a] = "fail"
  <2>1. Phase(StatusOf(a))' = "failed"
    BY <1>2, <1>8, <1>10, PhasesOfStatuses DEF Updates
  <2> QED
    BY <1>1, <1>4, <1>5, <1>6, <1>7, <2>1, PhaseMapped DEF Lifecycle!Fail
<1>11. CASE pc[a] \in {"record", "prepare", "writing"}
  <2>1. call[a].rec.status \in Undecided
    BY <1>2, <1>3, <1>11 DEF Updates, Undecided
  <2>2. Phase(StatusOf(a))' = Phase(StatusOf(a))
    BY <1>7, <1>8, <2>1, PhasesOfStatuses
  <2>3. \A d \in Tx : Phase(StatusOf(d))' = Phase(StatusOf(d))
    BY <1>4, <2>2, StatusKept
  <2> QED
    BY <1>1, <1>5, <2>3, StutterMapped
<1> QED
  BY <1>2, <1>9, <1>10, <1>11, UpdatesTable DEF AtUpdate

LEMMA SettleMapped ==
    ASSUME TypeInv, TxInv, PlanInv, NEW a \in Tx, Start(a) \/ EndStep(a),
           pc'[a] = "settled"
    PROVE  Lifecycle!Answer(a)
<1>1. Start(a) \/ InstallStep(a)
  BY DEF InstallStep, EndStep
<1>2. /\ pc[a] \notin Ended /\ \A b \in Tx \ {a} : pc'[b] = pc[b] /\ result'[b] = result[b]
      /\ UNCHANGED journalVars
      /\ \/ result'[a] = "ok" /\ pc[a] = "return"
         \/ result'[a] = "failed" /\ pc[a] # "return"
  BY <1>1, OneInstallMoves
<1>3. PICK how \in {"ok", "failed"} : result' = [result EXCEPT ![a] = how]
  BY EndSteps DEF Start, Jump, Move, Goto, Settle, TypeInv, InstallTypeOK
<1>4. pc[a] \in {"return", "reject"} \cup BeforeCreate
  BY DEF Start, EndStep, CreateFails, Return, Reject, BeforeCreate
<1>5. how = "ok" <=> Phase(StatusOf(a)) = "committed"
  <2>1. how = "ok" <=> pc[a] = "return"
    BY <1>2, <1>3 DEF TypeInv, InstallTypeOK
  <2>2. CASE pc[a] = "return"
    <3>1. txFile[a] # NoTx /\ txFile[a].status = "committed"
      BY <2>2, WorkingSteps DEF TxInv, RecordsOfInstalls, Active, BeforeCreate, Ended
    <3> QED
      BY <2>1, <2>2, <3>1, PhasesOfStatuses DEF StatusOf
  <2>3. CASE pc[a] = "reject"
    <3>1. txFile[a] # NoTx /\ txFile[a].status \in Undecided \cup {"failed"}
      BY <2>3, WorkingSteps DEF TxInv, RecordsOfInstalls, Active, BeforeCreate, Ended
    <3> QED
      BY <2>1, <2>3, <3>1, PhasesOfStatuses DEF StatusOf
  <2>4. CASE pc[a] \in BeforeCreate
    <3>1. txFile[a] = NoTx
      BY <2>4 DEF TxInv, RecordsOfInstalls
    <3> QED
      BY <2>1, <2>4, <3>1, PhasesOfStatuses DEF StatusOf, BeforeCreate
  <2> QED
    BY <1>4, <2>2, <2>3, <2>4
<1>6. /\ [d \in Tx |-> Phase(StatusOf(d))]' = [d \in Tx |-> Phase(StatusOf(d))]
      /\ {d \in Tx : pc[d] = "dead"}' = {d \in Tx : pc[d] = "dead"}
  BY <1>2 DEF StatusOf, journalVars, Ended
<1>7. Lifecycle!Alive(a)
  BY <1>2, AliveInstalls
<1> QED
  BY <1>3, <1>5, <1>6, <1>7 DEF Lifecycle!Answer

LEMMA CrashMapped ==
    ASSUME TypeInv, TxInv, PlanInv, Crash
    PROVE  \E installs \in SUBSET Tx : Lifecycle!Die(installs)
<1> DEFINE running == {a \in Tx : Running(a)}
<1>1. UNCHANGED txFile /\ UNCHANGED result
      /\ pc' = [a \in Tx |-> IF Running(a) THEN "dead" ELSE pc[a]]
  BY DEF Crash, JournalCrash
<1>2. \A a \in running : Lifecycle!Alive(a)
  BY AliveInstalls DEF Running
<1>3. {d \in Tx : pc[d] = "dead"}' = {d \in Tx : pc[d] = "dead"} \cup running
  BY <1>1 DEF Running
<1>4. [d \in Tx |-> Phase(StatusOf(d))]' = [d \in Tx |-> Phase(StatusOf(d))]
  BY <1>1 DEF StatusOf
<1>5. running \in SUBSET Tx
  OBVIOUS
<1> QED
  BY <1>1, <1>2, <1>3, <1>4, <1>5 DEF Lifecycle!Die

LEMMA NextMapped ==
    ASSUME NoSignals, SeparatePlans, TypeInv, TxInv, PlanInv, [Next]_vars
    PROVE  [Lifecycle!Next]_(Lifecycle!vars)
<1>1. ASSUME NEW a \in Tx, Start(a) \/ InstallStep(a)
      PROVE  [Lifecycle!Next]_(Lifecycle!vars)
  <2>1. CASE Create(a)
    BY <2>1, CreateMapped DEF Lifecycle!Next
  <2>2. CASE UpdateReturns(a)
    BY <2>2, UpdateMapped DEF Lifecycle!Next
  <2>3. CASE (Start(a) \/ EndStep(a)) /\ pc'[a] = "settled"
    BY <2>3, SettleMapped DEF Lifecycle!Next
  <2>4. CASE ~Create(a) /\ ~UpdateReturns(a) /\ pc'[a] # "settled"
    <3>1. UNCHANGED txFile
      <4>1. CASE Start(a)
        BY <2>4, <4>1 DEF Start, Jump, journalVars
      <4>2. CASE JumpStep(a) \/ FileStep(a)
        BY <4>2, LocalSteps DEF journalVars
      <4>3. CASE EndStep(a)
        BY <4>3, EndSteps DEF journalVars
      <4>4. CASE OpenStore(a) \/ UpdateRead(a) \/ UpdateThrows(a)
        BY <4>4
        DEF OpenStore, SweepStart, UpdateRead, ReadForUpdate, UpdateThrows,
            RecordUnread, RenameFails, UpdateFails, journalVars
      <4>5. CASE UpdateWrite(a)
        <5>1. call[a] # NoCall
          BY <4>5 DEF UpdateWrite, OpenTmp, FillTmp
        <5>2. WritesOwn(a)
          BY <5>1 DEF TxInv, RecordsOfInstalls
        <5> QED
          BY <4>5, <5>2 DEF UpdateWrite, OpenTmp, FillTmp, WritesOwn
      <4> QED
        BY <1>1, <2>4, <4>1, <4>2, <4>3, <4>4, <4>5
        DEF InstallStep, JumpStep, EndStep, FileStep
    <3>2. /\ \A d \in Tx : pc'[d] = "dead" <=> pc[d] = "dead"
          /\ \A d \in Tx : result'[d] = result[d]
      BY <1>1, <2>4, OneInstallMoves DEF Ended
    <3>3. UNCHANGED result
      BY <3>2, NextTypeInv DEF TypeInv, InstallTypeOK
    <3>4. \A d \in Tx : Phase(StatusOf(d))' = Phase(StatusOf(d))
      BY <3>1, StatusKept
    <3> QED
      BY <3>2, <3>3, <3>4, StutterMapped
  <2> QED
    BY <1>1, <2>1, <2>2, <2>3, <2>4, OneInstallMoves
<1>2. CASE Crash
  BY <1>2, CrashMapped DEF Lifecycle!Next
<1>3. ASSUME NEW r \in Res, RemoveStart(r) \/ RemoveStep(r)
      PROVE  UNCHANGED Lifecycle!vars
  <2>1. UNCHANGED <<txFile, pc, result>>
    BY <1>3, RemoveIsApart DEF journalVars
  <2> QED
    BY <2>1, StatusKept, StutterMapped
<1>4. ASSUME NEW h \in Sweepers, Sweep(h)
      PROVE  UNCHANGED Lifecycle!vars
  <2>1. UNCHANGED <<pc, result>>
    BY <1>4 DEF Sweep, installVars
  <2>2. ASSUME NEW d \in Tx
        PROVE  Phase(StatusOf(d))' = Phase(StatusOf(d))
    <3>1. CASE txFile'[d] = txFile[d]
      BY <3>1, StatusKept
    <3>2. CASE txFile'[d] # txFile[d]
      <4>1. /\ txFile[d] # NoTx /\ txFile[d].status \notin TerminalStatuses
            /\ txFile'[d] # NoTx /\ txFile'[d].status = "recovery-required"
        BY <1>4, <3>2, SweepAgrees DEF IsTerminal
      <4>2. txFile[d].status # "none"
        BY <4>1
        DEF TypeInv, JournalInv, JournalTypeOK, TxContents, TxRecord, Statuses,
            Truncated, Garbled
      <4> QED
        BY <4>1, <4>2 DEF StatusOf, Phase, TerminalStatuses
    <3> QED
      BY <3>1, <3>2
  <2> QED
    BY <2>1, <2>2, StutterMapped
<1>5. CASE UNCHANGED vars
  <2>1. UNCHANGED <<txFile, pc, result>>
    BY <1>5 DEF vars
  <2> QED
    BY <2>1, StatusKept, StutterMapped
<1>6. ~Signal
  BY InstallerAssumption DEF NoSignals, Signal
<1> QED
  BY <1>1, <1>2, <1>3, <1>4, <1>5, <1>6 DEF Next

LEMMA InitMapped == Init => Lifecycle!Init
  BY PhasesOfStatuses DEF Init, JournalInit, StatusOf, Lifecycle!Init

\* Without a signal, the installs keep the promises of InstallLifecycle: they
\* commit after all they need, tell their callers what their transactions say,
\* leave no terminal status and stay active when the process dies (install,
\* its catch clause, recoverTransactions).
THEOREM LifecycleIsKept ==
    ASSUME NoSignals, SeparatePlans
    PROVE  Spec => KeepsLifecycle
<1>1. TypeInv /\ TxInv /\ PlanInv /\ [Next]_vars => TypeInv' /\ TxInv' /\ PlanInv'
  BY NextTypeInv, NextTxInv, NextPlanInv
<1>2. TypeInv /\ TxInv /\ PlanInv /\ [Next]_vars => [Lifecycle!Next]_(Lifecycle!vars)
  BY NextMapped
<1> QED
  BY <1>1, <1>2, InitTypeInv, InitTxInv, InitPlanInv, InitMapped, PTL
  DEF Spec, KeepsLifecycle, Lifecycle!Spec

-----------------------------------------------------------------------------
(* One call at a time.                                                     *)

\* Calls of the user do not overlap, no signal arrives, installs have no
\* dependencies and no file is binary.  Any step may fail.
OneAtATime ==
    /\ MaxConcurrent <= 1
    /\ NoSignals
    /\ \A a \in Tx : DepsOf[a] = <<>>
    /\ BinaryFiles = {}

\* One call at most is in progress.
Exclusive ==
    /\ \A a \in Tx : Running(a) => a \in Roots
    /\ \A r \in Res : Removing(r) => r \in Removable
    /\ \A a, b \in Tx : Running(a) /\ Running(b) => a = b
    /\ \A a \in Tx, r \in Res : ~(Running(a) /\ Removing(r))
    /\ \A q, r \in Res : Removing(q) /\ Removing(r) => q = r

\* An install has no snapshot before it takes one.
NoneTaken == \A a \in Tx :
    pc[a] \in BeforeCreate \cup {"snapshot"} => snapshot[a] = NoSnapshot

\* What a call leaves that failed to record its end, or died: an undecided
\* record of its transaction, or nothing that the next run could see.
Damaged ==
    \/ \E a \in Tx : Readable(a) /\ ~IsTerminal(a) /\ ~Active(a)
    \/ \E r \in Res : removing[r] = "dead"

\* Every resource tells one version, but for those at which an error was
\* passed over.
AllAgree == \A r \in Res \ forgiven : Agree(r)

Recorded(r) == IF database[r] = "removed" THEN "none" ELSE database[r]

\* The entries of the lockfile in a snapshot.
CopiedEntries(a) ==
    IF snapshot[a].lock = NoLockfile THEN NoEntries ELSE snapshot[a].lock

\* The snapshot has resource r as the database records it.
Copied(a, r) ==
    /\ CopiedEntries(a)[r] = Recorded(r)
    /\ Recorded(r) # "none" => \A f \in Files : snapshot[a].tree[r][f] = Recorded(r)

\* What an install does not install stays right, and is right in its snapshot.
OthersHold(a) ==
    \A r \in Res \ (forgiven \cup {ResourceOf[a]}) :
        /\ Agree(r)
        /\ snapshot[a] # NoSnapshot => Copied(a, r)

\* The lockfile or the database that it will write back is the one there is.
ReadsHold(a) ==
    /\ pc[a] = "write-lock" => stale[a] = LockEntries
    /\ pc[a] = "write-db" => stale[a] = database

\* The steps at which an install can still be undone from its snapshot, with
\* the lockfile and the database as they were.
Undoable == {"record", "prepare", "stub", "manifest", "fetch", "writing",
             "read-back", "pipeline", "write", "dependencies", "hook",
             "read-lock", "write-lock", "catch", "restore", "fail"}

\* Lockfile and database have the old version of the resource, and so has the
\* snapshot, of which some files or all are back in their place.
UndoHolds(a) ==
    /\ LockEntries[ResourceOf[a]] = Recorded(ResourceOf[a])
    /\ pc[a] = "fail" => snapshot[a] # NoSnapshot
    /\ snapshot[a] # NoSnapshot =>
          /\ Copied(a, ResourceOf[a])
          /\ \A f \in Files :
                /\ \/ pc[a] = "fail"
                   \/ pc[a] = "restore" /\ <<ResourceOf[a], f>> \notin todo[a]
                /\ snapshot[a].tree[ResourceOf[a]][f] # "absent"
                => disk[ResourceOf[a]][f] = snapshot[a].tree[ResourceOf[a]][f]

IsNew(a, f) == disk[ResourceOf[a]][f] = "new"

\* The steps at which all files of the resource are the new ones.
Landing == {"writing", "read-back", "pipeline", "write", "dependencies", "hook",
            "read-lock", "write-lock", "read-db", "write-db"}

\* What an install has brought.
LandingHolds(a) ==
    /\ pc[a] = "manifest" => fetched[a] = {Manifest} /\ IsNew(a, Manifest)
    /\ pc[a] = "fetch" => \A f \in Files :
          IF f \in fetched[a] THEN IsNew(a, f)
                              ELSE <<ResourceOf[a], f>> \in todo[a]
    /\ pc[a] \in Landing => \A f \in Files : IsNew(a, f)
    /\ pc[a] \in {"writing", "read-back"} => fetched[a] = Files
    /\ pc[a] \in {"pipeline", "write"} => \A f \in Files : content[a][f] = "new"
    /\ pc[a] \in {"read-db", "write-db"} => LockEntries[ResourceOf[a]] = "new"

\* The resource that is installed, when no error was passed over.
OwnHolds(a) ==
    /\ pc[a] \in {"snapshot", "commit", "return", "reject"} => Agree(ResourceOf[a])
    /\ pc[a] \in Undoable => UndoHolds(a)
    /\ LandingHolds(a)

InstallHolds(a) ==
    /\ OthersHold(a)
    /\ ReadsHold(a)
    /\ ResourceOf[a] \notin forgiven => OwnHolds(a)

\* A remove takes the files, then the entry in the lockfile, then that in the
\* database.
RemoveHolds(r) ==
    /\ \A q \in Res \ (forgiven \cup {r}) : Agree(q)
    /\ removing[r] = "write-lock" => rmStale[r] = LockEntries
    /\ removing[r] = "write-db" => rmStale[r] = database
    /\ r \notin forgiven =>
         /\ removing[r] \in {"files", "read-lock", "write-lock"}
               => LockEntries[r] = Recorded(r)
         /\ removing[r] # "files" => \A f \in Files : disk[r][f] = "absent"
         /\ removing[r] \in {"read-db", "write-db"} => LockEntries[r] = "none"

Orderly ==
    /\ \A a \in Tx : Active(a) => InstallHolds(a)
    /\ \A r \in Res : Removing(r) => RemoveHolds(r)
    /\ (\A a \in Tx : ~Active(a)) /\ (\A r \in Res : ~Removing(r)) => AllAgree

SeqInv == Exclusive /\ NoneTaken /\ (Damaged \/ Orderly)

SameStores == UNCHANGED <<disk, lockfile, database>>

LEMMA SameAgrees ==
    ASSUME SameStores, NEW r \in Res
    PROVE  Agree(r)' <=> Agree(r)
  BY DEF SameStores, Agree, LockEntries

LEMMA ActiveRuns == \A a \in Tx : Active(a) => Running(a)
  BY DEF Active, Running, BeforeCreate, Ended

LEMMA NobodyCalls ==
    ASSUME OneAtATime, Exclusive, UserMayCall
    PROVE  (\A a \in Tx : ~Running(a)) /\ (\A r \in Res : ~Removing(r))
<1> DEFINE A == {a \in Roots : Running(a)}
           R == {r \in Removable : Removing(r)}
<1>1. IsFiniteSet(A) /\ IsFiniteSet(R)
  <2>1. A \in SUBSET Tx /\ R \in SUBSET Res
    BY InstallerAssumption
  <2> QED
    BY <2>1, AbsentAssumption, FS_Subset
<1>2. Cardinality(A) \in Nat /\ Cardinality(R) \in Nat
  BY <1>1, FS_CardinalityType
<1>3. Cardinality(A) + Cardinality(R) < MaxConcurrent
  BY DEF UserMayCall
<1> HIDE DEF A, R
<1>4. Cardinality(A) = 0 /\ Cardinality(R) = 0
  BY <1>2, <1>3, InstallerAssumption DEF OneAtATime
<1>5. A = {} /\ R = {}
  BY <1>1, <1>4, FS_EmptySet
<1> QED
  BY <1>5 DEF Exclusive, A, R

\* install leaves removes alone, and forgets no error that was passed over.
LEMMA InstallsApart ==
    ASSUME NEW a \in Tx, Start(a) \/ InstallStep(a)
    PROVE  UNCHANGED <<removing, rmStale>> /\ forgiven \subseteq forgiven'
<1> DEFINE Apart == UNCHANGED <<removing, rmStale>> /\ forgiven \subseteq forgiven'
<1>1. JumpStep(a) => Apart
  BY JumpSteps DEF Jump, Move, otherVars
<1>2. EndStep(a) => Apart
  BY EndSteps DEF Settle, otherVars
<1>3. Start(a) \/ OpenStore(a) \/ Create(a) \/ UpdateRead(a) \/ UpdateWrite(a)
      \/ UpdateReturns(a) \/ UpdateThrows(a)
        => Apart
  BY DEF Start, Jump, Settle, OpenStore, Create, UpdateRead, UpdateWrite,
         UpdateReturns, UpdateThrows, Move, PassOver, Forgive, otherVars,
         installVars
<1>4. RestoreFile(a) => Apart
  BY DEF RestoreFile, Restored, NotRestored, Forgive, otherVars
<1>5. FileStep(a) /\ ~RestoreFile(a) => Apart
  BY DEF otherVars, Forgive, PassOver, FileStep, TakeSnapshot, WriteStub,
         FetchManifest, FetchManifestFails, FetchFile, ReadBack,
         ReachWriteStage, WriteFile, Throws, ReadLock, WriteLock, LockFails,
         ReadDatabase, WriteDatabase, DatabaseFails, Catch
<1> QED
  BY <1>1, <1>2, <1>3, <1>4, <1>5 DEF InstallStep, JumpStep, EndStep, FileStep

\* remove takes its own steps, and forgets no error either.
LEMMA RemovesApart ==
    ASSUME TypeInv, NEW r \in Res, RemoveStart(r) \/ RemoveStep(r)
    PROVE  /\ \A q \in Res \ {r} : removing'[q] = removing[q]
           /\ forgiven \subseteq forgiven' /\ UNCHANGED snapshot
           /\ RemoveStep(r) => Removing(r)
           /\ RemoveStart(r) => removing[r] = "idle"
  BY DEF RemoveStart, RemoveStep, RemoveFile, RemoveFilesEnd, RemoveReadLock,
         RemoveWriteLock, RemoveReadDatabase, RemoveWriteDatabase, RemoveFails,
         RemoveGoto, RemoveMove, Removing, TypeInv, InstallTypeOK

\* What died stays dead.
LEMMA DamageStays ==
    ASSUME OneAtATime, TypeInv, TxInv, [Next]_vars, Damaged
    PROVE  Damaged'
<1>1. ASSUME NEW d \in Tx, Readable(d), ~IsTerminal(d), ~Active(d)
      PROVE  (Readable(d) /\ ~IsTerminal(d) /\ ~Active(d))'
  <2>1. txFile[d] # NoTx
    BY <1>1, ContentsDistinct DEF Readable
  <2>2. \/ txFile'[d] = txFile[d]
        \/ txFile'[d] # NoTx /\ txFile'[d].status = "recovery-required"
    BY <1>1, <2>1, EndedRecordsStay DEF OneAtATime
  <2>3. txFile' \in [Tx -> TxContents \cup {NoTx}]
    BY NextTypeInv DEF TypeInv, JournalInv, JournalTypeOK
  <2>4. (Readable(d) /\ ~IsTerminal(d))'
    <3>1. CASE txFile'[d] = txFile[d]
      BY <1>1, <3>1 DEF Readable, IsTerminal
    <3>2. CASE txFile'[d] # NoTx /\ txFile'[d].status = "recovery-required"
      BY <2>3, <3>2
      DEF Readable, IsTerminal, TerminalStatuses, TxContents, Truncated, Garbled
    <3> QED
      BY <2>2, <3>1, <3>2
  <2>5. pc[d] \in Ended
    BY <1>1, <2>1 DEF TxInv, RecordsOfInstalls, Active
  <2>6. ASSUME NEW a \in Tx, Start(a) \/ InstallStep(a)
        PROVE  pc'[d] = pc[d]
    BY <2>5, <2>6, OneInstallMoves
  <2>7. Crash => pc'[d] = pc[d]
    BY <2>5 DEF Crash, Running
  <2>8. pc'[d] = pc[d]
    BY <2>6, <2>7, InstallsMove DEF OneAtATime
  <2> QED
    BY <1>1, <2>4, <2>8 DEF Active
<1>2. ASSUME NEW r \in Res, removing[r] = "dead"
      PROVE  removing'[r] = "dead"
  <2>1. ASSUME NEW a \in Tx, Start(a) \/ InstallStep(a)
        PROVE  UNCHANGED removing
    BY <2>1, InstallsApart
  <2>2. ASSUME NEW q \in Res, RemoveStart(q) \/ RemoveStep(q)
        PROVE  removing'[r] = removing[r]
    BY <1>2, <2>2, RemovesApart DEF Removing
  <2>3. Crash => removing'[r] = "dead"
    BY <1>2 DEF Crash, Removing
  <2>4. Signal \/ (\E h \in Sweepers : Sweep(h)) \/ UNCHANGED vars => UNCHANGED removing
    BY DEF Signal, Sweep, installVars, vars
  <2> QED
    BY <1>2, <2>1, <2>2, <2>3, <2>4 DEF Next
<1> QED
  BY <1>1, <1>2 DEF Damaged

\* A call begins when there is none.
LEMMA NextExclusive ==
    ASSUME OneAtATime, TypeInv, Exclusive, [Next]_vars
    PROVE  Exclusive'
<1>1. ASSUME NEW a \in Tx, Start(a) \/ InstallStep(a)
      PROVE  Exclusive'
  <2>1. /\ \A b \in Tx \ {a} : Running(b)' <=> Running(b)
        /\ \A r \in Res : Removing(r)' <=> Removing(r)
    BY <1>1, OneInstallMoves, InstallsApart DEF Running, Removing
  <2>2. CASE Running(a)
    BY <2>1, <2>2 DEF Exclusive
  <2>3. CASE ~Running(a)
    <3>1. Start(a)
      BY <1>1, <2>3, OneInstallMoves DEF Running
    <3>2. a \in Roots /\ UserMayCall
      BY <3>1 DEF Start, Called, IsNextDep, OneAtATime
    <3> QED
      BY <2>1, <3>2, NobodyCalls DEF Exclusive
  <2> QED
    BY <2>2, <2>3
<1>2. ASSUME NEW q \in Res, RemoveStart(q) \/ RemoveStep(q)
      PROVE  Exclusive'
  <2>1. /\ \A a \in Tx : Running(a)' <=> Running(a)
        /\ \A r \in Res \ {q} : Removing(r)' <=> Removing(r)
    BY <1>2, RemoveIsApart, RemovesApart DEF Running, Removing
  <2>2. CASE RemoveStart(q)
    <3>1. q \in Removable /\ UserMayCall
      BY <2>2 DEF RemoveStart
    <3> QED
      BY <2>1, <3>1, NobodyCalls DEF Exclusive
  <2>3. CASE RemoveStep(q)
    <3>1. Removing(q)
      BY <2>3, RemovesApart
    <3> QED
      BY <2>1, <3>1 DEF Exclusive
  <2> QED
    BY <1>2, <2>2, <2>3
<1>3. CASE Crash
  <2>1. (\A a \in Tx : (~Running(a))') /\ (\A r \in Res : (~Removing(r))')
    BY <1>3 DEF Crash, Running, Removing, Ended
  <2> QED
    BY <2>1 DEF Exclusive
<1>4. CASE Signal \/ (\E h \in Sweepers : Sweep(h)) \/ UNCHANGED vars
  BY <1>4 DEF Signal, Sweep, installVars, vars, Exclusive, Running, Removing
<1> QED
  BY <1>1, <1>2, <1>3, <1>4 DEF Next

\* An update of the journal changes none of the stores, and where an install
\* goes on.
LEMMA UpdatePlaces ==
    ASSUME TypeInv, NEW a \in Tx,
           UpdateRead(a) \/ UpdateWrite(a) \/ UpdateReturns(a) \/ UpdateThrows(a)
    PROVE  /\ SameStores /\ UNCHANGED <<snapshot, localVars>>
           /\ pc[a] \in {"record", "prepare", "writing", "commit", "fail"}
           /\ \/ pc'[a] = pc[a]
              \/ pc[a] = "record" /\ pc'[a] = "prepare"
              \/ pc[a] = "prepare" /\ pc'[a] \in {"stub", "catch"}
              \/ pc[a] = "writing" /\ pc'[a] \in {"read-back", "catch"}
              \/ pc[a] = "commit" /\ pc'[a] = "return"
              \/ pc[a] = "commit" /\ pc'[a] = "catch" /\ ResourceOf[a] \in forgiven'
              \/ pc[a] = "fail" /\ pc'[a] = "reject"
<1>t. pc \in [Tx -> Steps]
  BY DEF TypeInv, InstallTypeOK
<1>1. AtUpdate(a)
  BY DEF UpdateRead, UpdateWrite, OpenTmp, FillTmp, UpdateReturns, RenameTmp,
         UpdateThrows, RecordUnread, RenameFails, UpdateFails, TypeInv,
         CallsAtUpdates
<1>2. pc[a] \in {"record", "prepare", "writing", "commit", "fail"}
  BY <1>1, UpdatesTable DEF AtUpdate
<1>3. CASE UpdateRead(a) \/ UpdateWrite(a)
  BY <1>2, <1>3 DEF UpdateRead, UpdateWrite, installVars, localVars, SameStores
<1>4. CASE UpdateReturns(a)
  BY <1>t, <1>2, <1>4
  DEF UpdateReturns, Move, Goto, Updates, storeVars, SameStores
<1>5. CASE UpdateThrows(a) /\ pc[a] # "commit"
  BY <1>t, <1>2, <1>5
  DEF UpdateThrows, Move, Goto, Updates, storeVars, SameStores
<1>6. CASE UpdateThrows(a) /\ pc[a] = "commit"
  BY <1>t, <1>2, <1>6
  DEF UpdateThrows, PassOver, Forgive, Goto, storeVars, SameStores
<1> QED
  BY <1>3, <1>4, <1>5, <1>6

LEMMA NextNoneTaken ==
    ASSUME NoSignals, TypeInv, NoneTaken, [Next]_vars
    PROVE  NoneTaken'
<1>1. ASSUME NEW a \in Tx, Start(a) \/ InstallStep(a)
      PROVE  NoneTaken'
  <2>1. \A b \in Tx \ {a} : pc'[b] = pc[b] /\ snapshot'[b] = snapshot[b]
    <3>t. snapshot \in [Tx -> Snapshots \cup {NoSnapshot}]
      BY DEF TypeInv, InstallTypeOK
    <3>1. \A b \in Tx \ {a} : pc'[b] = pc[b]
      BY <1>1, OneInstallMoves
    <3>2. JumpStep(a) => UNCHANGED snapshot
      BY JumpSteps DEF Jump, Move
    <3>3. EndStep(a) => \A b \in Tx \ {a} : snapshot'[b] = snapshot[b]
      BY <3>t, EndSteps DEF Settle
    <3>4. FileStep(a) => \A b \in Tx \ {a} : snapshot'[b] = snapshot[b]
      BY <3>t
      DEF FileStep, TakeSnapshot, WriteStub, FetchManifest, FetchFile,
          ReadBack, ReachWriteStage, WriteFile, Throws, ReadLock, WriteLock,
          ReadDatabase, WriteDatabase, Catch, RestoreFile, PassOver,
          FetchManifestFails, LockFails, DatabaseFails
    <3>5. Start(a) \/ OpenStore(a) \/ Create(a) \/ UpdateRead(a)
          \/ UpdateWrite(a) \/ UpdateReturns(a) \/ UpdateThrows(a)
            => \A b \in Tx \ {a} : snapshot'[b] = snapshot[b]
      BY <3>t
      DEF Start, Jump, Settle, OpenStore, Create, UpdateRead, UpdateWrite,
          UpdateReturns, UpdateThrows, Move, PassOver, installVars
    <3> QED
      BY <1>1, <3>1, <3>2, <3>3, <3>4, <3>5
      DEF InstallStep, JumpStep, EndStep, FileStep
  <2>2. ASSUME pc'[a] \in BeforeCreate \cup {"snapshot"}
        PROVE  pc[a] \in BeforeCreate \cup {"snapshot"} /\ snapshot'[a] = snapshot[a]
    <3>t. pc \in [Tx -> Steps]
      BY DEF TypeInv, InstallTypeOK
    <3>1. CASE Start(a) \/ OpenStore(a) \/ Create(a)
      BY <2>2, <3>1, <3>t
      DEF Start, OpenStore, Create, Jump, Move, Settle, Goto, BeforeCreate
    <3>2. CASE JumpStep(a)
      BY <2>2, <3>2, <3>t
      DEF JumpStep, Jump, Move, Goto, BeforeCreate, StoreOpened, SnapshotFails,
          FetchEnds, PipelineEnds, DependenciesEnd, DependencyFails,
          InstallHook, RestoreEnds
    <3>3. ~EndStep(a)
      BY <2>2, <3>t, EndSteps DEF Settle, Goto, BeforeCreate
    <3>4. ~FileStep(a)
      BY <2>2, <3>t
      DEF BeforeCreate, Goto, FileStep, TakeSnapshot, WriteStub, FetchManifest,
          FetchFile, ReadBack, ReachWriteStage, WriteFile, Throws, ReadLock,
          WriteLock, ReadDatabase, WriteDatabase, Catch, RestoreFile, PassOver,
          FetchManifestFails, LockFails, DatabaseFails
    <3>5. ~(UpdateRead(a) \/ UpdateWrite(a) \/ UpdateReturns(a) \/ UpdateThrows(a))
      BY <2>2, <3>t, UpdatePlaces DEF BeforeCreate
    <3> QED
      BY <1>1, <3>1, <3>2, <3>3, <3>4, <3>5
      DEF InstallStep, JumpStep, EndStep, FileStep
  <2> QED
    BY <2>1, <2>2 DEF NoneTaken
<1>2. ASSUME NEW r \in Res, RemoveStart(r) \/ RemoveStep(r)
      PROVE  UNCHANGED <<pc, snapshot>>
  BY <1>2, RemoveIsApart, RemovesApart
<1>3. CASE Crash
  BY <1>3 DEF Crash, NoneTaken
<1>4. Signal \/ (\E h \in Sweepers : Sweep(h)) \/ UNCHANGED vars
        => UNCHANGED <<pc, snapshot>>
  BY DEF Signal, Sweep, installVars, vars
<1> QED
  BY <1>1, <1>2, <1>3, <1>4 DEF Next, NoneTaken

-----------------------------------------------------------------------------
(* The steps of an install that is the only call.                          *)

LEMMA PathsDiffer == \A r, f : <<r, f>> # LockPath
  BY DEF LockPath

\* The steps of an install that change a store or its snapshot; the others
\* only read, move on or settle.
ChangesStores(a) ==
    \/ TakeSnapshot(a) \/ WriteStub(a) \/ FetchFile(a) \/ WriteFile(a)
    \/ WriteLock(a) \/ WriteDatabase(a) \/ DatabaseFails(a) \/ RestoreFile(a)

LEMMA OtherStepsKeep ==
    ASSUME TypeInv, NEW a \in Tx, InstallStep(a), ~ChangesStores(a)
    PROVE  SameStores /\ snapshot'[a] \in {snapshot[a], NoSnapshot}
<1>t. snapshot \in [Tx -> Snapshots \cup {NoSnapshot}]
  BY DEF TypeInv, InstallTypeOK
<1>1. CASE JumpStep(a)
  BY <1>1, JumpSteps DEF Jump, Move, storeVars, SameStores
<1>2. CASE EndStep(a)
  BY <1>2, <1>t, EndSteps DEF Settle, SameStores
<1>3. CASE OpenStore(a) \/ Create(a)
  BY <1>3 DEF OpenStore, Create, Move, storeVars, SameStores
<1>4. CASE UpdateRead(a) \/ UpdateWrite(a) \/ UpdateReturns(a) \/ UpdateThrows(a)
  BY <1>4, UpdatePlaces
<1>5. CASE FileStep(a)
  BY <1>5
  DEF ChangesStores, FileStep, FetchManifest, FetchManifestFails, ReadBack,
      ReachWriteStage, Throws, ReadLock, LockFails, ReadDatabase, Catch,
      PassOver, storeVars, SameStores
<1> QED
  BY <1>1, <1>2, <1>3, <1>4, <1>5 DEF InstallStep, JumpStep, EndStep, FileStep

\* What restore does to one file: of a resource right in the snapshot, the
\* file becomes that of the snapshot, or the resource is forgiven.
LEMMA RestoreOne ==
    ASSUME TypeInv, NEW a \in Tx, RestoreFile(a), NEW r \in Res \ forgiven'
    PROVE  /\ snapshot[a] \in Snapshots /\ UNCHANGED <<database, snapshot>>
           /\ pc[a] = "restore" /\ pc'[a] = "restore"
           /\ lockfile' \in {lockfile, snapshot[a].lock}
           /\ \A f \in Files :
                \/ disk'[r][f] = snapshot[a].tree[r][f]
                \/ /\ disk'[r][f] = disk[r][f]
                   /\ <<r, f>> \in todo[a] => <<r, f>> \in todo'[a]
<1>t. /\ disk \in Trees /\ snapshot \in [Tx -> Snapshots \cup {NoSnapshot}]
      /\ todo \in [Tx -> SUBSET Paths] /\ pc[a] = "restore" /\ pc'[a] = "restore"
      /\ UNCHANGED <<database, snapshot>> /\ snapshot[a] # NoSnapshot
  BY DEF TypeInv, InstallTypeOK, OwnFiles, RestoreFile
<1>1. PICK path \in todo[a] :
         /\ Restored(a, path) \/ NotRestored(path)
         /\ todo' = [todo EXCEPT ![a] = todo[a] \ {path}]
  BY DEF RestoreFile
<1>2. todo'[a] = todo[a] \ {path} /\ path \in Paths
  BY <1>1, <1>t
<1>3. CASE path = LockPath
  <2>1. Restored(a, path)
    BY <1>1, <1>3 DEF NotRestored, Forgive
  <2>2. lockfile' = snapshot[a].lock /\ UNCHANGED disk
    BY <1>3, <2>1 DEF Restored
  <2> QED
    BY <1>t, <1>2, <1>3, <2>2, PathsDiffer
<1>4. CASE path # LockPath
  <2>1. PICK q \in Res, g \in Files : path = <<q, g>>
    BY <1>2, <1>4 DEF Paths
  <2>2. UNCHANGED lockfile
    BY <1>1, <1>4 DEF Restored, NotRestored
  <2>3. CASE q = r
    <3>1. Restored(a, path)
      BY <1>1, <1>4, <2>1, <2>3 DEF NotRestored, Forgive
    <3>2. disk' = [disk EXCEPT ![r][g] = snapshot[a].tree[r][g]]
      BY <1>4, <2>1, <2>3, <3>1 DEF Restored
    <3>3. disk'[r][g] = snapshot[a].tree[r][g]
          /\ \A f \in Files \ {g} : disk'[r][f] = disk[r][f]
      BY <1>t, <2>1, <3>2 DEF Trees
    <3> QED
      BY <1>t, <1>2, <2>1, <2>2, <2>3, <3>3
  <2>4. CASE q # r
    <3>1. \E c : disk' = [disk EXCEPT ![q][g] = c]
      BY <1>1, <1>4, <2>1 DEF Restored, NotRestored
    <3>2. disk'[r] = disk[r]
      BY <1>t, <2>1, <2>4, <3>1 DEF Trees
    <3> QED
      BY <1>t, <1>2, <2>1, <2>2, <2>4, <3>2
  <2> QED
    BY <2>3, <2>4
<1> QED
  BY <1>3, <1>4

\* The snapshot is taken of what there is.
LEMMA SnapshotCopies ==
    ASSUME OneAtATime, TypeInv, NEW a \in Tx, TakeSnapshot(a)
    PROVE  /\ SameStores /\ pc'[a] = "record"
           /\ \A r \in Res : Agree(r) => Copied(a, r)'
<1>t. /\ pc \in [Tx -> Steps] /\ disk \in Trees
      /\ lockfile \in Entries \cup {NoLockfile} /\ database \in Entries
      /\ snapshot \in [Tx -> Snapshots \cup {NoSnapshot}]
  BY DEF TypeInv, InstallTypeOK
<1>1. /\ snapshot'[a] = CopyOfDestination /\ UNCHANGED <<disk, lockfile, database>>
      /\ pc'[a] = "record"
  BY <1>t DEF TakeSnapshot, Goto, storeVars
<1>2. /\ CopyOfDestination.lock = lockfile
      /\ \A r \in Res, f \in Files : CopyOfDestination.tree[r][f] = disk[r][f]
  BY <1>t DEF CopyOfDestination, Decoded, OneAtATime, Trees
<1> QED
  BY <1>1, <1>2 DEF Agree, Copied, CopiedEntries, LockEntries, Recorded, SameStores

\* What other resources there are stays right.
LEMMA OthersKept ==
    ASSUME OneAtATime, TypeInv, NEW a \in Tx, InstallHolds(a), InstallStep(a)
    PROVE  OthersHold(a)'
<1> DEFINE R == ResourceOf[a]
<1>t. /\ disk \in Trees /\ R \in Res /\ Manifest \in Files
      /\ lockfile \in Entries \cup {NoLockfile} /\ database \in Entries
      /\ stale \in [Tx -> Entries]
      /\ snapshot \in [Tx -> Snapshots \cup {NoSnapshot}]
      /\ pc[a] \in {"fetch", "write"} => todo[a] \subseteq PathsOf(a, Files)
  BY InstallerAssumption DEF TypeInv, InstallTypeOK, OwnFiles
<1>f. forgiven \subseteq forgiven'
  BY InstallsApart
<1> SUFFICES ASSUME NEW r \in Res \ (forgiven' \cup {R})
             PROVE  Agree(r)' /\ (snapshot'[a] # NoSnapshot => Copied(a, r)')
  BY DEF OthersHold
<1>h. Agree(r) /\ (snapshot[a] # NoSnapshot => Copied(a, r))
  BY <1>f DEF InstallHolds, OthersHold
<1>1. CASE ~ChangesStores(a)
  <2>1. SameStores /\ snapshot'[a] \in {snapshot[a], NoSnapshot}
    BY <1>1, OtherStepsKeep
  <2> QED
    BY <1>h, <2>1, SameAgrees
    DEF SameStores, Copied, CopiedEntries, Recorded
<1>2. CASE TakeSnapshot(a)
  BY <1>2, <1>h, SnapshotCopies, SameAgrees
<1>3. CASE WriteStub(a) \/ FetchFile(a) \/ WriteFile(a)
  <2>1. UNCHANGED <<lockfile, database>> /\ snapshot'[a] = snapshot[a]
    BY <1>3 DEF WriteStub, FetchFile, WriteFile
  <2>2. disk'[r] = disk[r]
    <3>1. CASE WriteStub(a)
      BY <1>t, <3>1 DEF WriteStub, Trees
    <3>2. CASE FetchFile(a)
      <4>1. PICK path \in todo[a] :
               disk' = [disk EXCEPT ![path[1]][path[2]] = "new"] \/ UNCHANGED disk
        BY <3>2 DEF FetchFile
      <4>2. path[1] = R
        BY <1>t, <3>2, <4>1 DEF FetchFile, PathsOf
      <4> QED
        BY <1>t, <4>1, <4>2 DEF Trees
    <3>3. CASE WriteFile(a)
      <4>1. PICK path \in todo[a] :
               disk' = [disk EXCEPT ![path[1]][path[2]] = content[a][path[2]]]
        BY <3>3 DEF WriteFile
      <4>2. path[1] = R
        BY <1>t, <3>3, <4>1 DEF WriteFile, PathsOf
      <4> QED
        BY <1>t, <4>1, <4>2 DEF Trees
    <3> QED
      BY <1>3, <3>1, <3>2, <3>3
  <2> QED
    BY <1>h, <2>1, <2>2 DEF Agree, LockEntries, Copied, CopiedEntries, Recorded
<1>4. CASE WriteLock(a)
  <2>1. /\ pc[a] = "write-lock" /\ UNCHANGED <<disk, database, snapshot>>
        /\ lockfile' = [stale[a] EXCEPT ![R] = "new"]
    BY <1>4 DEF WriteLock
  <2>2. stale[a] = LockEntries
    BY <2>1 DEF InstallHolds, ReadsHold
  <2>3. lockfile' \in Entries /\ lockfile'[r] = LockEntries[r]
    BY <1>t, <2>1, <2>2 DEF Entries, Versions
  <2>4. LockEntries'[r] = LockEntries[r]
    BY <2>3, AbsentAssumption DEF LockEntries
  <2> QED
    BY <1>h, <2>1, <2>4 DEF Agree, Copied, CopiedEntries, Recorded
<1>5. CASE WriteDatabase(a)
  <2>1. /\ pc[a] = "write-db" /\ UNCHANGED <<disk, lockfile, snapshot>>
        /\ database' = [stale[a] EXCEPT ![R] = "new"]
    BY <1>5 DEF WriteDatabase
  <2>2. stale[a] = database
    BY <2>1 DEF InstallHolds, ReadsHold
  <2>3. database'[r] = database[r]
    BY <1>t, <2>1, <2>2 DEF Entries
  <2> QED
    BY <1>h, <2>1, <2>3 DEF Agree, LockEntries, Copied, CopiedEntries, Recorded
<1>6. CASE DatabaseFails(a)
  <2>1. database' = database
    BY <1>6 DEF DatabaseFails, Forgive, LeftWith
  <2> QED
    BY <1>6, <1>h, <2>1
    DEF DatabaseFails, Agree, LockEntries, Copied, CopiedEntries, Recorded
<1>7. CASE RestoreFile(a)
  <2>1. /\ snapshot[a] \in Snapshots /\ UNCHANGED <<database, snapshot>>
        /\ lockfile' \in {lockfile, snapshot[a].lock}
        /\ \A f \in Files : \/ disk'[r][f] = snapshot[a].tree[r][f]
                           \/ disk'[r][f] = disk[r][f]
    <3>1. r \in Res \ forgiven'
      OBVIOUS
    <3> QED
      BY <1>7, <3>1, RestoreOne
  <2>2. Copied(a, r)
    BY <1>h, <2>1, AbsentAssumption
  <2>3. LockEntries'[r] \in {LockEntries[r], CopiedEntries(a)[r]}
    BY <2>1 DEF LockEntries, CopiedEntries
  <2> QED
    BY <1>h, <2>1, <2>2, <2>3 DEF Agree, Copied, CopiedEntries, Recorded
<1> QED
  BY <1>1, <1>2, <1>3, <1>4, <1>5, <1>6, <1>7 DEF ChangesStores

\* Nobody rewrites the lockfile or the database while an install reads it.
LEMMA NothingInFlux ==
    ASSUME Exclusive, NEW a \in Tx, Running(a)
    PROVE  /\ pc[a] # "restore" => ~LockInFlux
           /\ pc[a] # "write-db" => ~DatabaseInFlux
<1>1. /\ \A b \in Tx : pc[b] \in {"restore", "write-db"} => Running(b)
      /\ \A r \in Res : removing[r] = "write-db" => Removing(r)
  BY DEF Running, Ended, Removing
<1> QED
  BY <1>1 DEF LockInFlux, DatabaseInFlux, Exclusive

LEMMA ReadsKept ==
    ASSUME TypeInv, Exclusive, NEW a \in Tx, Running(a), InstallStep(a)
    PROVE  ReadsHold(a)'
<1>t. pc \in [Tx -> Steps] /\ stale \in [Tx -> Entries]
  BY DEF TypeInv, InstallTypeOK
<1>1. CASE ReadLock(a)
  <2>1. ~LockInFlux
    BY <1>1, NothingInFlux DEF ReadLock
  <2>2. pc'[a] = "write-lock" /\ stale'[a] = LockEntries /\ UNCHANGED lockfile
    BY <1>t, <1>1, <2>1 DEF ReadLock, Goto, storeVars
  <2> QED
    BY <2>2 DEF ReadsHold, LockEntries
<1>2. CASE ReadDatabase(a)
  <2>1. ~DatabaseInFlux
    BY <1>2, NothingInFlux DEF ReadDatabase
  <2>2. pc'[a] = "write-db" /\ stale'[a] = database /\ UNCHANGED database
    BY <1>t, <1>2, <2>1 DEF ReadDatabase, Goto, storeVars
  <2> QED
    BY <2>2 DEF ReadsHold
<1>3. SUFFICES ASSUME ~ReadLock(a), ~ReadDatabase(a)
               PROVE  pc'[a] \notin {"write-lock", "write-db"}
  BY <1>1, <1>2 DEF ReadsHold
<1>4. CASE JumpStep(a)
  BY <1>t, <1>4
  DEF JumpStep, Jump, Move, Goto, StoreOpened, SnapshotFails, FetchEnds,
      PipelineEnds, DependenciesEnd, DependencyFails, InstallHook, RestoreEnds
<1>5. CASE EndStep(a) \/ OpenStore(a) \/ Create(a)
  BY <1>t, <1>5
  DEF EndStep, CreateFails, Return, Reject, Settle, Goto, OpenStore, Create, Move
<1>6. CASE UpdateRead(a) \/ UpdateWrite(a) \/ UpdateReturns(a) \/ UpdateThrows(a)
  BY <1>6, UpdatePlaces
<1>7. CASE FileStep(a)
  BY <1>t, <1>3, <1>7
  DEF Goto, FileStep, TakeSnapshot, WriteStub, FetchManifest, FetchFile,
      ReadBack, ReachWriteStage, WriteFile, Throws, WriteLock, WriteDatabase,
      Catch, RestoreFile, PassOver, FetchManifestFails, LockFails, DatabaseFails
<1> QED
  BY <1>4, <1>5, <1>6, <1>7 DEF InstallStep, JumpStep, EndStep, FileStep

\* The own resource, as long as no error is passed over: it can be undone.
LEMMA UndoKept ==
    ASSUME NEW a \in Tx, UndoHolds(a), UNCHANGED <<lockfile, database>>,
           snapshot'[a] = snapshot[a],
           pc'[a] = "fail" => snapshot[a] # NoSnapshot,
           \A f \in Files :
              /\ \/ pc'[a] = "fail"
                 \/ pc'[a] = "restore" /\ <<ResourceOf[a], f>> \notin todo'[a]
              /\ snapshot[a].tree[ResourceOf[a]][f] # "absent"
              => disk'[ResourceOf[a]][f] = snapshot[a].tree[ResourceOf[a]][f]
    PROVE  UndoHolds(a)'
  BY DEF UndoHolds, LockEntries, Recorded, Copied, CopiedEntries

LEMMA UndoSteps ==
    ASSUME OneAtATime, TypeInv, NoneTaken, NEW a \in Tx, OwnHolds(a),
           InstallStep(a), ResourceOf[a] \notin forgiven', Active(a),
           pc'[a] \in Undoable
    PROVE  UndoHolds(a)'
<1> DEFINE R == ResourceOf[a]
<1>t. /\ pc \in [Tx -> Steps] /\ R \in Res
      /\ todo \in [Tx -> SUBSET Paths]
      /\ snapshot \in [Tx -> Snapshots \cup {NoSnapshot}]
      /\ pc[a] = "restore" => snapshot[a] # NoSnapshot
  BY InstallerAssumption DEF TypeInv, InstallTypeOK, OwnFiles
<1>u. pc[a] \in Undoable => UndoHolds(a)
  BY DEF OwnHolds
<1>1. CASE TakeSnapshot(a)
  <2>1. Agree(R)
    BY <1>1 DEF TakeSnapshot, OwnHolds
  <2>2. SameStores /\ Copied(a, R)' /\ pc'[a] = "record"
    BY <1>t, <1>1, <2>1, SnapshotCopies
  <2> QED
    BY <2>1, <2>2 DEF UndoHolds, Agree, LockEntries, Recorded, SameStores
<1>2. CASE SnapshotFails(a)
  <2>1. Agree(R) /\ snapshot[a] = NoSnapshot
    BY <1>2 DEF SnapshotFails, OwnHolds, NoneTaken
  <2>2. UNCHANGED <<lockfile, database, snapshot>> /\ pc'[a] = "prepare"
    BY <1>t, <1>2 DEF SnapshotFails, Jump, Move, Goto, storeVars
  <2> QED
    BY <2>1, <2>2 DEF UndoHolds, Agree, LockEntries, Recorded
<1>3. CASE RestoreEnds(a)
  <2>1. /\ pc[a] = "restore" /\ todo[a] = {}
        /\ UNCHANGED <<lockfile, database, disk, snapshot>>
    BY <1>3 DEF RestoreEnds, Jump, Move, storeVars
  <2>2. UndoHolds(a)
    BY <1>u, <2>1 DEF Undoable
  <2> QED
    BY <1>t, <2>1, <2>2, UndoKept DEF UndoHolds
<1>4. CASE JumpStep(a) /\ ~SnapshotFails(a) /\ ~RestoreEnds(a)
  <2>1. UNCHANGED <<lockfile, database, snapshot>>
    BY <1>4, JumpSteps DEF Jump, Move, storeVars
  <2>2. pc'[a] \notin {"fail", "restore"} /\ pc[a] \in Undoable
    BY <1>4, <1>t
    DEF JumpStep, Jump, Move, Goto, StoreOpened, FetchEnds, PipelineEnds,
        DependenciesEnd, DependencyFails, InstallHook, Undoable, Active,
        BeforeCreate
  <2> QED
    BY <1>u, <2>1, <2>2, UndoKept
<1>5. CASE UpdateRead(a) \/ UpdateWrite(a) \/ UpdateReturns(a) \/ UpdateThrows(a)
  <2>1. /\ UNCHANGED <<lockfile, database, disk, snapshot, todo>>
        /\ \/ pc'[a] = pc[a]
           \/ pc'[a] \notin {"fail", "restore"}
        /\ pc[a] \in Undoable
    BY <1>5, UpdatePlaces DEF localVars, SameStores, Undoable
  <2>2. UndoHolds(a)
    BY <1>u, <2>1
  <2>3. CASE pc'[a] = pc[a]
    BY <2>1, <2>2, <2>3
    DEF UndoHolds, LockEntries, Recorded, Copied, CopiedEntries
  <2>4. CASE pc'[a] \notin {"fail", "restore"}
    BY <2>1, <2>2, <2>4, UndoKept
  <2> QED
    BY <2>1, <2>3, <2>4
<1>6. CASE RestoreFile(a)
  <2>1. R \in Res \ forgiven'
    BY <1>t
  <2>2. /\ UNCHANGED <<database, snapshot>>
        /\ pc[a] = "restore" /\ pc'[a] = "restore"
        /\ lockfile' \in {lockfile, snapshot[a].lock}
        /\ \A f \in Files :
             \/ disk'[R][f] = snapshot[a].tree[R][f]
             \/ /\ disk'[R][f] = disk[R][f]
                /\ <<R, f>> \in todo[a] => <<R, f>> \in todo'[a]
    BY <1>6, <2>1, RestoreOne
  <2>3. UndoHolds(a) /\ snapshot[a] # NoSnapshot
    BY <1>t, <1>u, <2>2 DEF Undoable
  <2>4. LockEntries'[R] \in {LockEntries[R], CopiedEntries(a)[R]}
    BY <2>2 DEF LockEntries, CopiedEntries
  <2>5. LockEntries'[R] = Recorded(R)
    BY <2>3, <2>4 DEF UndoHolds, Copied
  <2>6. Recorded(R)' = Recorded(R) /\ Copied(a, R)'
    BY <2>2, <2>3 DEF UndoHolds, Copied, CopiedEntries, Recorded
  <2>7. \A f \in Files :
           <<R, f>> \notin todo'[a] /\ snapshot[a].tree[R][f] # "absent"
             => disk'[R][f] = snapshot[a].tree[R][f]
    BY <2>2, <2>3 DEF UndoHolds
  <2> QED
    BY <2>2, <2>5, <2>6, <2>7 DEF UndoHolds
<1>7. CASE Catch(a)
  <2>1. pc[a] = "catch" /\ UNCHANGED <<lockfile, database, disk, snapshot>>
    BY <1>7 DEF Catch, storeVars
  <2>2. snapshot[a] # NoSnapshot
    BY <1>7 DEF Catch, Forgive
  <2>3. pc'[a] = "restore" /\ todo'[a] = SnapshotPaths(snapshot[a])
    BY <1>7, <1>t, <2>2 DEF Catch, Goto
  <2>4. \A f \in Files : snapshot[a].tree[R][f] # "absent" => <<R, f>> \in todo'[a]
    BY <1>t, <2>3 DEF SnapshotPaths
  <2>5. UndoHolds(a)
    BY <1>u, <2>1 DEF Undoable
  <2> QED
    BY <2>1, <2>3, <2>4, <2>5, UndoKept
<1>8. CASE WriteStub(a) \/ FetchManifest(a) \/ FetchFile(a) \/ ReadBack(a)
           \/ ReachWriteStage(a) \/ WriteFile(a) \/ Throws(a) \/ ReadLock(a)
  <2>1. /\ UNCHANGED <<lockfile, database, snapshot>>
        /\ pc'[a] \notin {"fail", "restore"} /\ pc[a] \in Undoable
    BY <1>8, <1>t
    DEF WriteStub, FetchManifest, FetchFile, ReadBack, ReachWriteStage,
        WriteFile, Throws, ReadLock, Goto, storeVars, Undoable
  <2> QED
    BY <1>u, <2>1, UndoKept
<1>9. ~(FetchManifestFails(a) \/ LockFails(a))
  BY DEF FetchManifestFails, LockFails, PassOver, Forgive
<1>10. ~(WriteLock(a) \/ ReadDatabase(a) \/ WriteDatabase(a) \/ DatabaseFails(a)
         \/ EndStep(a) \/ OpenStore(a) \/ Create(a))
  BY <1>t
  DEF WriteLock, ReadDatabase, WriteDatabase, DatabaseFails, EndStep, Settle,
      CreateFails, Return, Reject, OpenStore, Create, Move, Goto, Undoable
<1> QED
  BY <1>1, <1>2, <1>3, <1>4, <1>5, <1>6, <1>7, <1>8, <1>9, <1>10
  DEF InstallStep, JumpStep, EndStep

\* ... and its files are the new ones, or on their way.
LEMMA LandingSteps ==
    ASSUME OneAtATime, TypeInv, NEW a \in Tx, Active(a), OwnHolds(a),
           ReadsHold(a), InstallStep(a), ResourceOf[a] \notin forgiven'
    PROVE  LandingHolds(a)'
<1> DEFINE R == ResourceOf[a]
<1>t. /\ pc \in [Tx -> Steps] /\ disk \in Trees /\ R \in Res
      /\ lockfile \in Entries \cup {NoLockfile} /\ database \in Entries
      /\ todo \in [Tx -> SUBSET Paths] /\ fetched \in [Tx -> SUBSET Files]
      /\ content \in [Tx -> [Files -> Contents]] /\ stale \in [Tx -> Entries]
      /\ pc[a] \in {"fetch", "write"} => todo[a] \subseteq PathsOf(a, Files)
      /\ Manifest \in Files
      /\ \A f \in Files, c \in Contents : Decoded(f, c) = c
  BY InstallerAssumption DEF TypeInv, InstallTypeOK, OwnFiles, OneAtATime, Decoded
<1>h. LandingHolds(a)
  BY DEF OwnHolds
<1>1. CASE JumpStep(a)
  <2>1. UNCHANGED <<disk, lockfile, database, fetched, content, todo, stale>>
    BY <1>1, JumpSteps DEF Jump, Move, storeVars, localVars
  <2>2. CASE FetchEnds(a)
    <3>1. pc[a] = "fetch" /\ todo[a] = {} /\ pc'[a] = "writing"
      BY <1>t, <2>2 DEF FetchEnds, Jump, Move, Goto
    <3>2. \A f \in Files : f \in fetched[a] /\ IsNew(a, f)
      BY <1>h, <3>1 DEF LandingHolds
    <3>3. fetched[a] = Files
      BY <1>t, <3>2
    <3> QED
      BY <2>1, <3>1, <3>2, <3>3 DEF LandingHolds, IsNew, Landing
  <2>3. CASE ~FetchEnds(a)
    <3>1. /\ pc'[a] \in {"create", "prepare", "dependencies", "hook", "read-lock",
                         "catch", "fail"}
          /\ pc'[a] \in Landing => pc[a] \in Landing
      BY <1>t, <1>1, <2>3
      DEF JumpStep, StoreOpened, SnapshotFails, PipelineEnds, DependenciesEnd,
          InstallHook, DependencyFails, RestoreEnds, Jump, Move, Goto, Landing
    <3> QED
      BY <1>h, <2>1, <3>1 DEF LandingHolds, IsNew
  <2> QED
    BY <2>2, <2>3
<1>2. CASE UpdateRead(a) \/ UpdateWrite(a) \/ UpdateReturns(a) \/ UpdateThrows(a)
  <2>1. UNCHANGED <<lockfile, database, disk, fetched, content, todo, stale>>
    BY <1>2, UpdatePlaces DEF SameStores, localVars
  <2>2. \/ pc'[a] = pc[a]
        \/ pc[a] = "writing" /\ pc'[a] = "read-back"
        \/ pc'[a] \in {"prepare", "stub", "catch", "return", "reject"}
    BY <1>2, UpdatePlaces
  <2> QED
    BY <1>h, <2>1, <2>2 DEF LandingHolds, IsNew, Landing, LockEntries
<1>4. CASE EndStep(a) \/ OpenStore(a) \/ Create(a)
  <2>1. pc'[a] = "settled"
    BY <1>4, <1>t
    DEF Active, BeforeCreate, EndStep, CreateFails, Return, Reject, OpenStore,
        Create, Settle, Goto
  <2> QED
    BY <2>1 DEF LandingHolds, Landing
<1>5. CASE TakeSnapshot(a) \/ Throws(a) \/ Catch(a) \/ RestoreFile(a)
           \/ WriteDatabase(a) \/ DatabaseFails(a)
  <2>1. pc'[a] \in {"record", "catch", "fail", "restore", "commit"}
    BY <1>5, <1>t
    DEF TakeSnapshot, Throws, Catch, RestoreFile, WriteDatabase, DatabaseFails, Goto
  <2> QED
    BY <2>1 DEF LandingHolds, Landing
<1>6. CASE WriteStub(a)
  BY <1>6, <1>t DEF WriteStub, Goto, LandingHolds, IsNew, Landing, Trees
<1>7. CASE FetchManifest(a)
  <2>1. /\ pc[a] = "manifest" /\ pc'[a] = "fetch" /\ UNCHANGED <<disk, fetched>>
        /\ todo'[a] = PathsOf(a, Files \ {Manifest})
    BY <1>7, <1>t DEF FetchManifest, Goto, storeVars
  <2>2. \A f \in Files : IF f \in fetched[a] THEN IsNew(a, f)
                                             ELSE <<R, f>> \in todo'[a]
    BY <1>h, <2>1 DEF LandingHolds, PathsOf
  <2> QED
    BY <2>1, <2>2 DEF LandingHolds, IsNew, Landing
<1>8. CASE FetchFile(a)
  <2>1. pc[a] = "fetch" /\ pc'[a] = "fetch"
    BY <1>8 DEF FetchFile
  <2>2. PICK path \in todo[a] :
           /\ todo' = [todo EXCEPT ![a] = todo[a] \ {path}]
           /\ \/ /\ disk' = [disk EXCEPT ![path[1]][path[2]] = "new"]
                 /\ fetched' = [fetched EXCEPT ![a] = fetched[a] \cup {path[2]}]
              \/ path[1] \in forgiven'
    BY <1>8, <1>t DEF FetchFile, Forgive
  <2>3. PICK g \in Files : path = <<R, g>>
    BY <1>t, <2>1, <2>2 DEF PathsOf
  <2>4. /\ disk' = [disk EXCEPT ![R][g] = "new"]
        /\ todo'[a] = todo[a] \ {<<R, g>>} /\ fetched'[a] = fetched[a] \cup {g}
    BY <1>t, <2>2, <2>3
  <2>5. \A f \in Files : IF f \in fetched'[a] THEN disk'[R][f] = "new"
                                              ELSE <<R, f>> \in todo'[a]
    BY <1>t, <1>h, <2>1, <2>4 DEF LandingHolds, IsNew, Trees
  <2> QED
    BY <2>1, <2>5 DEF LandingHolds, IsNew, Landing
<1>9. CASE ReadBack(a)
  <2>1. /\ pc[a] = "read-back" /\ pc'[a] = "pipeline" /\ UNCHANGED disk
        /\ content'[a] = [f \in Files |-> IF f \in fetched[a]
                            THEN Decoded(f, disk[R][f]) ELSE "absent"]
    BY <1>9, <1>t DEF ReadBack, Goto, storeVars
  <2>2. \A f \in Files : content'[a][f] = "new" /\ IsNew(a, f)
    BY <1>t, <1>h, <2>1 DEF LandingHolds, IsNew, Landing, Contents
  <2> QED
    BY <2>1, <2>2 DEF LandingHolds, IsNew, Landing
<1>10. CASE ReachWriteStage(a)
  BY <1>10, <1>t, <1>h DEF ReachWriteStage, Goto, LandingHolds, IsNew, Landing, storeVars
<1>11. CASE WriteFile(a)
  <2>1. PICK path \in todo[a] :
           disk' = [disk EXCEPT ![path[1]][path[2]] = content[a][path[2]]]
    BY <1>11 DEF WriteFile
  <2>2. pc[a] = "write" /\ pc'[a] = "write" /\ UNCHANGED content
    BY <1>11 DEF WriteFile
  <2>3. path[1] = R /\ path[2] \in Files
    BY <1>t, <2>1, <2>2 DEF PathsOf
  <2>4. \A f \in Files : content[a][f] = "new" /\ disk[R][f] = "new"
    BY <1>h, <2>2 DEF LandingHolds, IsNew, Landing
  <2>5. \A f \in Files : disk'[R][f] = "new"
    BY <1>t, <2>1, <2>3, <2>4 DEF Trees
  <2> QED
    BY <2>2, <2>4, <2>5 DEF LandingHolds, IsNew, Landing
<1>12. CASE ReadLock(a) \/ ReadDatabase(a)
  <2>1. /\ UNCHANGED <<disk, lockfile>>
        /\ \/ pc[a] = "read-lock" /\ pc'[a] = "write-lock"
           \/ pc[a] = "read-db" /\ pc'[a] = "write-db"
    BY <1>12, <1>t DEF ReadLock, ReadDatabase, Goto, storeVars
  <2> QED
    BY <1>h, <2>1 DEF LandingHolds, IsNew, Landing, LockEntries
<1>13. CASE WriteLock(a)
  <2>1. /\ pc[a] = "write-lock" /\ pc'[a] = "read-db" /\ UNCHANGED disk
        /\ lockfile' = [stale[a] EXCEPT ![R] = "new"]
    BY <1>13, <1>t DEF WriteLock, Goto
  <2>2. lockfile' \in Entries /\ lockfile'[R] = "new"
    BY <1>t, <2>1 DEF Entries, Versions
  <2>3. LockEntries'[R] = "new"
    BY <2>2, AbsentAssumption DEF LockEntries
  <2> QED
    BY <1>h, <2>1, <2>3 DEF LandingHolds, IsNew, Landing
<1>14. ~(FetchManifestFails(a) \/ LockFails(a))
  BY DEF FetchManifestFails, LockFails, PassOver, Forgive
<1> QED
  BY <1>1, <1>2, <1>4, <1>5, <1>6, <1>7, <1>8, <1>9, <1>10, <1>11, <1>12,
     <1>13, <1>14 DEF InstallStep, JumpStep, EndStep

\* An install that has restored everything, or written everything, leaves its
\* resource in agreement.
LEMMA AgreeSteps ==
    ASSUME TypeInv, NEW a \in Tx, Active(a), OwnHolds(a), ReadsHold(a),
           InstallStep(a), ResourceOf[a] \notin forgiven',
           pc'[a] \in {"snapshot", "commit", "return", "reject", "settled"}
    PROVE  Agree(ResourceOf[a])'
<1> DEFINE R == ResourceOf[a]
<1>t. /\ pc \in [Tx -> Steps] /\ disk \in Trees /\ R \in Res
      /\ lockfile \in Entries \cup {NoLockfile} /\ database \in Entries
      /\ stale \in [Tx -> Entries]
  BY InstallerAssumption DEF TypeInv, InstallTypeOK
<1>1. CASE WriteDatabase(a)
  <2>1. /\ pc[a] = "write-db" /\ UNCHANGED <<disk, lockfile>>
        /\ database' = [stale[a] EXCEPT ![R] = "new"]
    BY <1>1 DEF WriteDatabase
  <2>2. LockEntries[R] = "new" /\ \A f \in Files : disk[R][f] = "new"
    BY <2>1 DEF OwnHolds, LandingHolds, Landing, IsNew
  <2>3. database'[R] = "new"
    BY <1>t, <2>1 DEF Entries
  <2> QED
    BY <2>1, <2>2, <2>3 DEF Agree, LockEntries
<1>2. CASE UpdateRead(a) \/ UpdateWrite(a) \/ UpdateReturns(a) \/ UpdateThrows(a)
  <2>1. /\ SameStores
        /\ pc[a] = "commit" \/ pc[a] = "fail"
    BY <1>2, UpdatePlaces
  <2>2. CASE pc[a] = "commit"
    BY <1>t, <2>1, <2>2, SameAgrees DEF OwnHolds
  <2>3. CASE pc[a] = "fail"
    <3>1. UndoHolds(a)
      BY <2>3 DEF OwnHolds, Undoable
    <3>2. ASSUME Recorded(R) # "none", NEW f \in Files
          PROVE  disk[R][f] = Recorded(R)
      <4>1. snapshot[a].tree[R][f] = Recorded(R)
        BY <2>3, <3>1, <3>2 DEF UndoHolds, Copied
      <4>2. Recorded(R) # "absent"
        BY <1>t DEF Recorded, Entries, Versions
      <4> QED
        BY <2>3, <3>1, <4>1, <4>2 DEF UndoHolds
    <3>3. Agree(R)
      BY <3>1, <3>2 DEF UndoHolds, Agree, Recorded
    <3> QED
      BY <1>t, <2>1, <3>3, SameAgrees
  <2> QED
    BY <2>1, <2>2, <2>3
<1>3. CASE EndStep(a)
  <2>1. SameStores
    BY <1>3, EndSteps DEF Settle, SameStores
  <2>2. pc[a] \in {"return", "reject"}
    BY <1>3 DEF EndStep, CreateFails, Return, Reject, Active, BeforeCreate
  <2> QED
    BY <1>t, <2>1, <2>2, SameAgrees DEF OwnHolds
<1>4. ~(OpenStore(a) \/ Create(a) \/ StoreOpened(a))
  BY DEF OpenStore, Create, StoreOpened, Active, BeforeCreate
<1>5. CASE JumpStep(a) \/ FileStep(a)
  <2>1. ~JumpStep(a)
    BY <1>4, <1>t
    DEF Jump, Move, Goto, JumpStep, SnapshotFails, FetchEnds, PipelineEnds,
        DependenciesEnd, DependencyFails, InstallHook, RestoreEnds
  <2>2. DatabaseFails(a) => R \in forgiven'
    BY <1>t DEF DatabaseFails, Forgive, LeftWith
  <2>3. WriteDatabase(a)
    BY <1>5, <1>t, <2>1, <2>2
    DEF Goto, FileStep, TakeSnapshot, WriteStub, FetchManifest, FetchFile,
        ReadBack, ReachWriteStage, WriteFile, Throws, ReadLock, WriteLock,
        ReadDatabase, Catch, RestoreFile, PassOver, FetchManifestFails,
        LockFails
  <2> QED
    BY <1>1, <2>3
<1> QED
  BY <1>2, <1>3, <1>4, <1>5 DEF InstallStep, JumpStep, EndStep, FileStep

\* An install ends at once, or goes on; one that has a transaction goes on
\* until its promise settles.
LEMMA ActiveGoesOn ==
    ASSUME TypeInv, NEW a \in Tx, Active(a), InstallStep(a), ~Active(a)'
    PROVE  pc'[a] = "settled"
<1>t. pc \in [Tx -> Steps]
  BY DEF TypeInv, InstallTypeOK
<1>1. JumpStep(a) \/ FileStep(a) => Active(a)'
  BY WorkingSteps, LocalSteps DEF Active, BeforeCreate
<1>2. EndStep(a) => pc'[a] = "settled"
  BY <1>t DEF EndStep, CreateFails, Return, Reject, Settle, Goto
<1>3. UpdateRead(a) \/ UpdateWrite(a) \/ UpdateReturns(a) \/ UpdateThrows(a) => Active(a)'
  BY UpdatePlaces DEF Active, BeforeCreate, Ended
<1>4. ~OpenStore(a) /\ ~Create(a)
  BY DEF OpenStore, Create, Active, BeforeCreate
<1> QED
  BY <1>1, <1>2, <1>3, <1>4 DEF InstallStep, JumpStep, EndStep, FileStep

LEMMA InstallKeepsOrder ==
    ASSUME OneAtATime, TypeInv, Exclusive, NoneTaken, Orderly, NEW a \in Tx,
           Start(a) \/ InstallStep(a)
    PROVE  Orderly'
<1> DEFINE R == ResourceOf[a]
<1>t. pc \in [Tx -> Steps] /\ R \in Res
  BY InstallerAssumption DEF TypeInv, InstallTypeOK
<1>f. forgiven \subseteq forgiven'
  BY InstallsApart
<1>1. /\ \A b \in Tx \ {a} : ~Running(b) /\ (~Running(b))'
      /\ \A r \in Res : ~Removing(r) /\ (~Removing(r))'
  <2>1. /\ \A b \in Tx \ {a} : Running(b)' <=> Running(b)
        /\ \A r \in Res : Removing(r)' <=> Removing(r)
    BY OneInstallMoves, InstallsApart DEF Running, Removing
  <2>2. CASE Running(a)
    BY <2>1, <2>2 DEF Exclusive
  <2>3. CASE ~Running(a)
    <3>1. Start(a)
      BY <2>3, OneInstallMoves DEF Running
    <3>2. UserMayCall
      BY <3>1 DEF Start, Called, IsNextDep, OneAtATime
    <3> QED
      BY <2>1, <3>2, NobodyCalls
  <2> QED
    BY <2>2, <2>3
<1>2. SUFFICES /\ Active(a)' => InstallHolds(a)'
               /\ ~Active(a)' => AllAgree'
  BY <1>1, ActiveRuns DEF Orderly, Active, Running, BeforeCreate, Ended
<1>3. CASE Active(a)
  <2>1. InstallHolds(a) /\ InstallStep(a) /\ Running(a)
    BY <1>3, OneInstallMoves, ActiveRuns DEF Orderly, Start, Active, BeforeCreate
  <2>2. OthersHold(a)' /\ ReadsHold(a)'
    BY <2>1, OthersKept, ReadsKept
  <2>3. ASSUME R \notin forgiven'
        PROVE  /\ OwnHolds(a)'
               /\ pc'[a] = "settled" => Agree(R)'
    <3>1. OwnHolds(a) /\ ReadsHold(a)
      BY <1>f, <2>1, <2>3 DEF InstallHolds
    <3>2. LandingHolds(a)'
      BY <1>3, <2>1, <2>3, <3>1, LandingSteps
    <3>3. pc'[a] \in Undoable => UndoHolds(a)'
      BY <1>3, <2>1, <2>3, <3>1, UndoSteps
    <3>4. pc'[a] \in {"snapshot", "commit", "return", "reject", "settled"} => Agree(R)'
      BY <1>3, <2>1, <2>3, <3>1, AgreeSteps
    <3> QED
      BY <3>2, <3>3, <3>4 DEF OwnHolds
  <2>4. InstallHolds(a)'
    BY <2>2, <2>3 DEF InstallHolds
  <2>5. ASSUME ~Active(a)'
        PROVE  AllAgree'
    <3>1. pc'[a] = "settled"
      BY <1>3, <2>1, <2>5, ActiveGoesOn
    <3>2. \A r \in Res \ (forgiven' \cup {R}) : Agree(r)'
      BY <2>2 DEF OthersHold
    <3>3. R \notin forgiven' => Agree(R)'
      BY <2>3, <3>1
    <3> QED
      BY <3>2, <3>3 DEF AllAgree
  <2> QED
    BY <2>4, <2>5
<1>4. CASE ~Active(a)
  <2>1. AllAgree
    BY <1>1, <1>4, ActiveRuns DEF Orderly
  <2>2. pc[a] \in BeforeCreate
    BY <1>4, OneInstallMoves DEF Active
  <2>3. ~(JumpStep(a) /\ ~StoreOpened(a)) /\ ~FileStep(a)
    BY <1>4, <2>2, WorkingSteps
    DEF BeforeCreate, JumpStep, SnapshotFails, FetchEnds, PipelineEnds,
        DependenciesEnd, DependencyFails, InstallHook, RestoreEnds, FileStep,
        TakeSnapshot, WriteStub, FetchManifest, FetchManifestFails, FetchFile,
        ReadBack, ReachWriteStage, WriteFile, Throws, ReadLock, WriteLock,
        LockFails, ReadDatabase, WriteDatabase, DatabaseFails, Catch,
        RestoreFile
  <2>4. Start(a) \/ OpenStore(a) \/ StoreOpened(a) \/ Create(a) \/ EndStep(a)
    BY <2>2, <2>3, UpdatePlaces
    DEF BeforeCreate, InstallStep, JumpStep, EndStep, FileStep
  <2>5. SameStores
    BY <2>4, EndSteps
    DEF Start, OpenStore, StoreOpened, Create, Jump, Move, Settle, storeVars, SameStores
  <2>6. AllAgree'
    BY <1>f, <2>1, <2>5, SameAgrees DEF AllAgree
  <2>7. /\ pc'[a] \in {"create", "initialize", "snapshot", "settled"}
        /\ pc'[a] = "snapshot" => snapshot'[a] = snapshot[a]
    BY <1>t, <2>4
    DEF Start, OpenStore, StoreOpened, Create, EndStep, CreateFails, Return,
        Reject, Jump, Move, Settle, Goto
  <2>8. ASSUME pc'[a] = "snapshot"
        PROVE  InstallHolds(a)'
    <3>1. snapshot'[a] = NoSnapshot
      BY <2>2, <2>7, <2>8 DEF NoneTaken
    <3> QED
      BY <1>t, <2>6, <2>8, <3>1
      DEF AllAgree, InstallHolds, OthersHold, ReadsHold, OwnHolds, LandingHolds,
          Undoable, Landing
  <2> QED
    BY <2>6, <2>7, <2>8 DEF Active, BeforeCreate, Ended
<1> QED
  BY <1>2, <1>3, <1>4

-----------------------------------------------------------------------------
(* The steps of a remove that is the only call, and of the rest.           *)

LEMMA RemoveKeepsOrder ==
    ASSUME OneAtATime, TypeInv, Exclusive, Orderly, NEW r \in Res,
           RemoveStart(r) \/ RemoveStep(r)
    PROVE  Orderly'
<1>t. /\ disk \in Trees /\ lockfile \in Entries \cup {NoLockfile}
      /\ database \in Entries /\ rmStale \in [Res -> Entries]
      /\ removing \in [Res -> RemoveSteps]
  BY DEF TypeInv, InstallTypeOK
<1>f. forgiven \subseteq forgiven'
  BY RemovesApart
<1>1. /\ \A a \in Tx : ~Running(a) /\ (~Running(a))'
      /\ \A q \in Res \ {r} : ~Removing(q) /\ (~Removing(q))'
  <2>1. /\ \A a \in Tx : Running(a)' <=> Running(a)
        /\ \A q \in Res \ {r} : Removing(q)' <=> Removing(q)
    BY RemoveIsApart, RemovesApart DEF Running, Removing
  <2>2. CASE RemoveStart(r)
    BY <2>1, <2>2, NobodyCalls DEF RemoveStart
  <2>3. CASE RemoveStep(r)
    <3>1. Removing(r)
      BY <2>3, RemovesApart
    <3> QED
      BY <2>1, <3>1 DEF Exclusive
  <2> QED
    BY <2>2, <2>3
<1>2. SUFFICES /\ Removing(r)' => RemoveHolds(r)'
               /\ ~Removing(r)' => AllAgree'
  BY <1>1, ActiveRuns DEF Orderly, Active, Running, BeforeCreate, Ended
<1>3. ~LockInFlux /\ (DatabaseInFlux => removing[r] = "write-db")
  BY <1>1 DEF LockInFlux, DatabaseInFlux, Running, Ended, Removing
<1>4. CASE RemoveStart(r)
  <2>1. /\ SameStores /\ removing'[r] = "files" /\ ~Removing(r) /\ UNCHANGED forgiven
    BY <1>t, <1>4
    DEF RemoveStart, RemoveGoto, RemoveMove, storeVars, SameStores, Removing
  <2>2. AllAgree
    BY <1>1, <2>1, ActiveRuns DEF Orderly
  <2>3. \A q \in Res \ forgiven' : Agree(q)'
    BY <2>1, <2>2, SameAgrees DEF AllAgree
  <2> QED
    BY <2>1, <2>3 DEF RemoveHolds, Removing, Agree, Recorded
<1>5. CASE RemoveStep(r)
  <2>h. RemoveHolds(r) /\ Removing(r)
    BY <1>5, RemovesApart DEF Orderly
  <2>1. CASE RemoveFile(r)
    <3>1. /\ removing[r] = "files" /\ removing'[r] = "files"
          /\ UNCHANGED <<lockfile, database, forgiven>>
          /\ \A q \in Res \ {r} : disk'[q] = disk[q]
      BY <1>t, <2>1 DEF RemoveFile, RemoveGoto, RemoveMove, Trees
    <3>2. \A q \in Res \ (forgiven' \cup {r}) : Agree(q)'
      BY <2>h, <3>1 DEF RemoveHolds, Agree, LockEntries
    <3> QED
      BY <2>h, <3>1, <3>2 DEF RemoveHolds, Removing, LockEntries, Recorded
  <2>2. CASE RemoveFilesEnd(r)
    <3>1. /\ removing[r] = "files" /\ removing'[r] = "read-lock" /\ SameStores
          /\ UNCHANGED forgiven
          /\ \A f \in Files : disk[r][f] = "absent"
      BY <1>t, <1>1, <2>2
      DEF RemoveFilesEnd, RemoveGoto, RemoveMove, storeVars, SameStores
    <3>2. \A q \in Res \ (forgiven' \cup {r}) : Agree(q)'
      BY <2>h, <3>1, SameAgrees DEF RemoveHolds
    <3> QED
      BY <2>h, <3>1, <3>2 DEF RemoveHolds, Removing, LockEntries, Recorded, SameStores
  <2>3. CASE RemoveReadLock(r)
    <3>1. /\ removing[r] = "read-lock" /\ SameStores /\ UNCHANGED forgiven
          /\ \/ lockfile = NoLockfile /\ removing'[r] = "read-db"
             \/ /\ lockfile # NoLockfile /\ removing'[r] = "write-lock"
                /\ rmStale'[r] = lockfile
      BY <1>t, <1>3, <2>3
      DEF RemoveReadLock, RemoveGoto, RemoveMove, storeVars, SameStores
    <3>2. \A q \in Res \ (forgiven' \cup {r}) : Agree(q)'
      BY <2>h, <3>1, SameAgrees DEF RemoveHolds
    <3>3. lockfile = NoLockfile => LockEntries[r] = "none"
      BY DEF LockEntries, NoEntries
    <3> QED
      BY <2>h, <3>1, <3>2, <3>3 DEF RemoveHolds, Removing, LockEntries, Recorded, SameStores
  <2>4. CASE RemoveWriteLock(r)
    <3>1. /\ removing[r] = "write-lock" /\ removing'[r] = "read-db"
          /\ UNCHANGED <<disk, database, forgiven>>
          /\ lockfile' = [rmStale[r] EXCEPT ![r] = "none"]
      BY <1>t, <2>4 DEF RemoveWriteLock, RemoveGoto, RemoveMove
    <3>2. rmStale[r] = LockEntries /\ rmStale[r] \in Entries
      BY <1>t, <2>h, <3>1 DEF RemoveHolds
    <3>3. /\ lockfile' \in Entries /\ lockfile'[r] = "none"
          /\ \A q \in Res \ {r} : lockfile'[q] = LockEntries[q]
      BY <3>1, <3>2 DEF Entries, Versions
    <3>4. lockfile' # NoLockfile
      BY <3>3, AbsentAssumption
    <3>5. \A q \in Res \ (forgiven' \cup {r}) : Agree(q)'
      BY <2>h, <3>1, <3>3, <3>4 DEF RemoveHolds, Agree, LockEntries
    <3> QED
      BY <2>h, <3>1, <3>3, <3>4, <3>5 DEF RemoveHolds, Removing, LockEntries
  <2>5. CASE RemoveReadDatabase(r)
    <3>1. /\ removing[r] = "read-db" /\ SameStores /\ UNCHANGED forgiven
          /\ \/ database[r] = "none" /\ removing'[r] = "done"
             \/ removing'[r] = "write-db" /\ rmStale'[r] = database
      BY <1>t, <1>3, <2>5
      DEF RemoveReadDatabase, RemoveGoto, RemoveMove, storeVars, SameStores
    <3>2. \A q \in Res \ (forgiven' \cup {r}) : Agree(q)'
      BY <2>h, <3>1, SameAgrees DEF RemoveHolds
    <3>3. CASE removing'[r] = "done"
      <4>1. r \notin forgiven => Agree(r)
        BY <2>h, <3>1, <3>3 DEF RemoveHolds, Agree
      <4> QED
        BY <3>1, <3>2, <3>3, <4>1, SameAgrees DEF AllAgree, Removing
    <3>4. CASE removing'[r] = "write-db"
      BY <2>h, <3>1, <3>2, <3>4 DEF RemoveHolds, Removing, LockEntries, SameStores
    <3> QED
      BY <3>1, <3>3, <3>4
  <2>6. CASE RemoveWriteDatabase(r)
    <3>1. /\ removing[r] = "write-db" /\ removing'[r] = "done"
          /\ UNCHANGED <<disk, lockfile, forgiven>>
          /\ database' = [rmStale[r] EXCEPT ![r] = "removed"]
      BY <1>t, <2>6 DEF RemoveWriteDatabase, RemoveGoto, RemoveMove
    <3>2. rmStale[r] = database /\ (r \notin forgiven => LockEntries[r] = "none")
      BY <2>h, <3>1 DEF RemoveHolds
    <3>3. database'[r] = "removed" /\ \A q \in Res \ {r} : database'[q] = database[q]
      BY <1>t, <3>1, <3>2 DEF Entries
    <3>4. r \notin forgiven => Agree(r)'
      BY <3>1, <3>2, <3>3 DEF Agree, LockEntries
    <3>5. \A q \in Res \ (forgiven' \cup {r}) : Agree(q)'
      BY <2>h, <3>1, <3>3 DEF RemoveHolds, Agree, LockEntries
    <3> QED
      BY <3>1, <3>4, <3>5 DEF AllAgree, Removing
  <2>7. CASE RemoveFails(r)
    <3>1. /\ UNCHANGED <<disk, lockfile>>
          /\ forgiven' = forgiven \cup LeftWith(r)
          /\ \/ removing'[r] = "read-db" /\ UNCHANGED database
             \/ removing'[r] = "done"
      BY <1>t, <2>7 DEF RemoveFails, RemoveMove
    <3>2. r \in forgiven'
      BY <3>1 DEF LeftWith
    <3>3. ASSUME NEW q \in Res \ forgiven'
          PROVE  Agree(q)'
      <4>1. UNCHANGED database
        BY <3>1, <3>3 DEF LeftWith
      <4>2. Agree(q)
        BY <2>h, <1>f, <3>2, <3>3 DEF RemoveHolds
      <4> QED
        BY <3>1, <4>1, <4>2 DEF Agree, LockEntries
    <3> QED
      BY <3>1, <3>2, <3>3 DEF RemoveHolds, AllAgree, Removing
  <2> QED
    BY <1>5, <2>1, <2>2, <2>3, <2>4, <2>5, <2>6, <2>7 DEF RemoveStep
<1> QED
  BY <1>4, <1>5

\* The record of an install that goes on can be read.
LEMMA ActiveRecordReadable ==
    ASSUME TypeInv, TxInv, NEW a \in Tx, Active(a)
    PROVE  Readable(a)
<1>1. txFile[a] # NoTx /\ txFile[a].status \in Undecided \cup {"committed", "failed"}
  BY DEF TxInv, RecordsOfInstalls, StatusesAt
<1> QED
  BY <1>1
  DEF Readable, TypeInv, JournalInv, JournalTypeOK, TxContents, Truncated,
      Garbled, Undecided

\* A crash leaves damage, unless nothing was being changed.
LEMMA CrashKeepsOrder ==
    ASSUME OneAtATime, TypeInv, TxInv, Exclusive, Orderly, Crash
    PROVE  Damaged' \/ Orderly'
<1>1. /\ UNCHANGED <<txFile, forgiven>>
      /\ pc' = [a \in Tx |-> IF Running(a) THEN "dead" ELSE pc[a]]
      /\ removing' = [r \in Res |-> IF Removing(r) THEN "dead" ELSE removing[r]]
  BY DEF Crash, JournalCrash
<1>2. /\ \A a \in Tx : (~Active(a))'
      /\ \A r \in Res : (~Removing(r))'
  BY <1>1 DEF Active, Running, Removing, BeforeCreate, Ended
<1>3. CASE \E r \in Res : Removing(r)
  BY <1>1, <1>3 DEF Damaged
<1>4. CASE \E a \in Tx : Active(a) /\ ~IsTerminal(a)
  <2>1. PICK a \in Tx : Active(a) /\ ~IsTerminal(a)
    BY <1>4
  <2>2. Readable(a)
    BY <2>1, ActiveRecordReadable
  <2> QED
    BY <1>1, <1>2, <2>1, <2>2 DEF Damaged, IsTerminal, Readable
<1>5. CASE /\ \A r \in Res : ~Removing(r)
           /\ \A a \in Tx : Active(a) => IsTerminal(a)
  <2>1. \A a \in Tx : Active(a) => pc[a] \in {"return", "reject"}
    <3> SUFFICES ASSUME NEW a \in Tx, Active(a), pc[a] \notin {"return", "reject"}
                 PROVE  FALSE
      OBVIOUS
    <3>1. pc[a] \in Working
      BY DEF Active, Working, TypeInv, InstallTypeOK
    <3>2. txFile[a].status \in Undecided
      BY <3>1, WorkingSteps DEF TxInv, RecordsOfInstalls
    <3> QED
      BY <1>5, <3>2, WorkingSteps DEF IsTerminal
  <2>2. AllAgree
    BY <1>5, <2>1 DEF Orderly, InstallHolds, OthersHold, OwnHolds, AllAgree
  <2>3. \A a \in Tx : InPlace(a) = {}
    <3> SUFFICES ASSUME NEW a \in Tx
                 PROVE  pc[a] \notin {"stub", "write", "restore"}
      BY DEF InPlace
    <3>1. pc[a] \in {"stub", "write", "restore"} => Active(a)
      BY DEF Active, BeforeCreate, Ended
    <3> QED
      BY <2>1, <3>1
  <2>4. UNION {InPlace(a) : a \in Tx} = {}
    BY <2>3
  <2>5. PICK torn \in SUBSET UNION {InPlace(a) : a \in Tx} :
           /\ disk' = [r \in Res |-> [f \in Files |->
                          IF <<r, f>> \in torn THEN "torn" ELSE disk[r][f]]]
           /\ lockfile' = IF LockPath \in torn THEN NoLockfile ELSE lockfile
    BY DEF Crash
  <2>6. torn = {}
    BY <2>4, <2>5
  <2>7. disk' = disk /\ lockfile' = lockfile
    <3>1. lockfile' = lockfile
      BY <2>5, <2>6
    <3>2. disk' = [r \in Res |-> [f \in Files |-> disk[r][f]]]
      BY <2>5, <2>6
    <3>3. disk \in [Res -> [Files -> Contents]]
      BY DEF TypeInv, InstallTypeOK, Trees
    <3> QED
      BY <3>1, <3>2, <3>3
  <2>8. ~DatabaseInFlux
    <3>1. \A b \in Tx : pc[b] = "write-db" => Active(b)
      BY DEF Active, BeforeCreate, Ended
    <3>2. \A r \in Res : removing[r] = "write-db" => Removing(r)
      BY DEF Removing
    <3> QED
      BY <1>5, <2>1, <3>1, <3>2 DEF DatabaseInFlux
  <2>9. SameStores
    BY <2>7, <2>8 DEF Crash, SameStores
  <2>10. AllAgree'
    BY <1>1, <2>2, <2>9, SameAgrees DEF AllAgree
  <2> QED
    BY <1>2, <2>10 DEF Orderly
<1> QED
  BY <1>3, <1>4, <1>5

LEMMA NextSeqInv ==
    ASSUME OneAtATime, TypeInv, TxInv, SeqInv, [Next]_vars
    PROVE  SeqInv'
<1>1. Exclusive /\ Exclusive' /\ NoneTaken /\ NoneTaken'
  BY NextExclusive, NextNoneTaken DEF SeqInv, OneAtATime
<1>2. CASE Damaged
  BY <1>1, <1>2, DamageStays DEF SeqInv
<1>3. CASE ~Damaged
  <2>1. Orderly
    BY <1>3 DEF SeqInv
  <2>2. ASSUME UNCHANGED installVars
        PROVE  Orderly'
    BY <2>1, <2>2
    DEF installVars, Orderly, Active, Removing, InstallHolds, OthersHold,
        ReadsHold, OwnHolds, UndoHolds, LandingHolds, Copied, CopiedEntries,
        RemoveHolds, AllAgree, Agree, IsNew, LockEntries, Recorded
  <2>3. Signal \/ (\E h \in Sweepers : Sweep(h)) \/ UNCHANGED vars => UNCHANGED installVars
    BY DEF Signal, Sweep, vars, installVars
  <2> QED
    BY <1>1, <1>3, <2>1, <2>2, <2>3, InstallKeepsOrder, RemoveKeepsOrder,
       CrashKeepsOrder DEF Next, SeqInv
<1> QED
  BY <1>2, <1>3

LEMMA InitSeqInv == Init => SeqInv
<1> SUFFICES ASSUME Init
             PROVE  SeqInv
  OBVIOUS
<1>1. /\ \A a \in Tx : ~Running(a) /\ ~Active(a)
      /\ \A r \in Res : ~Removing(r)
  BY DEF Init, Running, Active, BeforeCreate, Removing
<1>2. PICK installed \in SUBSET Res :
         LET old == [r \in Res |-> IF r \in installed THEN "old" ELSE "none"]
         IN  /\ disk = [r \in Res |-> [f \in Files |->
                           IF r \in installed THEN "old" ELSE "absent"]]
             /\ lockfile = IF installed = {} THEN NoLockfile ELSE old
             /\ database = old
  BY DEF Init
<1>3. \A r \in Res : /\ database[r] = IF r \in installed THEN "old" ELSE "none"
                     /\ \A f \in Files : r \in installed => disk[r][f] = "old"
  BY <1>2
<1>4. \A r \in Res : LockEntries[r] = database[r]
  <2>1. CASE installed = {}
    BY <1>2, <1>3, <2>1 DEF LockEntries, NoEntries
  <2>2. CASE installed # {}
    <3> DEFINE old == [r \in Res |-> IF r \in installed THEN "old" ELSE "none"]
    <3>1. old \in Entries
      BY DEF Entries, Versions
    <3>2. lockfile = old /\ database = old
      BY <1>2, <2>2
    <3>3. lockfile # NoLockfile
      BY <3>1, <3>2, AbsentAssumption
    <3> QED
      BY <3>2, <3>3 DEF LockEntries
  <2> QED
    BY <2>1, <2>2
<1>5. AllAgree
  BY <1>3, <1>4 DEF AllAgree, Agree
<1>6. NoneTaken
  BY DEF Init, NoneTaken
<1> QED
  BY <1>1, <1>5, <1>6 DEF SeqInv, Exclusive, Orderly

\* With one call at a time, and whatever fails, lockfile, database and files
\* tell one version of every resource, unless a transaction that is still
\* active, or a remove, says that they may not, or the code has passed over an
\* error at this resource (forgiven): through every step that throws, every
\* crash, every failed update of the journal and whatever the recovery marks
\* (install, its catch clause, restore, remove).
THEOREM RecordsAreRight ==
    ASSUME OneAtATime
    PROVE  Spec => []RecordsWhatLanded
<1>1. TypeInv /\ TxInv /\ SeqInv /\ [Next]_vars => TypeInv' /\ TxInv' /\ SeqInv'
  BY NextTypeInv, NextTxInv, NextSeqInv DEF OneAtATime
<1>2. TypeInv /\ TxInv /\ SeqInv => RecordsWhatLanded
  <2> SUFFICES ASSUME TypeInv, TxInv, SeqInv,
                      \A a \in Tx : ~Readable(a) \/ IsTerminal(a),
                      \A q \in Res : removing[q] \in {"idle", "done"}
               PROVE  AllAgree
    BY DEF RecordsWhatLanded, AllAgree
  <2>1. Orderly
    BY DEF SeqInv, Damaged
  <2>2. \A a \in Tx : Active(a) => pc[a] \in {"return", "reject"}
    <3> SUFFICES ASSUME NEW a \in Tx, Active(a), pc[a] \notin {"return", "reject"}
                 PROVE  FALSE
      OBVIOUS
    <3>1. pc[a] \in Working
      BY DEF Active, Working, TypeInv, InstallTypeOK
    <3>2. Readable(a) /\ txFile[a].status \in Undecided
      BY <3>1, WorkingSteps, ActiveRecordReadable DEF TxInv, RecordsOfInstalls
    <3> QED
      BY <3>2, WorkingSteps DEF IsTerminal
  <2>3. \A r \in Res : ~Removing(r)
    BY DEF Removing
  <2> QED
    BY <2>1, <2>2, <2>3
    DEF Orderly, InstallHolds, OthersHold, OwnHolds, AllAgree
<1> QED
  BY <1>1, <1>2, InitTypeInv, InitTxInv, InitSeqInv, PTL DEF Spec
=============================================================================
