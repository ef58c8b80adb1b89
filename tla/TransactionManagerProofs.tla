----------------------- MODULE TransactionManagerProofs -----------------------
(***************************************************************************)
(* Theorems about TransactionManager, for any number of transactions and   *)
(* clients and without the bounds on journals and crashes playing a role.  *)
(***************************************************************************)
EXTENDS TransactionManager, TransactionJournalProofs

\* The types of the manager's own variables; those of the store are in
\* JournalInv.
ManagerTypeOK ==
    /\ issued \subseteq Tx
    /\ doing \in [Clients -> Doings]
    /\ crashes \in 0 .. MaxCrashes
    /\ orphans \subseteq Tx
    /\ missed \subseteq Tx

TypeInv == JournalInv /\ ManagerTypeOK

-----------------------------------------------------------------------------
(* The shapes of doing[c].                                                 *)

LEMMA DoingsElements ==
    /\ Idle \in Doings /\ Opening \in Doings /\ Updating \in Doings
    /\ \A id \in Tx : Removing(id) \in Doings
    /\ \A id \in Tx, stage \in RollbackStages : Rollback(stage, id) \in Doings
  BY DEF Doings

LEMMA InRollbackShape ==
    ASSUME doing \in [Clients -> Doings], NEW c \in Clients,
           doing[c].method = "rollback"
    PROVE  /\ doing[c].id \in Tx
           /\ doing[c].stage \in RollbackStages
           /\ \A stage : [doing[c] EXCEPT !.stage = stage]
                            = Rollback(stage, doing[c].id)
<1>1. PICK id \in Tx, stage \in RollbackStages : doing[c] = Rollback(stage, id)
  BY DEF Doings, Idle, Opening, Updating, Removing
<1> QED
  BY <1>1 DEF Rollback

LEMMA RemovingShape ==
    ASSUME doing \in [Clients -> Doings], NEW c \in Clients,
           doing[c].method = "cleanup"
    PROVE  doing[c].id \in Tx
  BY DEF Doings, Idle, Opening, Updating, Removing, Rollback

LEMMA AfterUpdateTyped ==
    ASSUME doing \in [Clients -> Doings], NEW c \in Clients
    PROVE  AfterSuccess(doing[c]) \in Doings /\ AfterError(doing[c]) \in Doings
<1>1. CASE doing[c].method = "rollback"
  BY <1>1, InRollbackShape, DoingsElements
  DEF AfterSuccess, AfterError, RollbackStages
<1>2. CASE doing[c].method # "rollback"
  BY <1>2, DoingsElements DEF AfterSuccess, AfterError
<1> QED
  BY <1>1, <1>2

LEMMA SetDoing ==
    ASSUME doing \in [Clients -> Doings], NEW c \in Clients, NEW d \in Doings,
           doing' = [doing EXCEPT ![c] = d]
    PROVE  doing' \in [Clients -> Doings]
  OBVIOUS

-----------------------------------------------------------------------------
LEMMA InitTypeInv == Init => TypeInv
  BY JournalInitInv, DoingsElements, ManagerAssumption
  DEF Init, TypeInv, ManagerTypeOK

LEMMA NextTypeInv == TypeInv /\ [Next]_vars => TypeInv'
<1> SUFFICES ASSUME TypeInv, [Next]_vars
             PROVE  TypeInv'
  OBVIOUS
<1> USE DEF TypeInv, historyVars
<1>m. /\ issued \subseteq Tx /\ orphans \subseteq Tx /\ missed \subseteq Tx
      /\ doing \in [Clients -> Doings] /\ crashes \in 0 .. MaxCrashes
  BY DEF ManagerTypeOK
<1>s. /\ \A c \in Clients : c \in Callers
      /\ StartupRecovery \in Sweepers /\ SignalHandler \in Sweepers
      /\ {"rolling-back", "rolled-back", "recovery-required"} \subseteq Statuses
  BY DEF Callers, Sweepers, Statuses
<1>1. ASSUME NEW c \in Clients, Initialize(c)
      PROVE  TypeInv'
  <2>1. JournalInv'
    BY <1>1, <1>s, SweepStartInv DEF Initialize
  <2> QED
    BY <1>1, <1>m, <2>1, DoingsElements DEF Initialize, ManagerTypeOK
<1>2. ASSUME NEW c \in Clients, Initialized(c)
      PROVE  TypeInv'
  BY <1>2, <1>m, UnchangedInv, DoingsElements DEF Initialized, ManagerTypeOK
<1>3. ASSUME NEW c \in Clients, NEW id \in Tx, Create(c, id)
      PROVE  TypeInv'
  BY <1>3, <1>m, CreateInv DEF Create, ManagerTypeOK
<1>4. ASSUME NEW c \in Clients, NEW id \in Tx, NEW st \in Marks, Mark(c, id, st)
      PROVE  TypeInv'
  <2>1. st \in Statuses
    BY ManagerAssumption
  <2>2. sweep' \in [Sweepers -> Sweeps]
    BY <1>4 DEF Mark, JournalInv, JournalTypeOK
  <2>3. JournalInv'
    BY <1>4, <1>s, <2>1, <2>2, ReadInv DEF Mark
  <2> QED
    BY <1>4, <1>m, <2>3, DoingsElements DEF Mark, ManagerTypeOK
<1>5. ASSUME NEW c \in Clients, NEW id \in Tx, Delete(c, id)
      PROVE  TypeInv'
  BY <1>5, <1>m, DeleteInv DEF Delete, ManagerTypeOK
<1>6. ASSUME NEW c \in Clients, NEW id \in Tx, CleanupCheck(c, id)
      PROVE  TypeInv'
  BY <1>6, <1>m, UnchangedInv, DoingsElements DEF CleanupCheck, ManagerTypeOK
<1>7. ASSUME NEW c \in Clients, CleanupRemove(c)
      PROVE  TypeInv'
  <2>1. doing[c].id \in Tx
    BY <1>7, <1>m, RemovingShape DEF CleanupRemove
  <2>2. JournalInv'
    BY <1>7, <2>1, DeleteInv DEF CleanupRemove
  <2> QED
    BY <1>7, <1>m, <2>2, DoingsElements DEF CleanupRemove, ManagerTypeOK
<1>8. ASSUME NEW c \in Clients, NEW id \in Tx, RollbackStart(c, id)
      PROVE  TypeInv'
  <2>1. Rollback("mark", id) \in Doings
    BY DoingsElements DEF RollbackStages
  <2> QED
    BY <1>8, <1>m, <2>1, UnchangedInv DEF RollbackStart, ManagerTypeOK
<1>9. ASSUME NEW c \in Clients, RollbackMark(c)
      PROVE  TypeInv'
  <2>1. PICK u \in RollbackUpdates :
           /\ InRollback(c, u[1])
           /\ ReadForUpdate(c, doing[c].id, u[2])
           /\ doing' = [doing EXCEPT ![c].stage = u[3]]
           /\ UNCHANGED <<sweep, issued, crashes, historyVars>>
    BY <1>9 DEF RollbackMark
  <2>2. u[2] \in Statuses /\ u[3] \in RollbackStages
    BY <1>s DEF RollbackUpdates, RollbackStages
  <2>3. doing[c].id \in Tx /\ Rollback(u[3], doing[c].id) \in Doings
    BY <1>m, <2>1, <2>2, InRollbackShape, DoingsElements DEF InRollback
  <2>4. doing' = [doing EXCEPT ![c] = Rollback(u[3], doing[c].id)]
    BY <1>m, <2>1, InRollbackShape DEF InRollback
  <2>5. sweep' \in [Sweepers -> Sweeps]
    BY <2>1 DEF JournalInv, JournalTypeOK
  <2>6. JournalInv'
    BY <1>s, <2>1, <2>2, <2>3, <2>5, ReadInv
  <2> QED
    BY <1>m, <2>1, <2>3, <2>4, <2>6 DEF ManagerTypeOK
<1>10. ASSUME NEW c \in Clients, RollbackMissing(c)
       PROVE  TypeInv'
  <2>1. PICK u \in RollbackUpdates :
           /\ InRollback(c, u[1])
           /\ doing' = [doing EXCEPT
                           ![c] = AfterError(Rollback(u[3], doing[c].id))]
           /\ UNCHANGED <<issued, crashes, historyVars>>
           /\ UNCHANGED journalVars
    BY <1>10 DEF RollbackMissing
  <2>2. AfterError(Rollback(u[3], doing[c].id)) \in Doings
    BY <1>m, <2>1, InRollbackShape, DoingsElements
    DEF InRollback, AfterError, Rollback, RollbackStages
  <2> QED
    BY <1>m, <2>1, <2>2, UnchangedInv DEF ManagerTypeOK
<1>11. ASSUME NEW c \in Clients, RollbackRun(c)
       PROVE  TypeInv'
  <2>1. PICK stage \in {"finish", "recover"} :
           doing' = [doing EXCEPT ![c].stage = stage]
    BY <1>11 DEF RollbackRun
  <2>2. /\ doing' = [doing EXCEPT ![c] = Rollback(stage, doing[c].id)]
        /\ doing[c].id \in Tx
    BY <1>11, <1>m, <2>1, InRollbackShape DEF RollbackRun, InRollback
  <2>3. Rollback(stage, doing[c].id) \in Doings
    BY <2>2, DoingsElements DEF RollbackStages
  <2> QED
    BY <1>11, <1>m, <2>2, <2>3, UnchangedInv DEF RollbackRun, ManagerTypeOK
<1>12. ASSUME NEW c \in Clients, ClientWrite(c)
       PROVE  TypeInv'
  BY <1>12, <1>m, <1>s, OpenTmpInv, FillTmpInv
  DEF ClientWrite, managerVars, ManagerTypeOK
<1>13. ASSUME NEW c \in Clients, ClientRename(c) \/ ClientUpdateFails(c)
       PROVE  TypeInv'
  <2>1. JournalInv'
    BY <1>13, <1>s, RenameTmpInv, UpdateFailsInv
    DEF ClientRename, ClientUpdateFails
  <2>2. doing' \in [Clients -> Doings]
    BY <1>13, <1>m, AfterUpdateTyped DEF ClientRename, ClientUpdateFails
  <2> QED
    BY <1>13, <1>m, <2>1, <2>2
    DEF ClientRename, ClientUpdateFails, ManagerTypeOK
<1>14. ASSUME Signal
       PROVE  TypeInv'
  BY <1>14, <1>m, <1>s, SweepStartInv DEF Signal, managerVars, ManagerTypeOK
<1>15. ASSUME NEW h \in Sweepers, Sweep(h)
       PROVE  TypeInv'
  <2>1. JournalInv'
    BY <1>15, SweepStepInv, SweepErrorInv, SweepListErrorInv DEF Sweep
  <2>2. /\ UNCHANGED <<issued, doing, crashes, orphans>>
        /\ missed' \subseteq missed \cup orphans
    BY <1>15 DEF Sweep, Misses, managerVars
  <2> QED
    BY <1>m, <2>1, <2>2 DEF ManagerTypeOK
<1>16. ASSUME Crash
       PROVE  TypeInv'
  <2>1. JournalInv'
    BY <1>16, CrashInv DEF Crash
  <2>2. crashes' \in 0 .. MaxCrashes
    BY <1>16, <1>m, ManagerAssumption DEF Crash
  <2> QED
    BY <1>16, <1>m, <2>1, <2>2, DoingsElements DEF Crash, ManagerTypeOK
<1>17. ASSUME UNCHANGED vars
       PROVE  TypeInv'
  <2>1. UNCHANGED journalVars
    BY <1>17 DEF vars, journalVars
  <2> QED
    BY <1>17, <1>m, <2>1, UnchangedInv DEF vars, ManagerTypeOK
<1> QED
  BY <1>1, <1>2, <1>3, <1>4, <1>5, <1>6, <1>7, <1>8, <1>9, <1>10, <1>11, <1>12,
     <1>13, <1>14, <1>15, <1>16, <1>17
  DEF Next, ClientStep

\* The store and the manager keep their types, in every interleaving of
\* clients, signal handler, recovery and crashes.
THEOREM TypeCorrect == Spec => []TypeOK
<1>1. TypeInv => TypeOK
  BY DEF TypeInv, JournalInv, ManagerTypeOK, TypeOK
<1> QED
  BY <1>1, InitTypeInv, NextTypeInv, PTL DEF Spec

\* No lost update, error or crash ever brings a record to disk whose journal
\* does not end in its status, or repeats a status; what is on disk is no
\* record only when two flows wrote it at once.
THEOREM JournalIsConsistent == Spec => []JournalConsistent
<1>1. TypeInv => JournalConsistent
  BY JournalInvConsistent DEF TypeInv
<1> QED
  BY <1>1, InitTypeInv, NextTypeInv, PTL DEF Spec

-----------------------------------------------------------------------------
(* Orphaned commits.                                                       *)

LEMMA SweepersDistinct ==
    /\ StartupRecovery \in Sweepers /\ SignalHandler \in Sweepers
    /\ StartupRecovery # SignalHandler
    /\ \A c \in Clients : c \in Callers /\ c \notin Sweepers
    /\ \A h \in Sweepers : h \in Callers
  BY CallersAssumption DEF Sweepers, Callers

LEMMA InitOrphanInv == Init => OrphanInv
  BY SweepersDistinct
  DEF Init, JournalInit, SweepOff, OrphanInv, SweepersOnlyMark, RecoveryFirst,
      OrphansUntouched, OrphanTmpIsMark, OrphanCommitsKnown, Marking

\* What a client does to the files of other transactions and to its own
\* local variables does not concern the orphans.
LEMMA ClientOrphanInv ==
    ASSUME TypeInv, OrphanInv, NEW c \in Clients,
           UNCHANGED <<sweep, missed>>,
           orphans' \subseteq orphans,
           \A d \in Callers \ {c} : Stays(d, orphans'),
           \A id \in orphans' : txTmp'[id] = txTmp[id],
           \A id \in orphans' : StatusOf(id)' = "committing"
                                    => StatusOf(id) = "committing",
           \A id \in orphans' : ~Marking(c, id)',
           \A d \in Clients, id \in orphans' :
               doing'[d].method = "rollback" => doing'[d].id # id
    PROVE  OrphanInv'
<1> USE SweepersDistinct
<1>0. \A d \in Callers \ {c}, id \in orphans' :
         Marking(d, id)' => call'[d] = call[d]
  BY DEF Marking, Stays
<1>1. SweepersOnlyMark'
  BY DEF OrphanInv, SweepersOnlyMark, Stays
<1>2. RecoveryFirst'
  BY DEF OrphanInv, RecoveryFirst, Stays
<1>3. OrphansUntouched'
  BY <1>0 DEF OrphanInv, OrphansUntouched, Marking
<1>4. OrphanTmpIsMark'
  BY <1>0 DEF OrphanInv, OrphanTmpIsMark, Marking
<1>5. OrphanCommitsKnown'
  BY DEF OrphanInv, OrphanCommitsKnown, Marking, Stays
<1> QED
  BY <1>1, <1>2, <1>3, <1>4, <1>5 DEF OrphanInv

\* Two sweepers are never inside a call at once.
LEMMA OneSweeperCalls ==
    ASSUME OrphanInv, NEW h \in Sweepers, call[h] # NoCall,
           NEW g \in Sweepers \ {h}
    PROVE  call[g] = NoCall
  BY SweepersDistinct DEF OrphanInv, SweepersOnlyMark, RecoveryFirst, Sweepers

\* One step of a sweep.
LEMMA SweepOrphanInv ==
    ASSUME TypeInv, OrphanInv, NEW h \in Sweepers, SweepStep(h),
           UNCHANGED managerVars
    PROVE  OrphanInv'
<1> USE SweepersDistinct
<1>u. UNCHANGED <<issued, doing, crashes, orphans, missed>> /\ orphans \subseteq Tx
  BY DEF managerVars, historyVars, TypeInv, ManagerTypeOK
<1>t. /\ sweep \in [Sweepers -> Sweeps] /\ call \in [Callers -> Calls \cup {NoCall}]
      /\ txFile \in [Tx -> TxContents \cup {NoTx}]
      /\ txTmp \in [Tx -> TxContents \cup {NoTx}]
  BY DEF TypeInv, JournalInv, JournalTypeOK
\* A sweep under way is the recovery's, or the recovery is over.
<1>a. sweep[h].phase # "off" =>
          h = StartupRecovery \/ sweep[StartupRecovery].phase = "done"
  BY DEF OrphanInv, RecoveryFirst, Sweepers
<1>1. ASSUME SweepList(h) \/ SweepRead(h) \/ SweepScanned(h) \/ SweepSkip(h)
             \/ SweepEnd(h)
      PROVE  OrphanInv'
  <2>1. UNCHANGED <<txFile, txTmp, call>>
    BY <1>1 DEF SweepList, SweepRead, SweepScanned, SweepSkip, SweepEnd
  <2>2. /\ sweep[h].phase # "off" /\ sweep[h].phase # "done"
        /\ \A g \in Sweepers \ {h} : sweep'[g] = sweep[g]
    BY <1>1, <1>t DEF SweepList, SweepRead, SweepScanned, SweepSkip, SweepEnd
  <2>3. SweepersOnlyMark'
    BY <1>1, <1>t, <2>1, <2>2
    DEF OrphanInv, SweepersOnlyMark, SweepList, SweepRead, SweepScanned,
        SweepSkip, SweepEnd, AfterRead, Sweeps
  <2>4. RecoveryFirst'
    BY <1>a, <2>1, <2>2 DEF OrphanInv, RecoveryFirst
  <2>5. OrphansUntouched'
    BY <1>u, <2>1 DEF OrphanInv, OrphansUntouched, Marking
  <2>6. OrphanTmpIsMark'
    BY <1>u, <2>1 DEF OrphanInv, OrphanTmpIsMark, Marking
  <2>7. OrphanCommitsKnown'
    <3>1. CASE h # StartupRecovery
      BY <1>u, <2>1, <2>2, <3>1
      DEF OrphanInv, OrphanCommitsKnown, Marking, StatusOf
    <3>2. CASE h = StartupRecovery
      <4> SUFFICES ASSUME NEW id \in orphans \ missed,
                          StatusOf(id) = "committing"
                   PROVE  LET recovery == sweep'[StartupRecovery]
                          IN  CASE recovery.phase = "scan" ->
                                     id \in recovery.unread \cup recovery.marks
                                [] recovery.phase = "mark" ->
                                     \/ id \in recovery.marks
                                     \/ Marking(StartupRecovery, id)
                                [] recovery.phase = "done" -> FALSE
                                [] OTHER -> TRUE
        BY <1>u, <2>1 DEF OrphanCommitsKnown, StatusOf, Marking
      <4>1. /\ id \in Tx /\ Readable(id) /\ txFile[id] # NoTx
            /\ txFile[id].status = "committing"
        BY <1>u, CommittingIsRecord, AbsenceAssumption
        DEF TypeInv, JournalInv, Readable, TxContents
      <4>2. CASE SweepList(h)
        BY <1>t, <3>2, <4>1, <4>2 DEF SweepList, Persisted, Sweeps
      <4>3. CASE SweepRead(h)
        <5>1. Selected(h, id)
          BY <4>1 DEF Selected, IsTerminal, TerminalStatuses
        <5>2. id \in sweep[h].unread \cup sweep[h].marks
          BY <3>2, <4>3 DEF SweepRead, OrphanInv, OrphanCommitsKnown
        <5> QED
          BY <1>t, <3>2, <4>3, <5>1, <5>2 DEF SweepRead, AfterRead, Sweeps
      <4>4. CASE SweepScanned(h)
        BY <1>t, <3>2, <4>4
        DEF SweepScanned, Sweeps, OrphanInv, OrphanCommitsKnown
      <4>5. CASE SweepSkip(h)
        BY <1>t, <3>2, <4>1, <4>5
        DEF SweepSkip, Sweeps, OrphanInv, OrphanCommitsKnown, Marking
      <4>6. CASE SweepEnd(h)
        BY <1>t, <3>2, <4>6
        DEF SweepEnd, Sweeps, OrphanInv, OrphanCommitsKnown, Marking
      <4> QED
        BY <1>1, <4>2, <4>3, <4>4, <4>5, <4>6
    <3> QED
      BY <3>1, <3>2
  <2> QED
    BY <2>3, <2>4, <2>5, <2>6, <2>7 DEF OrphanInv
<1>2. ASSUME SweepMark(h)
      PROVE  OrphanInv'
  <2>1. PICK m \in sweep[h].marks :
           /\ ReadForUpdate(h, m, "recovery-required")
           /\ sweep' = [sweep EXCEPT ![h].marks = @ \ {m}]
    BY <1>2 DEF SweepMark
  <2>2. /\ sweep[h].phase = "mark" /\ UNCHANGED <<txFile, txTmp>>
        /\ call[h] = NoCall
        /\ call' = [call EXCEPT
               ![h] = [step |-> "merged", id |-> m,
                       rec |-> WithStatus(txFile[m], "recovery-required")]]
    BY <1>2, <2>1 DEF SweepMark, ReadForUpdate
  <2>3. WithStatus(txFile[m], "recovery-required").status = "recovery-required"
    BY DEF WithStatus
  <2>4. \A g \in Sweepers : sweep'[g].phase = sweep[g].phase
    BY <1>t, <2>1 DEF Sweeps
  <2>5. SweepersOnlyMark'
    BY <1>t, <2>2, <2>3, <2>4 DEF OrphanInv, SweepersOnlyMark
  <2>6. RecoveryFirst'
    BY <1>a, <1>t, <2>2, <2>4 DEF OrphanInv, RecoveryFirst
  <2>7. OrphansUntouched'
    BY <1>u, <1>t, <2>2 DEF OrphanInv, OrphansUntouched, Marking
  <2>8. OrphanTmpIsMark'
    BY <1>u, <1>t, <2>2 DEF OrphanInv, OrphanTmpIsMark, Marking
  <2>9. OrphanCommitsKnown'
    <3>1. CASE h # StartupRecovery
      BY <1>u, <1>t, <2>1, <2>2, <3>1
      DEF OrphanInv, OrphanCommitsKnown, Marking, StatusOf
    <3>2. CASE h = StartupRecovery
      <4>1. /\ call'[h] # NoCall /\ call'[h].id = m
            /\ sweep'[h].marks = sweep[h].marks \ {m}
        <5>1. /\ txFile[m] \in TxRecord /\ WellFormed(txFile[m]) /\ m \in Tx
          BY <1>t, <2>1
          DEF ReadForUpdate, Readable, TypeInv, JournalInv, RecordsWellFormed, Sweeps
        <5>2. call'[h] \in Calls
          BY <1>t, <2>2, <5>1, WithStatusWellFormed DEF Calls, Statuses
        <5> QED
          BY <1>t, <2>1, <2>2, <5>2, AbsenceAssumption DEF Sweeps
      <4> QED
        BY <1>u, <1>t, <2>2, <2>4, <3>2, <4>1
        DEF OrphanInv, OrphanCommitsKnown, Marking, StatusOf
    <3> QED
      BY <3>1, <3>2
  <2> QED
    BY <2>5, <2>6, <2>7, <2>8, <2>9 DEF OrphanInv
<1>3. ASSUME OpenTmp(h) \/ FillTmp(h)
      PROVE  OrphanInv'
  <2> DEFINE m == call[h].id
  <2>1. PICK step \in {"tmp", "written"} :
           /\ call[h] # NoCall
           /\ call' = [call EXCEPT ![h].step = step]
           /\ UNCHANGED sweep
    BY <1>3 DEF OpenTmp, FillTmp
  <2>2. /\ m \in Tx
        /\ \A d \in Callers \ {h} : call'[d] = call[d]
        /\ call'[h] # NoCall /\ call'[h].id = m
        /\ call'[h].rec = call[h].rec /\ call[h].rec \in TxRecord
    BY <2>1, CallGoesOn DEF TypeInv, JournalInv, OpenedAt
  <2>3. call[h].rec.status = "recovery-required"
    BY <2>1 DEF OrphanInv, SweepersOnlyMark
  \* The temporary file is there and not a commit; so is the record, or it
  \* is as it was.
  <2>4. /\ \A i \in Tx \ {m} : txFile'[i] = txFile[i] /\ txTmp'[i] = txTmp[i]
        /\ txFile'[m] = txFile[m]
              \/ txFile'[m].status # "committing"
        /\ \/ txTmp'[m] # NoTx /\ txTmp'[m].status # "committing"
           \/ call[h].step # "merged" /\ txTmp'[m] = txTmp[m]
    <3>1. CASE OpenTmp(h)
      BY <1>t, <2>2, <3>1, ContentsDistinct DEF OpenTmp, Truncated
    <3>2. CASE FillTmp(h)
      <4>1. call[h].rec # NoTx /\ Garbled # NoTx
            /\ Garbled.status # "committing"
        BY <2>2, AbsenceAssumption, ContentsDistinct DEF Garbled
      <4>2. call[h].step # "merged"
        BY <3>2 DEF FillTmp
      <4> QED
        BY <1>t, <2>2, <2>3, <3>2, <4>1, <4>2 DEF FillTmp, Overwritten
    <3> QED
      BY <1>3, <3>1, <3>2
  <2> HIDE DEF m
  <2>5. \A i \in Tx : StatusOf(i)' = "committing" => StatusOf(i) = "committing"
    BY <2>4 DEF StatusOf
  <2>6. \A d \in Callers, i \in Tx : Marking(d, i)' <=> Marking(d, i)
    BY <2>1, <2>2 DEF Marking, m
  <2>7. SweepersOnlyMark' /\ RecoveryFirst'
    BY <2>1, <2>2 DEF OrphanInv, SweepersOnlyMark, RecoveryFirst
  <2>8. OrphansUntouched'
    BY <1>u, <2>6 DEF OrphanInv, OrphansUntouched
  <2>9. OrphanTmpIsMark'
    <3> SUFFICES ASSUME NEW i \in orphans, NEW g \in Sweepers, Marking(g, i)',
                        call'[g].step # "merged"
                 PROVE  /\ txTmp'[i] # NoTx => txTmp'[i].status # "committing"
                        /\ g = StartupRecovery => txTmp'[i] # NoTx
      BY <1>u DEF OrphanTmpIsMark
    <3>1. Marking(g, i) /\ i \in Tx
      BY <1>u, <2>6
    <3>2. g = h
      BY <2>1, <3>1, OneSweeperCalls DEF Marking
    <3>3. i = m
      BY <3>1, <3>2 DEF Marking, m
    <3> QED
      BY <2>4, <3>1, <3>2, <3>3 DEF OrphanInv, OrphanTmpIsMark
  <2>10. OrphanCommitsKnown'
    BY <1>u, <2>1, <2>5, <2>6 DEF OrphanInv, OrphanCommitsKnown
  <2> QED
    BY <2>7, <2>8, <2>9, <2>10 DEF OrphanInv
<1>4. ASSUME RenameTmp(h)
      PROVE  OrphanInv'
  <2> DEFINE m == call[h].id
  <2>1. /\ call[h] # NoCall /\ m \in Tx /\ call[h].step = "written"
        /\ txTmp[m] # NoTx
        /\ txFile' = [txFile EXCEPT ![m] = txTmp[m]]
        /\ txTmp' = [txTmp EXCEPT ![m] = NoTx]
        /\ call'[h] = NoCall
        /\ UNCHANGED sweep
    BY <1>4, <1>t DEF RenameTmp, Calls
  <2>2. m \in orphans => txTmp[m].status # "committing"
    BY <2>1 DEF OrphanInv, OrphanTmpIsMark, Marking
  <2>3. \A id \in orphans : StatusOf(id)' = "committing" =>
            id # m /\ StatusOf(id) = "committing"
    BY <1>u, <1>t, <2>1, <2>2 DEF StatusOf
  <2>s. \A d \in Callers \ {h} : Stays(d, {})
    BY <1>4, RenameStays DEF TypeInv, JournalInv
  <2>c. /\ \A g \in Sweepers : call'[g] = NoCall
        /\ \A d \in Callers, i \in Tx : Marking(d, i)' => Marking(d, i)
    BY <2>1, <2>s, OneSweeperCalls DEF Stays, Marking
  <2> HIDE DEF m
  <2>4. SweepersOnlyMark' /\ RecoveryFirst' /\ OrphansUntouched'
    BY <1>u, <2>1, <2>c
    DEF OrphanInv, SweepersOnlyMark, RecoveryFirst, OrphansUntouched
  <2>5. OrphanTmpIsMark'
    BY <2>c DEF OrphanTmpIsMark, Marking
  <2>6. OrphanCommitsKnown'
    <3> SUFFICES ASSUME NEW id \in orphans \ missed, StatusOf(id)' = "committing"
                 PROVE  /\ id # m /\ StatusOf(id) = "committing"
                        /\ Marking(StartupRecovery, id)
                              => Marking(StartupRecovery, id)'
      BY <1>u, <2>1 DEF OrphanInv, OrphanCommitsKnown
    <3>1. Marking(StartupRecovery, id) => StartupRecovery # h
      BY <2>3 DEF Marking, m
    <3>2. StartupRecovery # h => call[StartupRecovery] = NoCall
      BY <2>1, OneSweeperCalls
    <3> QED
      BY <2>3, <3>1, <3>2 DEF Marking
  <2> QED
    BY <2>4, <2>5, <2>6 DEF OrphanInv
<1>5. ASSUME RenameFails(h)
      PROVE  OrphanInv'
  <2>1. /\ call[h] # NoCall /\ call[h].step = "written"
        /\ txTmp[call[h].id] = NoTx
        /\ call' = [call EXCEPT ![h] = NoCall]
        /\ UNCHANGED <<txFile, txTmp, sweep>>
    BY <1>5 DEF RenameFails
  <2>2. h = StartupRecovery => call[h].id \notin orphans
    BY <2>1 DEF OrphanInv, OrphanTmpIsMark, Marking
  <2> QED
    BY <1>u, <1>t, <2>1, <2>2
    DEF OrphanInv, SweepersOnlyMark, RecoveryFirst, OrphansUntouched,
        OrphanTmpIsMark, OrphanCommitsKnown, Marking, StatusOf
<1> QED
  BY <1>1, <1>2, <1>3, <1>4, <1>5 DEF SweepStep

\* The errors that a sweep swallows: the orphans that the recovery missed are
\* out of account.
LEMMA SweepErrorOrphanInv ==
    ASSUME TypeInv, OrphanInv, NEW h \in Sweepers, NEW ids, Misses(h, ids),
           \/ SweepListFails(h) /\ ids = Tx
           \/ \E id \in Tx : SweepMisses(h, id) /\ ids = {id}
    PROVE  OrphanInv'
<1> USE SweepersDistinct
<1>u. /\ UNCHANGED <<issued, doing, crashes, orphans>> /\ orphans \subseteq Tx
      /\ missed' = IF h = StartupRecovery THEN missed \cup (ids \cap orphans)
                                          ELSE missed
  BY DEF Misses, TypeInv, ManagerTypeOK
<1>t. sweep \in [Sweepers -> Sweeps] /\ call \in [Callers -> Calls \cup {NoCall}]
  BY DEF TypeInv, JournalInv, JournalTypeOK
<1>a. sweep[h].phase # "off" =>
          h = StartupRecovery \/ sweep[StartupRecovery].phase = "done"
  BY DEF OrphanInv, RecoveryFirst, Sweepers
<1>1. ASSUME SweepListFails(h), ids = Tx
      PROVE  OrphanInv'
  <2>1. /\ sweep[h].phase = "list" /\ sweep'[h].phase = "scan"
        /\ \A g \in Sweepers \ {h} : sweep'[g] = sweep[g]
        /\ UNCHANGED <<txFile, txTmp, call>>
    BY <1>1, <1>t DEF SweepListFails, Sweeps
  <2>2. SweepersOnlyMark' /\ RecoveryFirst'
    BY <1>a, <2>1 DEF OrphanInv, SweepersOnlyMark, RecoveryFirst
  <2>3. OrphansUntouched' /\ OrphanTmpIsMark'
    BY <1>u, <2>1 DEF OrphanInv, OrphansUntouched, OrphanTmpIsMark, Marking
  <2>4. OrphanCommitsKnown'
    BY <1>1, <1>u, <2>1 DEF OrphanInv, OrphanCommitsKnown, Marking, StatusOf
  <2> QED
    BY <2>2, <2>3, <2>4 DEF OrphanInv
<1>2. ASSUME NEW id \in Tx, SweepMisses(h, id), ids = {id}, ~UpdateFails(h)
      PROVE  OrphanInv'
  <2>1. /\ sweep[h].phase \in {"scan", "mark"}
        /\ sweep'[h].phase = sweep[h].phase
        /\ sweep'[h].unread \in {sweep[h].unread, sweep[h].unread \ {id}}
        /\ sweep'[h].marks \in {sweep[h].marks, sweep[h].marks \ {id}}
        /\ \A g \in Sweepers \ {h} : sweep'[g] = sweep[g]
        /\ UNCHANGED <<txFile, txTmp, call>>
    BY <1>2, <1>t DEF SweepMisses, Sweeps
  <2>2. SweepersOnlyMark' /\ RecoveryFirst'
    BY <1>a, <2>1 DEF OrphanInv, SweepersOnlyMark, RecoveryFirst
  <2>3. OrphansUntouched' /\ OrphanTmpIsMark'
    BY <1>u, <2>1 DEF OrphanInv, OrphansUntouched, OrphanTmpIsMark, Marking
  <2>4. OrphanCommitsKnown'
    BY <1>2, <1>u, <2>1 DEF OrphanInv, OrphanCommitsKnown, Marking, StatusOf
  <2> QED
    BY <2>2, <2>3, <2>4 DEF OrphanInv
<1>3. ASSUME UpdateFails(h), ids = {call[h].id}
      PROVE  OrphanInv'
  <2>1. /\ call[h] # NoCall /\ call' = [call EXCEPT ![h] = NoCall]
        /\ UNCHANGED <<txFile, txTmp, sweep>>
    BY <1>3 DEF UpdateFails
  <2>2. \A d \in Callers, i \in Tx : Marking(d, i)' =>
            Marking(d, i) /\ call'[d] = call[d]
    BY <1>t, <2>1 DEF Marking
  <2>3. SweepersOnlyMark' /\ RecoveryFirst'
    BY <1>t, <2>1 DEF OrphanInv, SweepersOnlyMark, RecoveryFirst
  <2>4. OrphansUntouched' /\ OrphanTmpIsMark'
    BY <1>u, <2>1, <2>2 DEF OrphanInv, OrphansUntouched, OrphanTmpIsMark
  <2>5. OrphanCommitsKnown'
    BY <1>3, <1>t, <1>u, <2>1
    DEF OrphanInv, OrphanCommitsKnown, Marking, StatusOf
  <2> QED
    BY <2>3, <2>4, <2>5 DEF OrphanInv
<1>4. ASSUME NEW id \in Tx, SweepMisses(h, id), ids = {id}
      PROVE  OrphanInv'
  <2>1. CASE UpdateFails(h)
    <3>1. id = call[h].id
      <4>1. call' # call
        BY <1>t, <2>1 DEF UpdateFails, Callers
      <4> QED
        BY <1>4, <4>1 DEF SweepMisses
    <3> QED
      BY <1>3, <1>4, <2>1, <3>1
  <2>2. CASE ~UpdateFails(h)
    BY <1>2, <1>4, <2>2
  <2> QED
    BY <2>1, <2>2
<1> QED
  BY <1>1, <1>4

LEMMA NextOrphanInv == TypeInv /\ OrphanInv /\ [Next]_vars => OrphanInv'
<1> SUFFICES ASSUME TypeInv, OrphanInv, [Next]_vars
             PROVE  OrphanInv'
  OBVIOUS
<1> USE SweepersDistinct DEF historyVars
<1>t. /\ call \in [Callers -> Calls \cup {NoCall}]
      /\ txFile \in [Tx -> TxContents \cup {NoTx}]
      /\ txTmp \in [Tx -> TxContents \cup {NoTx}]
      /\ sweep \in [Sweepers -> Sweeps]
      /\ doing \in [Clients -> Doings] /\ orphans \subseteq Tx
  BY DEF TypeInv, JournalInv, JournalTypeOK, ManagerTypeOK
<1>o. /\ \A id \in orphans, c \in Clients : ~Marking(c, id)
      /\ \A id \in orphans, c \in Clients :
             doing[c].method = "rollback" => doing[c].id # id
  BY DEF OrphanInv, OrphansUntouched
<1>1. ASSUME NEW c \in Clients, Initialize(c)
      PROVE  OrphanInv'
  <2>1. /\ sweep[StartupRecovery].phase = "off"
        /\ \A g \in Sweepers \ {StartupRecovery} : sweep'[g] = sweep[g]
        /\ sweep'[StartupRecovery].phase = "list"
        /\ UNCHANGED <<txFile, txTmp, call, orphans, missed>>
    BY <1>1, <1>t DEF Initialize, SweepStart, Sweeps
  <2>2. SweepersOnlyMark' /\ RecoveryFirst'
    BY <2>1 DEF OrphanInv, SweepersOnlyMark, RecoveryFirst, Sweepers
  <2>3. OrphansUntouched'
    BY <1>1, <1>t, <1>o, <2>1
    DEF Initialize, OrphansUntouched, Marking, Opening
  <2>4. OrphanTmpIsMark' /\ OrphanCommitsKnown'
    BY <2>1 DEF OrphanInv, OrphanTmpIsMark, OrphanCommitsKnown, Marking
  <2> QED
    BY <2>2, <2>3, <2>4 DEF OrphanInv
<1>2. ASSUME NEW c \in Clients, Initialized(c)
      PROVE  OrphanInv'
  BY <1>2, <1>t, <1>o, ClientOrphanInv
  DEF Initialized, journalVars, Idle, StatusOf, Marking, Stays
<1>3. ASSUME NEW c \in Clients, NEW id \in Tx, Create(c, id)
      PROVE  OrphanInv'
  <2>1. \A i \in orphans : StatusOf(i)' = "committing"
                               => StatusOf(i) = "committing"
    BY <1>3, <1>t DEF Create, CreateTransaction, StatusOf, NewTx
  <2> QED
    BY <1>3, <1>t, <1>o, <2>1, ClientOrphanInv
    DEF Create, CreateTransaction, Marking, Stays
<1>4. ASSUME NEW c \in Clients, NEW id \in Tx, NEW st \in Marks, Mark(c, id, st)
      PROVE  OrphanInv'
  <2>1. /\ orphans' = orphans \ {id}
        /\ UNCHANGED <<txFile, txTmp, sweep, missed>>
        /\ call' = [call EXCEPT
               ![c] = [step |-> "merged", id |-> id,
                       rec |-> WithStatus(txFile[id], st)]]
        /\ doing' = [doing EXCEPT ![c] = Updating]
    BY <1>4 DEF Mark, ReadForUpdate
  <2> QED
    BY <1>t, <1>o, <2>1, ClientOrphanInv DEF Marking, StatusOf, Updating, Stays
<1>5. ASSUME NEW c \in Clients, NEW id \in Tx, Delete(c, id)
      PROVE  OrphanInv'
  <2>1. \A i \in orphans' : StatusOf(i)' = StatusOf(i)
    BY <1>5, <1>t DEF Delete, DeleteTransaction, StatusOf
  <2>2. \A d \in Callers : Stays(d, orphans')
    BY <1>5, DeleteStays DEF Delete, TypeInv, JournalInv
  <2>3. \A i \in orphans' : ~Marking(c, i)'
    BY <1>5, <1>o, <2>2 DEF Delete, Stays, Marking
  <2> QED
    BY <1>5, <1>t, <1>o, <2>1, <2>2, <2>3, ClientOrphanInv
    DEF Delete, DeleteTransaction
<1>6. ASSUME NEW c \in Clients, NEW id \in Tx, CleanupCheck(c, id)
      PROVE  OrphanInv'
  BY <1>6, <1>t, <1>o, ClientOrphanInv
  DEF CleanupCheck, journalVars, Removing, StatusOf, Marking, Stays
<1>7. ASSUME NEW c \in Clients, CleanupRemove(c)
      PROVE  OrphanInv'
  <2>1. \A i \in orphans' : StatusOf(i)' = StatusOf(i)
    BY <1>7, <1>t DEF CleanupRemove, DeleteTransaction, StatusOf
  <2>2. doing[c].id \in Tx
    BY <1>7, <1>t, RemovingShape DEF CleanupRemove
  <2>3. \A d \in Callers : Stays(d, orphans')
    BY <1>7, <2>2, DeleteStays DEF CleanupRemove, TypeInv, JournalInv
  <2>4. \A i \in orphans' : ~Marking(c, i)'
    BY <1>7, <1>o, <2>3 DEF CleanupRemove, Stays, Marking
  <2> QED
    BY <1>7, <1>t, <1>o, <2>1, <2>3, <2>4, ClientOrphanInv
    DEF CleanupRemove, DeleteTransaction, Idle
<1>8. ASSUME NEW c \in Clients, NEW id \in Tx, RollbackStart(c, id)
      PROVE  OrphanInv'
  BY <1>8, <1>t, <1>o, ClientOrphanInv
  DEF RollbackStart, journalVars, Rollback, StatusOf, Marking, Stays
<1>9. ASSUME NEW c \in Clients, RollbackMark(c)
      PROVE  OrphanInv'
  <2>1. PICK u \in RollbackUpdates :
           /\ InRollback(c, u[1])
           /\ ReadForUpdate(c, doing[c].id, u[2])
           /\ doing' = [doing EXCEPT ![c].stage = u[3]]
           /\ UNCHANGED <<sweep, issued, crashes, historyVars>>
    BY <1>9 DEF RollbackMark
  <2>2. doing' = [doing EXCEPT ![c] = Rollback(u[3], doing[c].id)]
    BY <1>t, <2>1, InRollbackShape DEF InRollback
  <2>3. /\ UNCHANGED <<txFile, txTmp>>
        /\ call' = [call EXCEPT
               ![c] = [step |-> "merged", id |-> doing[c].id,
                       rec |-> WithStatus(txFile[doing[c].id], u[2])]]
    BY <2>1 DEF ReadForUpdate
  <2>4. doing[c].id \notin orphans
    BY <1>o, <2>1 DEF InRollback
  <2> QED
    BY <1>t, <1>o, <2>1, <2>2, <2>3, <2>4, ClientOrphanInv
    DEF Marking, StatusOf, Rollback, Stays
<1>10. ASSUME NEW c \in Clients, RollbackMissing(c)
       PROVE  OrphanInv'
  <2>1. PICK u \in RollbackUpdates :
           /\ InRollback(c, u[1])
           /\ doing' = [doing EXCEPT
                           ![c] = AfterError(Rollback(u[3], doing[c].id))]
           /\ UNCHANGED <<issued, crashes, historyVars>>
           /\ UNCHANGED journalVars
    BY <1>10 DEF RollbackMissing
  <2>2. doing[c].id \notin orphans
    BY <1>o, <2>1 DEF InRollback
  <2> QED
    BY <1>t, <1>o, <2>1, <2>2, ClientOrphanInv
    DEF journalVars, AfterError, Rollback, Idle, StatusOf, Marking, Stays
<1>11. ASSUME NEW c \in Clients, RollbackRun(c)
       PROVE  OrphanInv'
  <2>1. PICK stage \in {"finish", "recover"} :
           doing' = [doing EXCEPT ![c].stage = stage]
    BY <1>11 DEF RollbackRun
  <2>2. doing' = [doing EXCEPT ![c] = Rollback(stage, doing[c].id)]
    BY <1>11, <1>t, <2>1, InRollbackShape DEF RollbackRun, InRollback
  <2>3. doing[c].id \notin orphans
    BY <1>11, <1>o DEF RollbackRun, InRollback
  <2> QED
    BY <1>11, <1>t, <1>o, <2>2, <2>3, ClientOrphanInv
    DEF RollbackRun, journalVars, Rollback, StatusOf, Marking, Stays
<1>12. ASSUME NEW c \in Clients, ClientWrite(c)
       PROVE  OrphanInv'
  <2>1. PICK step \in {"tmp", "written"} :
           /\ call[c] # NoCall
           /\ call' = [call EXCEPT ![c].step = step]
           /\ UNCHANGED <<sweep, doing, orphans, missed>>
    BY <1>12 DEF ClientWrite, OpenTmp, FillTmp, managerVars
  <2>2. /\ \A d \in Callers \ {c} : call'[d] = call[d]
        /\ call'[c].id = call[c].id /\ call[c].id \in Tx
    BY <2>1, CallGoesOn DEF TypeInv, JournalInv, OpenedAt
  <2>3. call[c].id \notin orphans
    BY <1>o, <2>1 DEF Marking
  <2>4. \A i \in Tx \ {call[c].id} :
           txFile'[i] = txFile[i] /\ txTmp'[i] = txTmp[i]
    BY <1>12, <1>t DEF ClientWrite, OpenTmp, FillTmp
  <2>5. \A i \in orphans : txTmp'[i] = txTmp[i] /\ StatusOf(i)' = StatusOf(i)
    BY <1>t, <2>3, <2>4 DEF StatusOf
  <2> QED
    BY <1>o, <2>1, <2>2, <2>3, <2>5, ClientOrphanInv DEF Marking, Stays
<1>13. ASSUME NEW c \in Clients, ClientRename(c) \/ ClientUpdateFails(c)
       PROVE  OrphanInv'
  <2>1. call[c] # NoCall /\ UNCHANGED <<sweep, orphans, missed>>
    BY <1>13
    DEF ClientRename, ClientUpdateFails, RenameTmp, RenameFails, UpdateFails
  <2>2. call[c].id \notin orphans
    BY <1>o, <2>1 DEF Marking
  <2>3. /\ \A id \in Tx \ {call[c].id} :
               txFile'[id] = txFile[id] /\ txTmp'[id] = txTmp[id]
        /\ call'[c] = NoCall
    BY <1>13, <1>t
    DEF ClientRename, ClientUpdateFails, RenameTmp, RenameFails, UpdateFails
  <2>4. \A d \in Clients : doing'[d].method = "rollback" =>
            doing[d].method = "rollback" /\ doing'[d].id = doing[d].id
    BY <1>13, <1>t
    DEF ClientRename, ClientUpdateFails, AfterSuccess, AfterError, Rollback,
        Idle
  <2>5. \A d \in Callers \ {c} : Stays(d, orphans')
    <3>1. CASE RenameTmp(c)
      BY <2>1, <2>2, <3>1, RenameStays DEF TypeInv, JournalInv
    <3>2. CASE RenameFails(c) \/ UpdateFails(c)
      BY <1>t, <3>2 DEF RenameFails, UpdateFails, Stays
    <3> QED
      BY <1>13, <3>1, <3>2 DEF ClientRename, ClientUpdateFails
  <2>6. \A i \in orphans : txTmp'[i] = txTmp[i] /\ StatusOf(i)' = StatusOf(i)
    BY <1>t, <2>2, <2>3 DEF StatusOf
  <2> QED
    BY <1>t, <1>o, <2>1, <2>3, <2>4, <2>5, <2>6, ClientOrphanInv DEF Marking
<1>14. ASSUME Signal
       PROVE  OrphanInv'
  <2>1. /\ sweep[StartupRecovery].phase = "done"
        /\ sweep[SignalHandler].phase = "off"
        /\ \A g \in Sweepers \ {SignalHandler} : sweep'[g] = sweep[g]
        /\ UNCHANGED <<txFile, txTmp, call, doing, orphans, missed>>
    BY <1>14, <1>t DEF Signal, SweepStart, managerVars
  <2> QED
    BY <2>1
    DEF OrphanInv, SweepersOnlyMark, RecoveryFirst, OrphansUntouched,
        OrphanTmpIsMark, OrphanCommitsKnown, Marking, StatusOf
<1>15. ASSUME NEW h \in Sweepers, Sweep(h)
       PROVE  OrphanInv'
  BY <1>15, SweepOrphanInv, SweepErrorOrphanInv DEF Sweep
<1>16. ASSUME Crash
       PROVE  OrphanInv'
  <2>1. /\ call' = [c \in Callers |-> NoCall]
        /\ sweep' = [h \in Sweepers |-> SweepOff]
        /\ doing' = [c \in Clients |-> Idle]
    BY <1>16 DEF Crash, JournalCrash
  <2> QED
    BY <2>1
    DEF OrphanInv, SweepersOnlyMark, RecoveryFirst, OrphansUntouched,
        OrphanTmpIsMark, OrphanCommitsKnown, Marking, SweepOff, Idle
<1>17. ASSUME UNCHANGED vars
       PROVE  OrphanInv'
  BY <1>17
  DEF vars, OrphanInv, SweepersOnlyMark, RecoveryFirst, OrphansUntouched,
      OrphanTmpIsMark, OrphanCommitsKnown, Marking, StatusOf
<1> QED
  BY <1>1, <1>2, <1>3, <1>4, <1>5, <1>6, <1>7, <1>8, <1>9, <1>10, <1>11, <1>12,
     <1>13, <1>14, <1>15, <1>16, <1>17
  DEF Next, ClientStep

\* When a run's recovery is over, no transaction that a crash left in
\* "committing" is still there, unless a client has taken it over or the
\* recovery has swallowed an error at it.
THEOREM OrphanCommitsAreMarked == Spec => []OrphanCommitsMarked
<1>1. OrphanInv => OrphanCommitsMarked
  BY DEF OrphanInv, OrphanCommitsKnown, OrphanCommitsMarked
<1> QED
  BY <1>1, InitTypeInv, NextTypeInv, InitOrphanInv, NextOrphanInv, PTL DEF Spec
=============================================================================
