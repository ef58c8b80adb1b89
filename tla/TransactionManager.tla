------------------------- MODULE TransactionManager -------------------------
(***************************************************************************)
(* TransactionManager as its users see it: flows of one process that open  *)
(* the store, create transactions, mark them, roll them back, delete them  *)
(* and clean up, in any order and concurrently, with the signal handler    *)
(* and the startup recovery beside them, and with crashes of the process.  *)
(***************************************************************************)
EXTENDS TransactionJournal

CONSTANTS
    Marks,        \* the statuses that the clients' mark* calls set
    MaxJournal,   \* bound: a client marks no record with a longer journal
    MaxCrashes    \* bound: crashes of the process in one behaviour

ASSUME ManagerAssumption ==
    /\ Marks \subseteq Statuses
    /\ MaxJournal \in Nat
    /\ MaxCrashes \in Nat

VARIABLES
    issued,    \* ids that the id generator has given out: it never repeats one
    doing,     \* doing[c]: the method of the manager flow c is inside of
    crashes,   \* how often the process has crashed
    orphans,   \* history: transactions a crash left in "committing" that no
               \* client has touched since
    missed     \* history: orphans at which the recovery of this run has
               \* swallowed an error

historyVars == <<orphans, missed>>
managerVars == <<issued, doing, crashes, historyVars>>
vars == <<txFile, txTmp, call, sweep, overlapped, issued, doing, crashes,
          orphans, missed>>

-----------------------------------------------------------------------------
Idle == [method |-> "none"]
Opening == [method |-> "initialize"]
Updating == [method |-> "update"]
Removing(id) == [method |-> "cleanup", id |-> id]
Rollback(stage, id) == [method |-> "rollback", stage |-> stage, id |-> id]

RollbackStages == {"mark", "marking", "run", "finish", "finishing", "recover",
                   "recovering"}

Doings == {Idle, Opening, Updating}
          \cup {Removing(id) : id \in Tx}
          \cup {Rollback(s, id) : s \in RollbackStages, id \in Tx}

TypeOK ==
    /\ JournalTypeOK
    /\ issued \subseteq Tx
    /\ doing \in [Clients -> Doings]
    /\ crashes \in 0 .. MaxCrashes
    /\ orphans \subseteq Tx
    /\ missed \subseteq Tx

Init ==
    /\ JournalInit
    /\ issued = {}
    /\ doing = [c \in Clients |-> Idle]
    /\ crashes = 0
    /\ orphans = {}
    /\ missed = {}

-----------------------------------------------------------------------------
\* ensureInitialized: the first caller opens the store and waits for the
\* recovery.  The directory is known before the recovery starts, so later
\* callers find the store initialized and go on beside it.
Opened == sweep[StartupRecovery].phase # "off"
Free(c) == doing[c] = Idle /\ Opened

Initialize(c) ==
    /\ doing[c] = Idle
    /\ SweepStart(StartupRecovery)
    /\ doing' = [doing EXCEPT ![c] = Opening]
    /\ UNCHANGED <<issued, crashes, historyVars>>

Initialized(c) ==
    /\ doing[c] = Opening
    /\ sweep[StartupRecovery].phase = "done"
    /\ doing' = [doing EXCEPT ![c] = Idle]
    /\ UNCHANGED <<issued, crashes, historyVars>>
    /\ UNCHANGED journalVars

Create(c, id) ==
    /\ Free(c)
    /\ id \notin issued
    /\ CreateTransaction(id)
    /\ issued' = issued \cup {id}
    /\ UNCHANGED <<doing, crashes, historyVars>>

\* updateTransaction and the mark* methods built on it.
Mark(c, id, st) ==
    /\ Free(c)
    /\ Readable(id)
    /\ Len(txFile[id].journal) < MaxJournal
    /\ ReadForUpdate(c, id, st)
    /\ doing' = [doing EXCEPT ![c] = Updating]
    /\ orphans' = orphans \ {id}
    /\ UNCHANGED <<sweep, issued, crashes, missed>>

Delete(c, id) ==
    /\ Free(c)
    /\ DeleteTransaction(id)
    /\ orphans' = orphans \ {id}
    /\ UNCHANGED <<issued, doing, crashes, missed>>

\* cleanupStale, one file: the status is read first and the file removed
\* after; whether the file is old enough is left open.
CleanupCheck(c, id) ==
    /\ Free(c)
    /\ IsTerminal(id)
    /\ doing' = [doing EXCEPT ![c] = Removing(id)]
    /\ UNCHANGED <<issued, crashes, historyVars>>
    /\ UNCHANGED journalVars

CleanupRemove(c) ==
    /\ doing[c].method = "cleanup"
    /\ DeleteTransaction(doing[c].id)
    /\ orphans' = orphans \ {doing[c].id}
    /\ doing' = [doing EXCEPT ![c] = Idle]
    /\ UNCHANGED <<issued, crashes, missed>>

-----------------------------------------------------------------------------
\* rollbackIdempotent: returns at once when the transaction is rolled back.
RollbackStart(c, id) ==
    /\ Free(c)
    /\ Readable(id)
    /\ txFile[id].status # "rolled-back"
    /\ Len(txFile[id].journal) < MaxJournal
    /\ doing' = [doing EXCEPT ![c] = Rollback("mark", id)]
    /\ orphans' = orphans \ {id}
    /\ UNCHANGED <<issued, crashes, missed>>
    /\ UNCHANGED journalVars

InRollback(c, stage) ==
    doing[c].method = "rollback" /\ doing[c].stage = stage

\* The three updates of a rollback: the stage it is made in, the status it
\* sets and the stage after the read.
RollbackUpdates == {<<"mark", "rolling-back", "marking">>,
                    <<"finish", "rolled-back", "finishing">>,
                    <<"recover", "recovery-required", "recovering">>}

\* Once an update of a rollback is over: the function runs after the first,
\* the method returns after the others; an error of the first leaves the
\* method, an error of the second is caught like one of the function.
AfterSuccess(d) ==
    CASE d.method = "rollback" /\ d.stage = "marking" -> Rollback("run", d.id)
      [] OTHER -> Idle

AfterError(d) ==
    CASE d.method = "rollback" /\ d.stage = "finishing" ->
             Rollback("recover", d.id)
      [] OTHER -> Idle

RollbackMark(c) ==
    \E u \in RollbackUpdates :
        /\ InRollback(c, u[1])
        /\ ReadForUpdate(c, doing[c].id, u[2])
        /\ doing' = [doing EXCEPT ![c].stage = u[3]]
        /\ UNCHANGED <<sweep, issued, crashes, historyVars>>

\* The file was removed meanwhile, or does not parse: updateTransaction throws.
RollbackMissing(c) ==
    \E u \in RollbackUpdates :
        /\ InRollback(c, u[1])
        /\ ~Readable(doing[c].id)
        /\ doing' = [doing EXCEPT
                        ![c] = AfterError(Rollback(u[3], doing[c].id))]
        /\ UNCHANGED <<issued, crashes, historyVars>>
        /\ UNCHANGED journalVars

\* The caller's function undoes the work, or throws.
RollbackRun(c) ==
    /\ InRollback(c, "run")
    /\ \E stage \in {"finish", "recover"} :
          doing' = [doing EXCEPT ![c].stage = stage]
    /\ UNCHANGED <<issued, crashes, historyVars>>
    /\ UNCHANGED journalVars

ClientWrite(c) ==
    /\ OpenTmp(c) \/ FillTmp(c)
    /\ UNCHANGED managerVars

ClientRename(c) ==
    /\ RenameTmp(c)
    /\ doing' = [doing EXCEPT ![c] = AfterSuccess(doing[c])]
    /\ UNCHANGED <<issued, crashes, historyVars>>

ClientUpdateFails(c) ==
    /\ RenameFails(c) \/ UpdateFails(c)
    /\ doing' = [doing EXCEPT ![c] = AfterError(doing[c])]
    /\ UNCHANGED <<issued, crashes, historyVars>>

\* Steps that finish what flow c has begun.
ClientStep(c) ==
    \/ Initialized(c)
    \/ CleanupRemove(c)
    \/ RollbackMark(c) \/ RollbackMissing(c) \/ RollbackRun(c)
    \/ ClientWrite(c) \/ ClientRename(c) \/ ClientUpdateFails(c)

\* The handlers are installed when the recovery is over.
Signal ==
    /\ sweep[StartupRecovery].phase = "done"
    /\ SweepStart(SignalHandler)
    /\ UNCHANGED managerVars

\* The orphans that the recovery misses are remembered.
Misses(h, ids) ==
    /\ missed' = IF h = StartupRecovery THEN missed \cup (ids \cap orphans)
                                        ELSE missed
    /\ UNCHANGED <<issued, doing, crashes, orphans>>

Sweep(h) ==
    \/ SweepStep(h) /\ UNCHANGED managerVars
    \/ SweepListFails(h) /\ Misses(h, Tx)
    \/ \E id \in Tx : SweepMisses(h, id) /\ Misses(h, {id})

Crash ==
    /\ Opened
    /\ crashes < MaxCrashes
    /\ JournalCrash
    /\ crashes' = crashes + 1
    /\ doing' = [c \in Clients |-> Idle]
    /\ orphans' = {id \in Tx : StatusOf(id) = "committing"}
    /\ missed' = {}
    /\ UNCHANGED issued

Next ==
    \/ \E c \in Clients :
          \/ Initialize(c)
          \/ ClientStep(c)
          \/ \E id \in Tx :
                \/ Create(c, id) \/ Delete(c, id)
                \/ CleanupCheck(c, id) \/ RollbackStart(c, id)
                \/ \E st \in Marks : Mark(c, id, st)
    \/ Signal
    \/ \E h \in Sweepers : Sweep(h)
    \/ Crash

\* What has begun goes on: no flow waits for anything but its own file
\* operations.  The store is opened again after a crash when the program is
\* run again.
Fairness ==
    /\ \A c \in Clients : WF_vars(ClientStep(c)) /\ WF_vars(Initialize(c))
    /\ \A h \in Sweepers : WF_vars(Sweep(h))

Spec == Init /\ [][Next]_vars
FairSpec == Spec /\ Fairness

-----------------------------------------------------------------------------
\* When the recovery of a run is over, no transaction that an earlier run
\* left in "committing" is still in it, whatever the other flows did to its
\* file meanwhile; but for those at which the recovery swallowed an error, of
\* the directory, of a file or of the write of a mark (_recoverOnStartup).
OrphanCommitsMarked ==
    sweep[StartupRecovery].phase = "done" =>
        \A id \in orphans \ missed : StatusOf(id) # "committing"

\* Why it holds, as an inductive invariant.  The signal handler cannot start
\* before the recovery is over and no client is inside an update or a rollback
\* of an orphan, so that until it is marked the orphan is known to the
\* recovery: listed but not read, chosen, or being marked.
Marking(h, id) == call[h] # NoCall /\ call[h].id = id

SweepersOnlyMark ==
    \A h \in Sweepers : call[h] # NoCall =>
        /\ sweep[h].phase = "mark"
        /\ call[h].rec.status = "recovery-required"

RecoveryFirst ==
    sweep[StartupRecovery].phase # "done" =>
        /\ sweep[SignalHandler].phase = "off"
        /\ call[SignalHandler] = NoCall

OrphansUntouched ==
    \A id \in orphans, c \in Clients :
        /\ ~Marking(c, id)
        /\ doing[c].method = "rollback" => doing[c].id # id

\* The temporary file that a sweeper is about to rename over an orphan's file
\* is one that a sweeper wrote, and the recovery's is still there.
OrphanTmpIsMark ==
    \A id \in orphans, h \in Sweepers :
        Marking(h, id) /\ call[h].step # "merged" =>
            /\ txTmp[id] # NoTx => txTmp[id].status # "committing"
            /\ h = StartupRecovery => txTmp[id] # NoTx

OrphanCommitsKnown ==
    \A id \in orphans \ missed : StatusOf(id) = "committing" =>
        LET recovery == sweep[StartupRecovery]
        IN  CASE recovery.phase = "scan" ->
                    id \in recovery.unread \cup recovery.marks
              [] recovery.phase = "mark" ->
                    id \in recovery.marks \/ Marking(StartupRecovery, id)
              [] recovery.phase = "done" -> FALSE
              [] OTHER -> TRUE

OrphanInv ==
    /\ SweepersOnlyMark
    /\ RecoveryFirst
    /\ OrphansUntouched
    /\ OrphanTmpIsMark
    /\ OrphanCommitsKnown

\* A crash during commit is noticed: the next run does not leave the
\* transaction in "committing" for ever, unless a client takes it over or the
\* recovery swallows an error at it.
OrphanCommitsRecovered ==
    \A id \in Tx :
        id \in orphans
            ~> (id \notin orphans \ missed \/ StatusOf(id) # "committing")
=============================================================================
