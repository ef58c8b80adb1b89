------------------------- MODULE TransactionJournal -------------------------
(***************************************************************************)
(* The store behind TransactionManager (src/src/transaction/index.ts): one *)
(* JSON file per transaction, rewritten as a whole by updateTransaction.   *)
(*                                                                         *)
(* updateTransaction is not atomic.  It reads the file, merges the update  *)
(* in memory, opens a temporary file whose name depends on the             *)
(* transaction only, writes it and renames it over the file; every "await" *)
(* between these steps lets another flow of the process run.  Three kinds  *)
(* of flow call it: the Clients (an install, or a user of the API), the    *)
(* signal handler, and the recovery that runs when the store is first      *)
(* opened.                                                                 *)
(*                                                                         *)
(* This module has the store's variables and steps.  TransactionManager    *)
(* and Installer extend it and say who takes which step when.              *)
(***************************************************************************)
EXTENDS Naturals, Sequences

CONSTANTS
    Tx,               \* transaction ids
    Clients,          \* flows that create and update transactions
    SignalHandler,    \* the flow started by SIGINT or SIGTERM
    StartupRecovery,  \* the flow of _recoverOnStartup
    NoTx,             \* the transaction's file does not exist
    NoCall            \* the flow is not inside updateTransaction

Sweepers == {SignalHandler, StartupRecovery}
Callers == Clients \cup Sweepers

ASSUME CallersAssumption ==
    /\ SignalHandler # StartupRecovery
    /\ Sweepers \cap Clients = {}

VARIABLES
    txFile,     \* txFile[id]: the content of transactions/<id>.json, or NoTx
    txTmp,      \* txTmp[id]: the content of transactions/.<id>.tmp, or NoTx
    call,       \* call[c]: the updateTransaction call flow c is inside of
    sweep,      \* sweep[h]: progress of h through the transactions directory
    overlapped  \* history: transactions that two flows have written at once

journalVars == <<txFile, txTmp, call, sweep, overlapped>>

-----------------------------------------------------------------------------
Statuses == {"pending", "preparing", "snapshotting", "executing", "writing",
             "committing", "committed", "failed", "rolling-back",
             "rolled-back", "recovery-required"}

TerminalStatuses == {"committed", "rolled-back", "failed"}

\* The journal is the sequence of statuses of its entries; the other fields
\* of a transaction carry no control.
TxRecord == [status : Statuses, journal : Seq(Statuses)]

\* What a file may hold instead, which JSON.parse refuses: nothing, between
\* the opening of the file and the write; or the end of a longer record after
\* a shorter one, when two writes went to one file.
Truncated == [status |-> "truncated", journal |-> <<>>]
Garbled == [status |-> "garbled", journal |-> <<>>]
TxContents == TxRecord \cup {Truncated, Garbled}

\* The steps of a call: it has merged the update; it has opened the temporary
\* file, which is still in its place, or has been renamed over the record, or
\* replaced and deleted since; it has written it.
OpenedAt == {"tmp", "file", "gone"}
Calls == [step : {"merged", "written"} \cup OpenedAt, id : Tx, rec : TxRecord]

Sweeps == [phase : {"off", "list", "scan", "mark", "done"},
           aged : SUBSET Tx, unread : SUBSET Tx, marks : SUBSET Tx]

SweepOff == [phase |-> "off", aged |-> {}, unread |-> {}, marks |-> {}]

\* The absence of a file is not a content, that of a call not a call.
ASSUME AbsenceAssumption == NoTx \notin TxContents /\ NoCall \notin Calls

JournalTypeOK ==
    /\ txFile \in [Tx -> TxContents \cup {NoTx}]
    /\ txTmp \in [Tx -> TxContents \cup {NoTx}]
    /\ call \in [Callers -> Calls \cup {NoCall}]
    /\ sweep \in [Sweepers -> Sweeps]
    /\ overlapped \subseteq Tx

JournalInit ==
    /\ txFile = [id \in Tx |-> NoTx]
    /\ txTmp = [id \in Tx |-> NoTx]
    /\ call = [c \in Callers |-> NoCall]
    /\ sweep = [h \in Sweepers |-> SweepOff]
    /\ overlapped = {}

Persisted == {id \in Tx : txFile[id] # NoTx}
Readable(id) == txFile[id] \in TxRecord
IsTerminal(id) == txFile[id] # NoTx /\ txFile[id].status \in TerminalStatuses
StatusOf(id) == IF txFile[id] = NoTx THEN "none" ELSE txFile[id].status

-----------------------------------------------------------------------------
\* Mutant of NewTx: the name of the stage is taken for the status.
NewTxStage == [status |-> "created", journal |-> <<"created">>]

NewTx == [status |-> "pending", journal |-> <<"pending">>]

\* Flow c is between the opening of the temporary file and its rename.
Writes(c, id) == call[c] # NoCall /\ call[c].id = id /\ call[c].step # "merged"

\* The record is on disk before createTransaction returns.  Nobody else knows
\* the fresh id, so its temporary file is not shared and the step is atomic.
CreateTransaction(id) ==
    /\ txFile[id] = NoTx
    /\ txFile' = [txFile EXCEPT ![id] = NewTx]
    /\ UNCHANGED <<txTmp, call, sweep, overlapped>>

\* rm: a call that has the file open writes on, into a file without a name.
DeleteTransaction(id) ==
    /\ txFile' = [txFile EXCEPT ![id] = NoTx]
    /\ call' = [c \in Callers |-> IF Writes(c, id) /\ call[c].step = "file"
                                   THEN [call[c] EXCEPT !.step = "gone"]
                                   ELSE call[c]]
    /\ UNCHANGED <<txTmp, sweep, overlapped>>

\* An entry is appended only when the status changes.
WithStatus(rec, st) ==
    IF st = rec.status THEN rec
    ELSE [status |-> st, journal |-> Append(rec.journal, st)]

\* updateTransaction, first step: read the file and merge the update.
ReadForUpdate(c, id, st) ==
    /\ call[c] = NoCall
    /\ Readable(id)
    /\ call' = [call EXCEPT ![c] = [step |-> "merged", id |-> id,
                                    rec |-> WithStatus(txFile[id], st)]]
    /\ UNCHANGED <<txFile, txTmp, overlapped>>

\* Mutant of OpenTmp: the record's own file is opened and overwritten.
OpenInPlace(c) ==
    /\ call[c] # NoCall
    /\ call[c].step = "merged"
    /\ txFile' = [txFile EXCEPT ![call[c].id] = Truncated]
    /\ call' = [call EXCEPT ![c].step = "file"]
    /\ UNCHANGED <<txTmp, sweep, overlapped>>

\* Second step: writeFile opens the temporary file, which empties it, whoever
\* wrote to it or is about to.
OpenTmp(c) ==
    /\ call[c] # NoCall
    /\ call[c].step = "merged"
    /\ txTmp' = [txTmp EXCEPT ![call[c].id] = Truncated]
    /\ call' = [call EXCEPT ![c].step = "tmp"]
    /\ overlapped' = overlapped \cup
          {id \in {call[c].id} : \E d \in Callers \ {c} : Writes(d, id)}
    /\ UNCHANGED <<txFile, sweep>>

\* What the file holds when rec has been written from its start: a shorter
\* record leaves the end of a longer one behind it.
Overwritten(old, rec) == {rec} \cup {g \in {Garbled} : old # Truncated}

\* Third step: it writes the record to the file it opened, under whatever name
\* this file has by now.
FillTmp(c) ==
    /\ call[c] # NoCall
    /\ \/ /\ call[c].step = "tmp"
          /\ \E new \in Overwritten(txTmp[call[c].id], call[c].rec) :
                txTmp' = [txTmp EXCEPT ![call[c].id] = new]
          /\ UNCHANGED txFile
       \/ /\ call[c].step = "file"
          /\ \E new \in Overwritten(txFile[call[c].id], call[c].rec) :
                txFile' = [txFile EXCEPT ![call[c].id] = new]
          /\ UNCHANGED txTmp
       \/ /\ call[c].step = "gone"
          /\ UNCHANGED <<txFile, txTmp>>
    /\ call' = [call EXCEPT ![c].step = "written"]
    /\ UNCHANGED <<sweep, overlapped>>

\* Where the file that a call has open is once the temporary file is renamed.
Moved(step) == CASE step = "tmp" -> "file" [] step = "file" -> "gone"
                 [] OTHER -> step

\* Last step: rename the temporary file, whoever opened or wrote it last.
RenameTmp(c) ==
    /\ call[c] # NoCall
    /\ call[c].step = "written"
    /\ LET id == call[c].id
       IN  /\ txTmp[id] # NoTx
           /\ txFile' = [txFile EXCEPT ![id] = txTmp[id]]
           /\ txTmp' = [txTmp EXCEPT ![id] = NoTx]
           /\ call' = [d \in Callers |->
                 IF d = c THEN NoCall
                 ELSE IF Writes(d, id)
                      THEN [call[d] EXCEPT !.step = Moved(call[d].step)]
                      ELSE call[d]]
    /\ UNCHANGED <<sweep, overlapped>>

\* Another flow renamed the shared temporary file first: ENOENT is thrown.
RenameFails(c) ==
    /\ call[c] # NoCall
    /\ call[c].step = "written"
    /\ txTmp[call[c].id] = NoTx
    /\ call' = [call EXCEPT ![c] = NoCall]
    /\ UNCHANGED <<txFile, txTmp, sweep, overlapped>>

\* The temporary file cannot be opened, written or renamed (disk full,
\* permissions); what was opened stays as it is.
UpdateFails(c) ==
    /\ call[c] # NoCall
    /\ call' = [call EXCEPT ![c] = NoCall]
    /\ UNCHANGED <<txFile, txTmp, sweep, overlapped>>

-----------------------------------------------------------------------------
(* A sweep lists the directory and reads every file in it                  *)
(* (getActiveTransactions), then marks the chosen transactions             *)
(* recovery-required one after the other.                                  *)

\* Transactions that an earlier run left may have started more than 24 hours
\* ago; which ones is left open.
SweepStart(h) ==
    /\ sweep[h].phase = "off"
    /\ \E aged \in SUBSET Persisted :
          /\ h = SignalHandler => aged = {}
          /\ sweep' = [sweep EXCEPT
                 ![h] = [@ EXCEPT !.phase = "list", !.aged = aged]]
    /\ UNCHANGED <<txFile, txTmp, call, overlapped>>

SweepList(h) ==
    /\ sweep[h].phase = "list"
    /\ sweep' = [sweep EXCEPT ![h].phase = "scan", ![h].unread = Persisted]
    /\ UNCHANGED <<txFile, txTmp, call, overlapped>>

\* Mutant of Selected: the recovery looks for aged transactions alone.
SelectedAged(h, id) ==
    /\ Readable(id)
    /\ ~IsTerminal(id)
    /\ h = SignalHandler \/ id \in sweep[h].aged

\* The signal handler marks every transaction it saw active; the recovery
\* those it saw committing, and the aged ones.
Selected(h, id) ==
    /\ Readable(id)
    /\ ~IsTerminal(id)
    /\ \/ h = SignalHandler
       \/ id \in sweep[h].aged
       \/ txFile[id].status = "committing"

\* What h knows when it has read the file of id.
AfterRead(h, id) ==
    [sweep[h] EXCEPT
        !.unread = sweep[h].unread \ {id},
        !.marks = IF Selected(h, id) THEN sweep[h].marks \cup {id}
                                     ELSE sweep[h].marks]

SweepRead(h) ==
    /\ sweep[h].phase = "scan"
    /\ \E id \in sweep[h].unread :
          sweep' = [sweep EXCEPT ![h] = AfterRead(h, id)]
    /\ UNCHANGED <<txFile, txTmp, call, overlapped>>

SweepScanned(h) ==
    /\ sweep[h].phase = "scan"
    /\ sweep[h].unread = {}
    /\ sweep' = [sweep EXCEPT ![h].phase = "mark", ![h].aged = {}]
    /\ UNCHANGED <<txFile, txTmp, call, overlapped>>

\* markRecoveryRequired reads the file again, whatever its status is by now.
SweepMark(h) ==
    /\ sweep[h].phase = "mark"
    /\ \E id \in sweep[h].marks :
          /\ ReadForUpdate(h, id, "recovery-required")
          /\ sweep' = [sweep EXCEPT ![h].marks = @ \ {id}]

\* The file is gone or does not parse: updateTransaction throws and the sweep
\* goes on.
SweepSkip(h) ==
    /\ sweep[h].phase = "mark"
    /\ call[h] = NoCall
    /\ \E id \in sweep[h].marks :
          /\ ~Readable(id)
          /\ sweep' = [sweep EXCEPT ![h].marks = @ \ {id}]
    /\ UNCHANGED <<txFile, txTmp, call, overlapped>>

SweepEnd(h) ==
    /\ sweep[h].phase = "mark"
    /\ sweep[h].marks = {}
    /\ call[h] = NoCall
    /\ sweep' = [sweep EXCEPT ![h].phase = "done"]
    /\ UNCHANGED <<txFile, txTmp, call, overlapped>>

SweepStep(h) ==
    \/ SweepList(h) \/ SweepRead(h) \/ SweepScanned(h) \/ SweepMark(h)
    \/ SweepSkip(h) \/ SweepEnd(h)
    \/ OpenTmp(h) \/ FillTmp(h) \/ RenameTmp(h) \/ RenameFails(h)

\* Every error of a sweep is swallowed.  The directory cannot be read: it has
\* no file then.
SweepListFails(h) ==
    /\ sweep[h].phase = "list"
    /\ sweep' = [sweep EXCEPT ![h].phase = "scan"]
    /\ UNCHANGED <<txFile, txTmp, call, overlapped>>

\* The file of id cannot be read, be it before it is chosen or when it is to
\* be marked, or the mark cannot be written: the sweep goes on without id.
SweepMisses(h, id) ==
    \/ /\ \/ /\ sweep[h].phase = "scan"
             /\ id \in sweep[h].unread
             /\ sweep' = [sweep EXCEPT ![h].unread = @ \ {id}]
          \/ /\ sweep[h].phase = "mark"
             /\ call[h] = NoCall
             /\ id \in sweep[h].marks
             /\ sweep' = [sweep EXCEPT ![h].marks = @ \ {id}]
       /\ UNCHANGED <<txFile, txTmp, call, overlapped>>
    \/ UpdateFails(h) /\ id = call[h].id

\* The process dies: its flows are gone, the files stay.
JournalCrash ==
    /\ call' = [c \in Callers |-> NoCall]
    /\ sweep' = [h \in Sweepers |-> SweepOff]
    /\ UNCHANGED <<txFile, txTmp, overlapped>>

-----------------------------------------------------------------------------
WellFormed(rec) ==
    /\ rec.journal # <<>>
    /\ rec.journal[Len(rec.journal)] = rec.status
    /\ \A i \in 1 .. Len(rec.journal) - 1 : rec.journal[i] # rec.journal[i + 1]

\* Whatever updates are lost to each other, to errors or to a crash, the
\* record on disk is one that a sequence of updates produces: its journal ends
\* in its status and never repeats an entry.  It is no record at all only when
\* two flows have written it at once, one of which renamed the temporary file
\* that the other had just emptied; a crash or an error alone never leaves one
\* like that (_writeTransaction).
JournalConsistent ==
    \A id \in Persisted :
        IF Readable(id) THEN WellFormed(txFile[id]) ELSE id \in overlapped
=============================================================================
