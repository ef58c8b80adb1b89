----------------------- MODULE TransactionJournalProofs -----------------------
(***************************************************************************)
(* The steps of the store preserve its types and the consistency of every  *)
(* record: of those on disk, and of those that a flow holds in memory or   *)
(* has written to a temporary file, since a rename may bring any of them   *)
(* to disk.  A transaction that two flows have never written at once has   *)
(* one writer at most, whose temporary file is empty until it is written,  *)
(* and then whole.  The theorems about TransactionManager and Installer    *)
(* rest on these lemmas.                                                   *)
(***************************************************************************)
EXTENDS TransactionJournal, TLAPS

\* Every record that is on disk or may still get there is consistent.
RecordsWellFormed ==
    /\ \A id \in Tx : txFile[id] \in TxRecord => WellFormed(txFile[id])
    /\ \A id \in Tx : txTmp[id] \in TxRecord => WellFormed(txTmp[id])
    /\ \A c \in Callers : call[c] # NoCall => WellFormed(call[c].rec)

\* The temporary file that flow c has open is the one in its place.
WritesAlone(c, id) ==
    /\ call[c].step \in {"tmp", "written"}
    /\ call[c].step = "tmp" => txTmp[id] = Truncated
    /\ call[c].step = "written" => txTmp[id] \in TxRecord

SoleWriters ==
    \A id \in Tx \ overlapped :
        /\ txFile[id] \in TxRecord \cup {NoTx}
        /\ \A c \in Callers, d \in Callers :
               Writes(c, id) /\ Writes(d, id) => c = d
        /\ \A c \in Callers : Writes(c, id) => WritesAlone(c, id)

JournalInv == JournalTypeOK /\ RecordsWellFormed /\ SoleWriters

-----------------------------------------------------------------------------
\* Setting a status yields a record, with a consistent journal.
LEMMA WithStatusWellFormed ==
    ASSUME NEW rec \in TxRecord, WellFormed(rec), NEW st \in Statuses
    PROVE  /\ WithStatus(rec, st) \in TxRecord
           /\ WellFormed(WithStatus(rec, st))
<1>1. CASE st = rec.status
  BY <1>1 DEF WithStatus
<1>2. CASE st # rec.status
  <2> DEFINE new == WithStatus(rec, st)
  <2>1. new = [status |-> st, journal |-> Append(rec.journal, st)]
    BY <1>2 DEF WithStatus
  <2>2. rec.journal \in Seq(Statuses) /\ rec.status \in Statuses
    BY DEF TxRecord
  <2>3. new \in TxRecord
    BY <2>1, <2>2 DEF TxRecord
  <2>4. /\ Len(new.journal) = Len(rec.journal) + 1
        /\ new.journal[Len(new.journal)] = st
        /\ \A i \in 1 .. Len(rec.journal) : new.journal[i] = rec.journal[i]
    BY <2>1, <2>2
  <2>5. \A i \in 1 .. Len(new.journal) - 1 :
           new.journal[i] # new.journal[i + 1]
    <3> SUFFICES ASSUME NEW i \in 1 .. Len(rec.journal)
                 PROVE  new.journal[i] # new.journal[i + 1]
      BY <2>2, <2>4
    <3>1. CASE i = Len(rec.journal)
      BY <1>2, <2>2, <2>4, <3>1 DEF WellFormed
    <3>2. CASE i # Len(rec.journal)
      BY <2>2, <2>4, <3>2 DEF WellFormed
    <3> QED
      BY <3>1, <3>2
  <2>6. new.journal # <<>>
    BY <2>1, <2>2, <2>4
  <2> QED
    BY <2>1, <2>3, <2>4, <2>5, <2>6 DEF WellFormed
<1> QED
  BY <1>1, <1>2

\* A new transaction is a consistent record.
LEMMA NewTxWellFormed == NewTx \in TxRecord /\ WellFormed(NewTx)
  BY DEF NewTx, TxRecord, Statuses, WellFormed

-----------------------------------------------------------------------------
LEMMA ContentsDistinct ==
    /\ Truncated \notin TxRecord /\ Garbled \notin TxRecord
    /\ Truncated \in TxContents /\ Garbled \in TxContents
    /\ TxRecord \subseteq TxContents
    /\ NoTx \notin TxRecord /\ NoTx # Truncated
  BY AbsenceAssumption
  DEF Truncated, Garbled, TxContents, TxRecord, Statuses

LEMMA JournalInitInv == JournalInit => JournalInv
  BY AbsenceAssumption, ContentsDistinct
  DEF JournalInit, JournalInv, JournalTypeOK, RecordsWellFormed, SoleWriters,
      Sweeps, SweepOff, Writes

LEMMA CreateInv ==
    ASSUME JournalInv, NEW id \in Tx, CreateTransaction(id)
    PROVE  JournalInv'
<1>1. JournalTypeOK'
  BY NewTxWellFormed, ContentsDistinct
  DEF CreateTransaction, JournalInv, JournalTypeOK
<1>2. RecordsWellFormed'
  BY NewTxWellFormed
  DEF CreateTransaction, JournalInv, JournalTypeOK, RecordsWellFormed, WellFormed
<1>3. SoleWriters'
  BY NewTxWellFormed
  DEF CreateTransaction, JournalInv, JournalTypeOK, SoleWriters, Writes,
      WritesAlone
<1> QED
  BY <1>1, <1>2, <1>3 DEF JournalInv

\* The read of an update changes only the caller's local record; sweep is
\* left to the step that contains it.
LEMMA ReadInv ==
    ASSUME JournalInv, NEW c \in Callers, NEW id \in Tx, NEW st \in Statuses,
           ReadForUpdate(c, id, st), sweep' \in [Sweepers -> Sweeps]
    PROVE  JournalInv'
<1> DEFINE rec == WithStatus(txFile[id], st)
           new == [step |-> "merged", id |-> id, rec |-> rec]
<1>1. txFile[id] \in TxRecord /\ WellFormed(txFile[id])
  BY DEF ReadForUpdate, Readable, JournalInv, RecordsWellFormed
<1>2. rec \in TxRecord /\ WellFormed(rec)
  BY <1>1, WithStatusWellFormed
<1> HIDE DEF rec
<1>3. call' = [call EXCEPT ![c] = new]
  BY DEF ReadForUpdate, rec
<1>4. new \in Calls /\ new.rec = rec /\ new.step = "merged"
  BY <1>2 DEF Calls
<1> HIDE DEF new
<1>5. UNCHANGED <<txFile, txTmp, overlapped>>
  BY DEF ReadForUpdate
<1>t. call \in [Callers -> Calls \cup {NoCall}]
  BY DEF JournalInv, JournalTypeOK
<1>6. \A d \in Callers : call'[d] = IF d = c THEN new ELSE call[d]
  BY <1>3, <1>t
<1>7. JournalTypeOK'
  BY <1>3, <1>4, <1>5 DEF JournalInv, JournalTypeOK
<1>8. RecordsWellFormed'
  BY <1>2, <1>4, <1>5, <1>6 DEF JournalInv, RecordsWellFormed, WellFormed
<1>9. \A d \in Callers, i \in Tx :
         Writes(d, i)' => Writes(d, i) /\ call'[d] = call[d]
  BY <1>4, <1>6 DEF Writes
<1>10. SoleWriters'
  BY <1>5, <1>9 DEF JournalInv, SoleWriters, WritesAlone
<1> QED
  BY <1>7, <1>8, <1>10 DEF JournalInv

\* A call goes to its next step, with its id and its record.
LEMMA CallGoesOn ==
    ASSUME JournalTypeOK, NEW c \in Callers, call[c] # NoCall,
           NEW step \in {"merged", "written"} \cup OpenedAt,
           call' = [call EXCEPT ![c].step = step]
    PROVE  /\ call' \in [Callers -> Calls \cup {NoCall}]
           /\ \A d \in Callers \ {c} : call'[d] = call[d]
           /\ call'[c] # NoCall /\ call'[c].step = step
           /\ call'[c].id = call[c].id /\ call[c].id \in Tx
           /\ call'[c].rec = call[c].rec /\ call[c].rec \in TxRecord
<1>1. call \in [Callers -> Calls \cup {NoCall}] /\ call[c] \in Calls
  BY DEF JournalTypeOK
<1>2. call' = [call EXCEPT ![c] = [call[c] EXCEPT !.step = step]]
  OBVIOUS
<1> DEFINE new == [call[c] EXCEPT !.step = step]
<1>3. /\ new \in Calls /\ new.step = step
      /\ new.id = call[c].id /\ new.rec = call[c].rec
      /\ call[c].id \in Tx /\ call[c].rec \in TxRecord
  BY <1>1 DEF Calls
<1>4. new # NoCall
  BY <1>3, AbsenceAssumption
<1> HIDE DEF new
<1>5. call' = [call EXCEPT ![c] = new]
  BY <1>2 DEF new
<1> QED
  BY <1>1, <1>3, <1>4, <1>5

LEMMA OpenTmpInv ==
    ASSUME JournalInv, NEW c \in Callers, OpenTmp(c)
    PROVE  JournalInv'
<1> DEFINE id == call[c].id
<1>0. call[c] # NoCall /\ call' = [call EXCEPT ![c].step = "tmp"]
  BY DEF OpenTmp
<1>1. /\ call' \in [Callers -> Calls \cup {NoCall}]
      /\ \A d \in Callers \ {c} : call'[d] = call[d]
      /\ call'[c] # NoCall /\ call'[c].step = "tmp" /\ call'[c].id = id
      /\ call'[c].rec = call[c].rec /\ id \in Tx
  BY <1>0, CallGoesOn DEF JournalInv, OpenedAt
<1>2. /\ txTmp' = [txTmp EXCEPT ![id] = Truncated] /\ UNCHANGED <<txFile, sweep>>
      /\ overlapped' = overlapped \cup
            {i \in {id} : \E d \in Callers \ {c} : Writes(d, i)}
  BY DEF OpenTmp
<1> HIDE DEF id
<1>3. JournalTypeOK'
  BY <1>1, <1>2, ContentsDistinct DEF JournalInv, JournalTypeOK
<1>4. RecordsWellFormed'
  <2>1. \A i \in Tx : txTmp'[i] \in TxRecord => WellFormed(txTmp'[i])
    BY <1>1, <1>2, ContentsDistinct
    DEF JournalInv, JournalTypeOK, RecordsWellFormed
  <2>2. \A d \in Callers : call'[d] # NoCall => WellFormed(call'[d].rec)
    BY <1>0, <1>1 DEF JournalInv, RecordsWellFormed
  <2>3. \A i \in Tx : txFile'[i] \in TxRecord => WellFormed(txFile'[i])
    BY <1>2 DEF JournalInv, RecordsWellFormed
  <2> QED
    BY <2>1, <2>2, <2>3 DEF RecordsWellFormed, WellFormed
<1>5. SoleWriters'
  <2> SUFFICES ASSUME NEW i \in Tx, i \notin overlapped'
               PROVE  /\ txFile'[i] \in TxRecord \cup {NoTx}
                      /\ \A e \in Callers, d \in Callers :
                             Writes(e, i)' /\ Writes(d, i)' => e = d
                      /\ \A d \in Callers : Writes(d, i)' => WritesAlone(d, i)'
    BY DEF SoleWriters
  <2>1. /\ txFile'[i] \in TxRecord \cup {NoTx}
        /\ \A e \in Callers, d \in Callers :
               Writes(e, i) /\ Writes(d, i) => e = d
        /\ \A d \in Callers : Writes(d, i) => WritesAlone(d, i)
    BY <1>2 DEF JournalInv, SoleWriters
  <2>2. CASE i = id
    <3>1. \A d \in Callers \ {c} : ~Writes(d, i)'
      BY <1>1, <1>2, <2>2 DEF Writes
    <3>2. WritesAlone(c, i)'
      BY <1>1, <1>2, <2>2, ContentsDistinct
      DEF WritesAlone, JournalInv, JournalTypeOK
    <3> QED
      BY <2>1, <3>1, <3>2
  <2>3. CASE i # id
    <3>1. \A d \in Callers : Writes(d, i)' => Writes(d, i) /\ d # c
      BY <1>1, <2>3 DEF Writes
    <3>2. \A d \in Callers : Writes(d, i)' => WritesAlone(d, i)'
      BY <1>1, <1>2, <2>1, <2>3, <3>1
      DEF WritesAlone, JournalInv, JournalTypeOK
    <3> QED
      BY <2>1, <3>1, <3>2
  <2> QED
    BY <2>2, <2>3
<1> QED
  BY <1>3, <1>4, <1>5 DEF JournalInv

LEMMA FillTmpInv ==
    ASSUME JournalInv, NEW c \in Callers, FillTmp(c)
    PROVE  JournalInv'
<1> DEFINE id == call[c].id
           rec == call[c].rec
<1>0. call[c] # NoCall /\ call' = [call EXCEPT ![c].step = "written"]
  BY DEF FillTmp
<1>1. /\ call' \in [Callers -> Calls \cup {NoCall}]
      /\ \A d \in Callers \ {c} : call'[d] = call[d]
      /\ call'[c] # NoCall /\ call'[c].step = "written" /\ call'[c].id = id
      /\ call'[c].rec = rec /\ id \in Tx /\ rec \in TxRecord
  BY <1>0, CallGoesOn DEF JournalInv
<1>r. WellFormed(rec)
  BY <1>0 DEF JournalInv, RecordsWellFormed
\* The file that is written holds the record, or nothing that parses.
<1>2. PICK tmp \in {txTmp[id], rec, Garbled}, file \in {txFile[id], rec, Garbled} :
         /\ txTmp' = [txTmp EXCEPT ![id] = tmp]
         /\ txFile' = [txFile EXCEPT ![id] = file]
         /\ call[c].step = "tmp" /\ txTmp[id] = Truncated => tmp = rec
         /\ call[c].step # "file" => file = txFile[id]
  BY <1>1 DEF FillTmp, Overwritten, JournalInv, JournalTypeOK
<1>3. UNCHANGED <<sweep, overlapped>>
  BY DEF FillTmp
<1>4. call[c].step \in OpenedAt
  BY <1>0 DEF FillTmp, OpenedAt
<1>5. Writes(c, id)
  BY <1>0, <1>4 DEF Writes, OpenedAt
<1> HIDE DEF id, rec
<1>6. JournalTypeOK'
  BY <1>1, <1>2, <1>3, ContentsDistinct DEF JournalInv, JournalTypeOK
<1>7. RecordsWellFormed'
  <2>1. \A i \in Tx : txFile'[i] \in TxRecord => WellFormed(txFile'[i])
    BY <1>1, <1>2, <1>r, ContentsDistinct
    DEF JournalInv, JournalTypeOK, RecordsWellFormed
  <2>2. \A i \in Tx : txTmp'[i] \in TxRecord => WellFormed(txTmp'[i])
    BY <1>1, <1>2, <1>r, ContentsDistinct
    DEF JournalInv, JournalTypeOK, RecordsWellFormed
  <2>3. \A d \in Callers : call'[d] # NoCall => WellFormed(call'[d].rec)
    BY <1>1, <1>r DEF JournalInv, RecordsWellFormed
  <2> QED
    BY <2>1, <2>2, <2>3 DEF RecordsWellFormed, WellFormed
<1>8. SoleWriters'
  <2> SUFFICES ASSUME NEW i \in Tx, i \notin overlapped
               PROVE  /\ txFile'[i] \in TxRecord \cup {NoTx}
                      /\ \A e \in Callers, d \in Callers :
                             Writes(e, i)' /\ Writes(d, i)' => e = d
                      /\ \A d \in Callers : Writes(d, i)' => WritesAlone(d, i)'
    BY <1>3 DEF SoleWriters
  <2>1. /\ txFile[i] \in TxRecord \cup {NoTx}
        /\ \A e \in Callers, d \in Callers :
               Writes(e, i) /\ Writes(d, i) => e = d
        /\ \A d \in Callers : Writes(d, i) => WritesAlone(d, i)
    BY DEF JournalInv, SoleWriters
  <2>2. \A d \in Callers : Writes(d, i)' => Writes(d, i)
    BY <1>1, <1>5 DEF Writes
  <2>3. CASE i = id
    <3>1. call[c].step = "tmp" /\ txTmp[id] = Truncated
      BY <1>4, <1>5, <2>1, <2>3 DEF WritesAlone, OpenedAt
    <3>2. txTmp'[i] = rec /\ txFile'[i] = txFile[i]
      BY <1>1, <1>2, <2>3, <3>1 DEF JournalInv, JournalTypeOK
    <3>3. \A d \in Callers : Writes(d, i)' => d = c
      BY <1>5, <2>1, <2>2, <2>3
    <3>4. WritesAlone(c, i)'
      BY <1>1, <3>2 DEF WritesAlone
    <3> QED
      BY <2>1, <3>2, <3>3, <3>4
  <2>4. CASE i # id
    <3>1. txTmp'[i] = txTmp[i] /\ txFile'[i] = txFile[i]
      BY <1>1, <1>2, <2>4 DEF JournalInv, JournalTypeOK
    <3>2. \A d \in Callers : Writes(d, i)' => d # c /\ WritesAlone(d, i)'
      BY <1>1, <2>1, <2>2, <2>4, <3>1 DEF WritesAlone, Writes
    <3> QED
      BY <2>1, <2>2, <3>1, <3>2
  <2> QED
    BY <2>3, <2>4
<1> QED
  BY <1>6, <1>7, <1>8 DEF JournalInv

\* Calls end or move with the file that they have open; the others stay.
LEMMA CallsMoved ==
    ASSUME JournalTypeOK,
           \A d \in Callers :
               \/ call'[d] = call[d] \/ call'[d] = NoCall
               \/ /\ call[d] # NoCall
                  /\ \E step \in {"file", "gone"} :
                        call'[d] = [call[d] EXCEPT !.step = step],
           call' = [d \in Callers |-> call'[d]]
    PROVE  /\ call' \in [Callers -> Calls \cup {NoCall}]
           /\ \A d \in Callers : call'[d] # NoCall =>
                 call[d] # NoCall /\ call'[d].rec = call[d].rec
<1> SUFFICES ASSUME NEW d \in Callers
             PROVE  /\ call'[d] \in Calls \cup {NoCall}
                    /\ call'[d] # NoCall =>
                          call[d] # NoCall /\ call'[d].rec = call[d].rec
  OBVIOUS
<1>1. call[d] \in Calls \cup {NoCall}
  BY DEF JournalTypeOK
<1>2. CASE /\ call[d] # NoCall
           /\ \E step \in {"file", "gone"} :
                 call'[d] = [call[d] EXCEPT !.step = step]
  BY <1>1, <1>2 DEF Calls, OpenedAt
<1>3. CASE call'[d] = call[d] \/ call'[d] = NoCall
  BY <1>1, <1>3
<1> QED
  BY <1>2, <1>3

LEMMA RenameTmpInv ==
    ASSUME JournalInv, NEW c \in Callers, RenameTmp(c)
    PROVE  JournalInv'
<1> DEFINE id == call[c].id
<1>1. /\ call[c] # NoCall /\ call[c].step = "written" /\ txTmp[id] # NoTx
      /\ txFile' = [txFile EXCEPT ![id] = txTmp[id]]
      /\ txTmp' = [txTmp EXCEPT ![id] = NoTx]
      /\ call' = [d \in Callers |->
              IF d = c THEN NoCall
              ELSE IF Writes(d, id)
                   THEN [call[d] EXCEPT !.step = Moved(call[d].step)]
                   ELSE call[d]]
      /\ UNCHANGED <<sweep, overlapped>>
  BY DEF RenameTmp
<1>2. id \in Tx /\ Writes(c, id)
  BY <1>1 DEF JournalInv, JournalTypeOK, Calls, Writes
<1> HIDE DEF id
<1>3. \A d \in Callers :
         \/ call'[d] = call[d] \/ call'[d] = NoCall
         \/ /\ call[d] # NoCall
            /\ \E step \in {"file", "gone"} :
                  call'[d] = [call[d] EXCEPT !.step = step]
  <2> SUFFICES ASSUME NEW d \in Callers, d # c, Writes(d, id)
               PROVE  \/ call'[d] = call[d]
                      \/ \E step \in {"file", "gone"} :
                            call'[d] = [call[d] EXCEPT !.step = step]
    BY <1>1 DEF Writes
  <2>1. call[d] \in Calls
    BY DEF Writes, JournalInv, JournalTypeOK
  <2>2. call'[d] = [call[d] EXCEPT !.step = Moved(call[d].step)]
    BY <1>1
  <2>3. CASE call[d].step \in {"tmp", "file"}
    BY <2>2, <2>3 DEF Moved
  <2>4. CASE call[d].step \notin {"tmp", "file"}
    BY <2>1, <2>2, <2>4 DEF Moved, Calls
  <2> QED
    BY <2>3, <2>4
<1>4. /\ call' \in [Callers -> Calls \cup {NoCall}]
      /\ \A d \in Callers : call'[d] # NoCall =>
            call[d] # NoCall /\ call'[d].rec = call[d].rec
  BY <1>1, <1>3, CallsMoved DEF JournalInv
<1>5. JournalTypeOK'
  BY <1>1, <1>2, <1>4 DEF JournalInv, JournalTypeOK
<1>6. RecordsWellFormed'
  <2>1. \A i \in Tx : txFile'[i] \in TxRecord => WellFormed(txFile'[i])
    BY <1>1, <1>2 DEF JournalInv, JournalTypeOK, RecordsWellFormed
  <2>2. \A i \in Tx : txTmp'[i] \in TxRecord => WellFormed(txTmp'[i])
    BY <1>1, <1>2, ContentsDistinct
    DEF JournalInv, JournalTypeOK, RecordsWellFormed
  <2>3. \A d \in Callers : call'[d] # NoCall => WellFormed(call'[d].rec)
    BY <1>4 DEF JournalInv, RecordsWellFormed
  <2> QED
    BY <2>1, <2>2, <2>3 DEF RecordsWellFormed, WellFormed
<1>7. SoleWriters'
  <2> SUFFICES ASSUME NEW i \in Tx, i \notin overlapped
               PROVE  /\ txFile'[i] \in TxRecord \cup {NoTx}
                      /\ \A e \in Callers, d \in Callers :
                             Writes(e, i)' /\ Writes(d, i)' => e = d
                      /\ \A d \in Callers : Writes(d, i)' => WritesAlone(d, i)'
    BY <1>1 DEF SoleWriters
  <2>1. /\ txFile[i] \in TxRecord \cup {NoTx}
        /\ \A e \in Callers, d \in Callers :
               Writes(e, i) /\ Writes(d, i) => e = d
        /\ \A d \in Callers : Writes(d, i) => WritesAlone(d, i)
    BY DEF JournalInv, SoleWriters
  <2>2. CASE i = id
    <3>1. txTmp[i] \in TxRecord
      BY <1>1, <1>2, <2>1, <2>2 DEF WritesAlone
    <3>2. txFile'[i] = txTmp[i]
      BY <1>1, <1>2, <2>2 DEF JournalInv, JournalTypeOK
    <3>3. \A d \in Callers : ~Writes(d, i)'
      <4> SUFFICES ASSUME NEW d \in Callers, d # c
                   PROVE  ~Writes(d, i)'
        BY <1>1 DEF Writes
      <4>1. ~Writes(d, i)
        BY <1>2, <2>1, <2>2
      <4>2. call'[d] = call[d]
        BY <1>1, <2>2, <4>1
      <4> QED
        BY <4>1, <4>2 DEF Writes
    <3> QED
      BY <3>1, <3>2, <3>3
  <2>3. CASE i # id
    <3>1. txTmp'[i] = txTmp[i] /\ txFile'[i] = txFile[i]
      BY <1>1, <1>2, <2>3 DEF JournalInv, JournalTypeOK
    <3>2. \A d \in Callers : Writes(d, i)' => Writes(d, i) /\ call'[d] = call[d]
      <4> SUFFICES ASSUME NEW d \in Callers, Writes(d, i)'
                   PROVE  Writes(d, i) /\ call'[d] = call[d]
        OBVIOUS
      <4>1. d # c
        BY <1>1 DEF Writes
      <4>2. CASE Writes(d, id)
        <5>1. call[d] \in Calls
          BY <4>2 DEF Writes, JournalInv, JournalTypeOK
        <5>2. call'[d] = [call[d] EXCEPT !.step = Moved(call[d].step)]
          BY <1>1, <4>1, <4>2
        <5>3. call'[d].id = id
          BY <4>2, <5>1, <5>2 DEF Writes, Calls
        <5> QED
          BY <2>3, <5>3 DEF Writes
      <4>3. CASE ~Writes(d, id)
        BY <1>1, <4>1, <4>3 DEF Writes
      <4> QED
        BY <4>2, <4>3
    <3> QED
      BY <2>1, <3>1, <3>2 DEF WritesAlone
  <2> QED
    BY <2>2, <2>3
<1> QED
  BY <1>5, <1>6, <1>7 DEF JournalInv

\* Flow d is where it was, or inside the same call of a transaction that is
\* none of these.
Stays(d, ids) ==
    \/ call'[d] = call[d]
    \/ /\ call[d] # NoCall /\ call[d].id \notin ids
       /\ call'[d] # NoCall
       /\ call'[d].id = call[d].id /\ call'[d].rec = call[d].rec

\* The calls of the others when the file of one of their transactions is
\* renamed or deleted.
LEMMA MovedStays ==
    ASSUME JournalTypeOK, NEW d \in Callers, NEW ids, NEW id, id \notin ids,
           \/ call'[d] = call[d]
           \/ /\ Writes(d, id)
              /\ \E step \in {"merged", "written"} \cup OpenedAt :
                    call'[d] = [call[d] EXCEPT !.step = step]
    PROVE  Stays(d, ids)
<1>1. CASE call'[d] = call[d]
  BY <1>1 DEF Stays
<1>2. CASE /\ Writes(d, id)
           /\ \E step \in {"merged", "written"} \cup OpenedAt :
                 call'[d] = [call[d] EXCEPT !.step = step]
  <2>1. call[d] \in Calls /\ call[d].id = id
    BY <1>2 DEF Writes, JournalTypeOK
  <2>2. call'[d] \in Calls /\ call'[d].id = id /\ call'[d].rec = call[d].rec
    BY <1>2, <2>1 DEF Calls
  <2> QED
    BY <1>2, <2>1, <2>2, AbsenceAssumption DEF Stays, Writes
<1> QED
  BY <1>1, <1>2

LEMMA DeleteStays ==
    ASSUME JournalTypeOK, NEW id \in Tx, NEW ids, id \notin ids,
           DeleteTransaction(id), NEW d \in Callers
    PROVE  Stays(d, ids)
<1>1. \/ call'[d] = call[d]
      \/ Writes(d, id) /\ call'[d] = [call[d] EXCEPT !.step = "gone"]
  BY DEF DeleteTransaction, JournalTypeOK
<1> QED
  BY <1>1, MovedStays DEF OpenedAt

LEMMA RenameStays ==
    ASSUME JournalTypeOK, NEW c \in Callers, NEW ids, call[c].id \notin ids,
           RenameTmp(c), NEW d \in Callers \ {c}
    PROVE  Stays(d, ids)
<1> DEFINE id == call[c].id
<1>1. \/ call'[d] = call[d]
      \/ Writes(d, id) /\ call'[d] = [call[d] EXCEPT !.step = Moved(call[d].step)]
  BY DEF RenameTmp, JournalTypeOK
<1>2. Writes(d, id) => Moved(call[d].step) \in {"merged", "written"} \cup OpenedAt
  BY DEF Writes, JournalTypeOK, Calls, Moved, OpenedAt
<1> HIDE DEF id
<1>3. id \notin ids
  BY DEF id
<1> QED
  BY <1>1, <1>2, <1>3, MovedStays

\* A file that is read as committing is a record.
LEMMA CommittingIsRecord ==
    ASSUME JournalTypeOK, NEW id \in Tx, StatusOf(id) = "committing"
    PROVE  txFile[id] \in TxRecord /\ txFile[id].status = "committing"
  BY DEF JournalTypeOK, StatusOf, TxContents, Truncated, Garbled

LEMMA UpdateFailsInv ==
    ASSUME JournalInv, NEW c \in Callers, RenameFails(c) \/ UpdateFails(c)
    PROVE  JournalInv'
<1>1. /\ call' = [call EXCEPT ![c] = NoCall]
      /\ UNCHANGED <<txFile, txTmp, sweep, overlapped>>
  BY DEF RenameFails, UpdateFails
<1>2. JournalTypeOK'
  BY <1>1 DEF JournalInv, JournalTypeOK
<1>3. RecordsWellFormed'
  BY <1>1 DEF JournalInv, JournalTypeOK, RecordsWellFormed, WellFormed
<1>4. \A d \in Callers : call'[d] # NoCall => call'[d] = call[d]
  BY <1>1 DEF JournalInv, JournalTypeOK
<1>5. SoleWriters'
  BY <1>1, <1>4 DEF JournalInv, SoleWriters, Writes, WritesAlone
<1> QED
  BY <1>2, <1>3, <1>5 DEF JournalInv

\* A step that changes only the progress of the sweeps.
LEMMA SweepOnlyInv ==
    ASSUME JournalInv, UNCHANGED <<txFile, txTmp, call, overlapped>>,
           sweep' \in [Sweepers -> Sweeps]
    PROVE  JournalInv'
<1>1. JournalTypeOK'
  BY DEF JournalInv, JournalTypeOK
<1>2. RecordsWellFormed'
  BY DEF JournalInv, RecordsWellFormed, WellFormed
<1>3. SoleWriters'
  BY DEF JournalInv, SoleWriters, Writes, WritesAlone
<1> QED
  BY <1>1, <1>2, <1>3 DEF JournalInv

LEMMA SweepStartInv ==
    ASSUME JournalInv, NEW h \in Sweepers, SweepStart(h)
    PROVE  JournalInv'
<1>1. PICK aged \in SUBSET Persisted :
         sweep' = [sweep EXCEPT
             ![h] = [@ EXCEPT !.phase = "list", !.aged = aged]]
  BY DEF SweepStart
<1>2. sweep[h] \in Sweeps /\ aged \subseteq Tx
  BY DEF JournalInv, JournalTypeOK, Persisted
<1>3. [sweep[h] EXCEPT !.phase = "list", !.aged = aged] \in Sweeps
  BY <1>2 DEF Sweeps
<1>4. sweep' \in [Sweepers -> Sweeps]
  BY <1>1, <1>3 DEF JournalInv, JournalTypeOK
<1> QED
  BY <1>4, SweepOnlyInv DEF SweepStart

LEMMA SweepStepInv ==
    ASSUME JournalInv, NEW h \in Sweepers, SweepStep(h)
    PROVE  JournalInv'
<1> h \in Callers
  BY DEF Callers
<1> sweep \in [Sweepers -> Sweeps]
  BY DEF JournalInv, JournalTypeOK
<1>1. CASE SweepList(h)
  <2>1. sweep' \in [Sweepers -> Sweeps]
    BY <1>1 DEF SweepList, Sweeps, Persisted
  <2> QED
    BY <1>1, <2>1, SweepOnlyInv DEF SweepList
<1>2. CASE SweepRead(h)
  <2>1. PICK id \in sweep[h].unread :
           sweep' = [sweep EXCEPT ![h] = AfterRead(h, id)]
    BY <1>2 DEF SweepRead
  <2>2. AfterRead(h, id) \in Sweeps
    BY <2>1 DEF AfterRead, Sweeps
  <2>3. sweep' \in [Sweepers -> Sweeps]
    BY <2>1, <2>2
  <2> QED
    BY <1>2, <2>3, SweepOnlyInv DEF SweepRead
<1>3. CASE SweepScanned(h)
  <2>1. sweep' \in [Sweepers -> Sweeps]
    BY <1>3 DEF SweepScanned, Sweeps
  <2> QED
    BY <1>3, <2>1, SweepOnlyInv DEF SweepScanned
<1>4. CASE SweepMark(h)
  <2>1. PICK id \in sweep[h].marks :
           /\ ReadForUpdate(h, id, "recovery-required")
           /\ sweep' = [sweep EXCEPT ![h].marks = @ \ {id}]
    BY <1>4 DEF SweepMark
  <2>2. id \in Tx /\ sweep' \in [Sweepers -> Sweeps]
    BY <2>1 DEF Sweeps
  <2>3. "recovery-required" \in Statuses
    BY DEF Statuses
  <2> QED
    BY <2>1, <2>2, <2>3, ReadInv
<1>5. CASE SweepSkip(h)
  <2>1. sweep' \in [Sweepers -> Sweeps]
    BY <1>5 DEF SweepSkip, Sweeps
  <2> QED
    BY <1>5, <2>1, SweepOnlyInv DEF SweepSkip
<1>6. CASE SweepEnd(h)
  <2>1. sweep' \in [Sweepers -> Sweeps]
    BY <1>6 DEF SweepEnd, Sweeps
  <2> QED
    BY <1>6, <2>1, SweepOnlyInv DEF SweepEnd
<1>7. CASE OpenTmp(h) \/ FillTmp(h)
  BY <1>7, OpenTmpInv, FillTmpInv
<1>8. CASE RenameTmp(h)
  BY <1>8, RenameTmpInv
<1>9. CASE RenameFails(h)
  BY <1>9, UpdateFailsInv
<1> QED
  BY <1>1, <1>2, <1>3, <1>4, <1>5, <1>6, <1>7, <1>8, <1>9 DEF SweepStep

\* The errors that a sweep swallows.
LEMMA SweepListErrorInv ==
    ASSUME JournalInv, NEW h \in Sweepers, SweepListFails(h)
    PROVE  JournalInv'
<1>1. sweep' \in [Sweepers -> Sweeps]
  BY DEF SweepListFails, Sweeps, JournalInv, JournalTypeOK
<1> QED
  BY <1>1, SweepOnlyInv DEF SweepListFails

LEMMA SweepErrorInv ==
    ASSUME JournalInv, NEW h \in Sweepers, NEW id \in Tx, SweepMisses(h, id)
    PROVE  JournalInv'
<1>1. CASE UpdateFails(h)
  BY <1>1, UpdateFailsInv DEF Callers
<1>2. CASE ~UpdateFails(h)
  <2>1. sweep' \in [Sweepers -> Sweeps]
    BY <1>2 DEF SweepMisses, Sweeps, JournalInv, JournalTypeOK
  <2> QED
    BY <1>2, <2>1, SweepOnlyInv DEF SweepMisses
<1> QED
  BY <1>1, <1>2

LEMMA CrashInv ==
    ASSUME JournalInv, JournalCrash
    PROVE  JournalInv'
  BY DEF JournalCrash, JournalInv, JournalTypeOK, RecordsWellFormed, SoleWriters,
         Sweeps, SweepOff, WellFormed, Writes

LEMMA UnchangedInv ==
    ASSUME JournalInv, UNCHANGED journalVars
    PROVE  JournalInv'
  BY SweepOnlyInv DEF journalVars, JournalInv, JournalTypeOK

\* The file of a transaction is deleted.
LEMMA DeleteInv ==
    ASSUME JournalInv, NEW id \in Tx, DeleteTransaction(id)
    PROVE  JournalInv'
<1>1. /\ txFile' = [txFile EXCEPT ![id] = NoTx]
      /\ call' = [c \in Callers |-> IF Writes(c, id) /\ call[c].step = "file"
                                     THEN [call[c] EXCEPT !.step = "gone"]
                                     ELSE call[c]]
      /\ UNCHANGED <<txTmp, sweep, overlapped>>
  BY DEF DeleteTransaction
<1>2. /\ call' \in [Callers -> Calls \cup {NoCall}]
      /\ \A d \in Callers : call'[d] # NoCall =>
            call[d] # NoCall /\ call'[d].rec = call[d].rec
  <2>1. \A d \in Callers :
           \/ call'[d] = call[d] \/ call'[d] = NoCall
           \/ /\ call[d] # NoCall
              /\ \E step \in {"file", "gone"} :
                    call'[d] = [call[d] EXCEPT !.step = step]
    BY <1>1 DEF Writes
  <2> QED
    BY <1>1, <2>1, CallsMoved DEF JournalInv
<1>3. JournalTypeOK'
  BY <1>1, <1>2 DEF JournalInv, JournalTypeOK
<1>4. RecordsWellFormed'
  BY <1>1, <1>2, ContentsDistinct
  DEF JournalInv, JournalTypeOK, RecordsWellFormed, WellFormed
<1>5. SoleWriters'
  <2> SUFFICES ASSUME NEW i \in Tx, i \notin overlapped
               PROVE  /\ txFile'[i] \in TxRecord \cup {NoTx}
                      /\ \A e \in Callers, d \in Callers :
                             Writes(e, i)' /\ Writes(d, i)' => e = d
                      /\ \A d \in Callers : Writes(d, i)' => WritesAlone(d, i)'
    BY <1>1 DEF SoleWriters
  <2>1. /\ txFile[i] \in TxRecord \cup {NoTx}
        /\ \A e \in Callers, d \in Callers :
               Writes(e, i) /\ Writes(d, i) => e = d
        /\ \A d \in Callers : Writes(d, i) => WritesAlone(d, i)
    BY DEF JournalInv, SoleWriters
  <2>2. \A d \in Callers : Writes(d, i)' => Writes(d, i) /\ call'[d] = call[d]
    <3> SUFFICES ASSUME NEW d \in Callers, Writes(d, i)'
                 PROVE  Writes(d, i) /\ call'[d] = call[d]
      OBVIOUS
    <3>1. CASE Writes(d, id) /\ call[d].step = "file"
      <4>1. call[d] \in Calls
        BY <3>1 DEF Writes, JournalInv, JournalTypeOK
      <4>2. call'[d] = [call[d] EXCEPT !.step = "gone"]
        BY <1>1, <3>1
      <4>3. i = id
        BY <3>1, <4>1, <4>2 DEF Writes, Calls
      <4> QED
        BY <2>1, <3>1, <4>3 DEF WritesAlone
    <3>2. CASE ~(Writes(d, id) /\ call[d].step = "file")
      BY <1>1, <3>2 DEF Writes
    <3> QED
      BY <3>1, <3>2
  <2>3. txFile'[i] \in TxRecord \cup {NoTx}
    BY <1>1, <2>1 DEF JournalInv, JournalTypeOK
  <2> QED
    BY <1>1, <2>1, <2>2, <2>3 DEF WritesAlone
<1> QED
  BY <1>3, <1>4, <1>5 DEF JournalInv

\* The invariant says what JournalConsistent says.
LEMMA JournalInvConsistent == JournalInv => JournalConsistent
  BY DEF JournalInv, JournalTypeOK, RecordsWellFormed, SoleWriters,
         JournalConsistent, Persisted, Readable
=============================================================================
