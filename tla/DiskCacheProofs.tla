--------------------------- MODULE DiskCacheProofs ---------------------------
(***************************************************************************)
(* Theorems about DiskCache, for every disk and cache size and every set   *)
(* of sector contents.                                                     *)
(***************************************************************************)
EXTENDS DiskCache, TLAPS

(* A line no failed read has touched holds something a caller may expect   *)
(* of its sector; with a failed write in between that need not be what the *)
(* disk holds.                                                             *)
LinesAreExplained ==
    \A i \in Line :
       g_cache[i].valid /\ i \notin garbled =>
          g_cache[i].data \in expect[g_cache[i].lba]

Inv ==
    /\ TypeOK
    /\ LinesMirrorDisk
    /\ LinesAreExplained
    /\ AcknowledgedIsDurable
    /\ ReadsAreExplained

LEMMA IndexInLine == ASSUME NEW lba \in Lba PROVE IndexOf(lba) \in Line
BY LbaAssumption, LineAssumption DEF IndexOf, Line, Lba

LEMMA InitInv == Init => Inv
<1> SUFFICES ASSUME Init PROVE Inv
    OBVIOUS
<1>1. 0 \in Lba /\ Zero \in Data
    BY LbaAssumption, DataAssumption DEF Lba
<1>. QED
    BY <1>1 DEF Init, Idle, Inv, TypeOK, Result, LinesMirrorDisk, LinesAreExplained,
                AcknowledgedIsDurable, ReadsAreExplained

(* A line filled with d mirrors the disk if d is what the disk now holds;  *)
(* the other lines are judged as before.                                   *)
LEMMA FillKeepsLines ==
    ASSUME Inv, NEW lba \in Lba, NEW d \in Data, Fill(lba, d),
           disk' = [disk EXCEPT ![lba] = d],
           expect' \in [Lba -> SUBSET Data],
           d \in expect'[lba],
           \A b \in Lba \ {lba} : expect'[b] = expect[b]
    PROVE  /\ g_cache' \in [Line -> [lba : Lba, valid : BOOLEAN, data : Data]]
           /\ garbled' \subseteq Line /\ stale' \subseteq Line
           /\ LinesMirrorDisk' /\ LinesAreExplained'
<1> DEFINE l == IndexOf(lba)
<1>1. l \in Line
    BY IndexInLine
<1>2. /\ g_cache' = [g_cache EXCEPT ![l] = [lba |-> lba, valid |-> TRUE, data |-> d]]
      /\ garbled' = garbled \ {l}
      /\ stale' = stale \ {l}
    BY DEF Fill
<1>3. g_cache' \in [Line -> [lba : Lba, valid : BOOLEAN, data : Data]]
    BY <1>1, <1>2 DEF Inv, TypeOK
<1>4. garbled' \subseteq Line /\ stale' \subseteq Line
    BY <1>2 DEF Inv, TypeOK
<1>5. ASSUME NEW i \in Line, g_cache'[i].valid
      PROVE  /\ IndexOf(g_cache'[i].lba) = i
             /\ i \notin garbled' \cup stale' => g_cache'[i].data = disk'[g_cache'[i].lba]
             /\ i \notin garbled' => g_cache'[i].data \in expect'[g_cache'[i].lba]
  <2>1. CASE i = l
    BY <1>1, <1>2, <2>1 DEF Inv, TypeOK
  <2>2. CASE i # l
    <3>1. g_cache'[i] = g_cache[i] /\ g_cache[i].lba \in Lba
      BY <1>2, <2>2 DEF Inv, TypeOK
    <3>2. IndexOf(g_cache[i].lba) = i
      BY <1>5, <3>1 DEF Inv, LinesMirrorDisk
    <3>3. g_cache[i].lba # lba
      BY <2>2, <3>2
    <3>4. /\ disk'[g_cache[i].lba] = disk[g_cache[i].lba]
          /\ expect'[g_cache[i].lba] = expect[g_cache[i].lba]
      BY <3>1, <3>3 DEF Inv, TypeOK
    <3>. QED
      BY <1>2, <1>5, <2>2, <3>1, <3>2, <3>4 DEF Inv, LinesMirrorDisk, LinesAreExplained
  <2>. QED BY <2>1, <2>2
<1>. QED BY <1>3, <1>4, <1>5 DEF LinesMirrorDisk, LinesAreExplained

LEMMA ReadPreserves ==
    ASSUME Inv, NEW lba \in Lba, Read(lba)
    PROVE  Inv'
<1>1. IndexOf(lba) \in Line
    BY IndexInLine
<1>2. Zero \in Data
    BY DataAssumption
<1>3. CASE ReadHit(lba)
  <2>1. /\ result' = Done("read", lba, g_cache[IndexOf(lba)].data)
        /\ UNCHANGED <<disk, g_cache, expect, garbled, stale>>
        /\ g_cache[IndexOf(lba)].valid /\ g_cache[IndexOf(lba)].lba = lba
    BY <1>3 DEF ReadHit, Hit
  <2>2. TypeOK'
    BY <1>1, <2>1 DEF Inv, TypeOK, Result, Done
  <2>3. ReadsAreExplained'
    BY <1>1, <2>1 DEF Inv, ReadsAreExplained, LinesAreExplained, Done
  <2>. QED
    BY <2>1, <2>2, <2>3 DEF Inv, LinesMirrorDisk, LinesAreExplained, AcknowledgedIsDurable
<1>4. CASE ReadMiss(lba)
  <2>1. /\ Fill(lba, disk[lba]) /\ UNCHANGED <<disk, expect>>
        /\ result' = Done("read", lba, disk[lba])
    BY <1>4 DEF ReadMiss
  <2>2. disk[lba] \in Data /\ disk[lba] \in expect[lba] /\ expect \in [Lba -> SUBSET Data]
    BY DEF Inv, TypeOK, AcknowledgedIsDurable
  <2>3. disk' = [disk EXCEPT ![lba] = disk[lba]]
    BY <2>1 DEF Inv, TypeOK
  <2>4. /\ g_cache' \in [Line -> [lba : Lba, valid : BOOLEAN, data : Data]]
        /\ garbled' \subseteq Line /\ stale' \subseteq Line
        /\ LinesMirrorDisk' /\ LinesAreExplained'
    BY <2>1, <2>2, <2>3, FillKeepsLines
  <2>5. TypeOK'
    BY <2>1, <2>2, <2>4 DEF Inv, TypeOK, Result, Done
  <2>6. ReadsAreExplained' /\ AcknowledgedIsDurable'
    BY <2>1, <2>2 DEF Inv, ReadsAreExplained, AcknowledgedIsDurable, Done
  <2>. QED BY <2>4, <2>5, <2>6 DEF Inv
<1>5. CASE ReadFailsEarly(lba)
  BY <1>2, <1>5 DEF ReadFailsEarly, Failed, Inv, TypeOK, Result, LinesMirrorDisk,
     LinesAreExplained, AcknowledgedIsDurable, ReadsAreExplained
<1>6. CASE ReadFailsLate(lba)
  <2>1. PICK d \in Data : g_cache' = [g_cache EXCEPT ![IndexOf(lba)].data = d]
    BY <1>6 DEF ReadFailsLate
  <2>2. /\ garbled' = garbled \cup {IndexOf(lba)}
        /\ result' = Failed("read", lba)
        /\ UNCHANGED <<disk, expect, stale>>
    BY <1>6 DEF ReadFailsLate
  <2>3. TypeOK'
    BY <1>1, <1>2, <2>1, <2>2 DEF Inv, TypeOK, Result, Failed
  <2>4. LinesMirrorDisk' /\ LinesAreExplained'
    BY <1>1, <2>1, <2>2 DEF Inv, TypeOK, LinesMirrorDisk, LinesAreExplained
  <2>5. ReadsAreExplained' /\ AcknowledgedIsDurable'
    BY <2>2 DEF Inv, ReadsAreExplained, AcknowledgedIsDurable, Failed
  <2>. QED BY <2>3, <2>4, <2>5 DEF Inv
<1>. QED BY <1>3, <1>4, <1>5, <1>6 DEF Read

LEMMA WritePreserves ==
    ASSUME Inv, NEW lba \in Lba, NEW d \in Data, WriteSector(lba, d)
    PROVE  Inv'
<1>1. IndexOf(lba) \in Line
    BY IndexInLine
<1>2. Zero \in Data
    BY DataAssumption
<1>3. CASE Write(lba, d)
  <2>1. /\ disk' = [disk EXCEPT ![lba] = d]
        /\ Fill(lba, d)
        /\ expect' = [expect EXCEPT ![lba] = {d}]
        /\ result' = Done("write", lba, d)
    BY <1>3 DEF Write
  <2>2. /\ expect' \in [Lba -> SUBSET Data] /\ d \in expect'[lba]
        /\ \A b \in Lba \ {lba} : expect'[b] = expect[b]
    BY <2>1 DEF Inv, TypeOK
  <2>3. /\ g_cache' \in [Line -> [lba : Lba, valid : BOOLEAN, data : Data]]
        /\ garbled' \subseteq Line /\ stale' \subseteq Line
        /\ LinesMirrorDisk' /\ LinesAreExplained'
    BY <2>1, <2>2, FillKeepsLines
  <2>4. TypeOK'
    BY <2>1, <2>2, <2>3 DEF Inv, TypeOK, Result, Done
  <2>5. AcknowledgedIsDurable' /\ ReadsAreExplained'
    BY <2>1 DEF Inv, TypeOK, AcknowledgedIsDurable, ReadsAreExplained, Done
  <2>. QED BY <2>3, <2>4, <2>5 DEF Inv
<1>4. CASE WriteFailsEarly(lba, d)
  BY <1>2, <1>4 DEF WriteFailsEarly, Failed, Inv, TypeOK, Result, LinesMirrorDisk,
     LinesAreExplained, AcknowledgedIsDurable, ReadsAreExplained
<1>5. CASE WriteFailsLate(lba, d)
  <2>1. /\ disk' = [disk EXCEPT ![lba] = d] \/ disk' = disk
        /\ expect' = [expect EXCEPT ![lba] = expect[lba] \cup {d}]
        /\ stale' = IF Hit(lba) THEN stale \cup {IndexOf(lba)} ELSE stale
        /\ result' = Failed("write", lba)
        /\ UNCHANGED <<g_cache, garbled>>
    BY <1>5 DEF WriteFailsLate
  <2>2. TypeOK'
    BY <1>1, <1>2, <2>1 DEF Inv, TypeOK, Result, Failed
  <2>3. AcknowledgedIsDurable' /\ ReadsAreExplained'
    BY <2>1 DEF Inv, TypeOK, AcknowledgedIsDurable, ReadsAreExplained, Failed
  <2>4. LinesAreExplained'
    <3>1. \A b \in Lba : expect[b] \subseteq expect'[b]
      BY <2>1 DEF Inv, TypeOK
    <3>. QED BY <2>1, <3>1 DEF Inv, TypeOK, LinesAreExplained
  <2>5. LinesMirrorDisk'
    <3>1. SUFFICES ASSUME NEW i \in Line, g_cache[i].valid
                   PROVE  /\ IndexOf(g_cache[i].lba) = i
                          /\ i \notin garbled \cup stale' =>
                                g_cache[i].data = disk'[g_cache[i].lba]
      BY <2>1 DEF LinesMirrorDisk
    <3>2. IndexOf(g_cache[i].lba) = i /\ g_cache[i].lba \in Lba
      BY <3>1 DEF Inv, TypeOK, LinesMirrorDisk
    <3>3. CASE g_cache[i].lba = lba
      BY <2>1, <3>1, <3>2, <3>3 DEF Hit
    <3>4. CASE g_cache[i].lba # lba
      <4>1. disk'[g_cache[i].lba] = disk[g_cache[i].lba]
        BY <2>1, <3>2, <3>4 DEF Inv, TypeOK
      <4>. QED BY <2>1, <3>1, <3>2, <4>1 DEF Inv, LinesMirrorDisk
    <3>. QED BY <3>3, <3>4
  <2>. QED BY <2>2, <2>3, <2>4, <2>5 DEF Inv
<1>. QED BY <1>3, <1>4, <1>5 DEF WriteSector

LEMMA RebootPreserves == Inv /\ Reboot => Inv'
<1> SUFFICES ASSUME Inv, Reboot PROVE Inv'
    OBVIOUS
<1>1. 0 \in Lba /\ Zero \in Data
    BY LbaAssumption, DataAssumption DEF Lba
<1>. QED
    BY <1>1 DEF Reboot, Idle, Inv, TypeOK, Result, LinesMirrorDisk, LinesAreExplained,
                AcknowledgedIsDurable, ReadsAreExplained

LEMMA NextInv == Inv /\ [Next]_vars => Inv'
<1>1. ASSUME Inv, UNCHANGED vars PROVE Inv'
  BY <1>1 DEF vars, Inv, TypeOK, LinesMirrorDisk, LinesAreExplained,
              AcknowledgedIsDurable, ReadsAreExplained
<1>. QED
  BY <1>1, ReadPreserves, WritePreserves, RebootPreserves DEF Next

THEOREM InvHolds == Spec => []Inv
BY InitInv, NextInv, PTL DEF Spec

(* A cache line mirrors the sector it is filed under unless a transfer     *)
(* that involved it has failed since it was filled.                        *)
THEOREM CacheMirrorsDisk == Spec => []LinesMirrorDisk
<1>1. Inv => LinesMirrorDisk
  BY DEF Inv
<1>. QED BY <1>1, InvHolds, PTL

(* A successful read through a line no failed read has touched returns     *)
(* what the last acknowledged write stored, or what a failed write since   *)
(* then tried to.                                                          *)
THEOREM ReadsReturnWrites == Spec => []ReadsAreExplained
<1>1. Inv => ReadsAreExplained
  BY DEF Inv
<1>. QED BY <1>1, InvHolds, PTL

(* An acknowledged write is on the disk until the next write of the sector *)
(* is attempted.                                                           *)
THEOREM AcknowledgedWritesStay == Spec => []AcknowledgedIsDurable
<1>1. Inv => AcknowledgedIsDurable
  BY DEF Inv
<1>. QED BY <1>1, InvHolds, PTL

=============================================================================
