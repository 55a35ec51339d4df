------------------------------ MODULE DiskCache ------------------------------
(***************************************************************************)
(* The ATA driver of kernel/disk.c with its direct-mapped, write-through   *)
(* sector cache.  Only the shell thread uses the disk, so an operation is  *)
(* one action; what makes it hard is that every transfer can fail, and     *)
(* that it matters where.                                                  *)
(*                                                                         *)
(* A transfer that fails EARLY (the drive never becomes ready) moves no    *)
(* data.  A read that fails LATE has already filled the buffer it was      *)
(* given, which is the cache line itself.  A write that fails late has     *)
(* handed the sector over, and the drive may or may not have stored it.    *)
(*                                                                         *)
(* Sectors are read and written one at a time: every caller in the build   *)
(* passes count 1, and disk_read_sectors repeats the same step up to the   *)
(* first error.                                                            *)
(***************************************************************************)
EXTENDS Integers

CONSTANTS
    MaxLba,              \* the disk has the sectors 0 .. MaxLba
    DISK_CACHE_LINES,    \* lines of the cache (256 in the code)
    Data,                \* what a sector may hold
    Zero                 \* the contents of the cache lines at boot (BSS)

ASSUME LbaAssumption  == MaxLba \in Nat
ASSUME LineAssumption == DISK_CACHE_LINES \in Nat \ {0}
ASSUME DataAssumption == Zero \in Data

Lba  == 0 .. MaxLba
Line == 0 .. DISK_CACHE_LINES - 1

VARIABLES
    disk,      \* the sectors
    g_cache,   \* the lines: lba, valid, data
    result,    \* what the last operation returned to its caller
    expect,    \* per sector, the contents a caller has to reckon with
    garbled,   \* lines a failed read has written to since they were filled
    stale      \* lines whose sector a failed write has changed on the disk

vars == <<disk, g_cache, result, expect, garbled, stale>>

(* cache_line                                                              *)
IndexOf(lba) == lba % DISK_CACHE_LINES

(* Mutant: the tag of the line is not compared.                            *)
HitAnyTag(lba) == g_cache[IndexOf(lba)].valid

Hit(lba) ==
    LET line == g_cache[IndexOf(lba)] IN line.valid /\ line.lba = lba

Idle == [op |-> "none", lba |-> 0, ok |-> TRUE, data |-> Zero]
Failed(op, lba) == [op |-> op, lba |-> lba, ok |-> FALSE, data |-> Zero]
Done(op, lba, d) == [op |-> op, lba |-> lba, ok |-> TRUE, data |-> d]

Init ==
    /\ disk \in [Lba -> Data]
    /\ g_cache = [i \in Line |-> [lba |-> 0, valid |-> FALSE, data |-> Zero]]
    /\ result = Idle
    /\ expect = [b \in Lba |-> {disk[b]}]
    /\ garbled = {}
    /\ stale = {}

(* A line that now holds d for lba, whatever it held before.               *)
Fill(lba, d) ==
    /\ g_cache' = [g_cache EXCEPT
          ![IndexOf(lba)] = [lba |-> lba, valid |-> TRUE, data |-> d]]
    /\ garbled' = garbled \ {IndexOf(lba)}
    /\ stale'   = stale \ {IndexOf(lba)}

-----------------------------------------------------------------------------
(* disk_read_sector_cached                                                 *)

ReadHit(lba) ==
    /\ Hit(lba)
    /\ result' = Done("read", lba, g_cache[IndexOf(lba)].data)
    /\ UNCHANGED <<disk, g_cache, expect, garbled, stale>>

ReadMiss(lba) ==
    /\ ~Hit(lba)
    /\ Fill(lba, disk[lba])
    /\ result' = Done("read", lba, disk[lba])
    /\ UNCHANGED <<disk, expect>>

ReadFailsEarly(lba) ==
    /\ ~Hit(lba)
    /\ result' = Failed("read", lba)
    /\ UNCHANGED <<disk, g_cache, expect, garbled, stale>>

(* The line keeps its old lba and valid, but its data is what the drive    *)
(* sent before it reported the error.                                      *)
ReadFailsLate(lba) ==
    /\ ~Hit(lba)
    /\ \E d \in Data : g_cache' = [g_cache EXCEPT ![IndexOf(lba)].data = d]
    /\ garbled' = garbled \cup {IndexOf(lba)}
    /\ result' = Failed("read", lba)
    /\ UNCHANGED <<disk, expect, stale>>

-----------------------------------------------------------------------------
(* disk_write_sectors                                                      *)

(* Mutant: the sector is written around the cache.                         *)
WriteAround(lba, d) ==
    /\ disk' = [disk EXCEPT ![lba] = d]
    /\ expect' = [expect EXCEPT ![lba] = {d}]
    /\ result' = Done("write", lba, d)
    /\ UNCHANGED <<g_cache, garbled, stale>>

(* Mutant: the sector is written to the cache only.                        *)
WriteBack(lba, d) ==
    /\ Fill(lba, d)
    /\ expect' = [expect EXCEPT ![lba] = {d}]
    /\ result' = Done("write", lba, d)
    /\ UNCHANGED disk

(* disk_write_sectors_pio, then disk_write_sector_update_cache.            *)
Write(lba, d) ==
    /\ disk' = [disk EXCEPT ![lba] = d]
    /\ Fill(lba, d)
    /\ expect' = [expect EXCEPT ![lba] = {d}]
    /\ result' = Done("write", lba, d)

WriteFailsEarly(lba, d) ==
    /\ result' = Failed("write", lba)
    /\ UNCHANGED <<disk, g_cache, expect, garbled, stale>>

(* The caller is told -1; the sector may hold the new data nevertheless.   *)
WriteFailsLate(lba, d) ==
    /\ \/ disk' = [disk EXCEPT ![lba] = d]
       \/ UNCHANGED disk
    /\ expect' = [expect EXCEPT ![lba] = @ \cup {d}]
    /\ stale' = IF Hit(lba) THEN stale \cup {IndexOf(lba)} ELSE stale
    /\ result' = Failed("write", lba)
    /\ UNCHANGED <<g_cache, garbled>>

-----------------------------------------------------------------------------
(* The reboot command, the reset button, a power cut: the disk stays, the  *)
(* cache starts from a cleared BSS.                                        *)
Reboot ==
    /\ g_cache' = [i \in Line |-> [lba |-> 0, valid |-> FALSE, data |-> Zero]]
    /\ result' = Idle
    /\ garbled' = {}
    /\ stale' = {}
    /\ UNCHANGED <<disk, expect>>

Read(lba) == ReadHit(lba) \/ ReadMiss(lba) \/ ReadFailsEarly(lba) \/ ReadFailsLate(lba)

WriteSector(lba, d) == Write(lba, d) \/ WriteFailsEarly(lba, d) \/ WriteFailsLate(lba, d)

Next ==
    \/ \E lba \in Lba : Read(lba)
    \/ \E lba \in Lba, d \in Data : WriteSector(lba, d)
    \/ Reboot

Spec == Init /\ [][Next]_vars

-----------------------------------------------------------------------------
(* Properties.                                                             *)

Result == [op : {"none", "read", "write"}, lba : Lba, ok : BOOLEAN, data : Data]

TypeOK ==
    /\ disk \in [Lba -> Data]
    /\ g_cache \in [Line -> [lba : Lba, valid : BOOLEAN, data : Data]]
    /\ result \in Result
    /\ expect \in [Lba -> SUBSET Data]
    /\ garbled \subseteq Line
    /\ stale \subseteq Line

(* Write-through: a line mirrors the very sector it is filed under, unless *)
(* a transfer that involved the line has failed since it was last filled;  *)
(* a later successful read or write of the line heals it (Fill, IndexOf).  *)
LinesMirrorDisk ==
    \A i \in Line :
       g_cache[i].valid =>
          /\ IndexOf(g_cache[i].lba) = i
          /\ i \notin garbled \cup stale => g_cache[i].data = disk[g_cache[i].lba]

(* Across hits, misses, evictions, failed writes and reboots, a read that  *)
(* succeeds returns what the last acknowledged write of that sector        *)
(* stored, or what a failed write since then tried to store, provided no   *)
(* failed read has gone through the line (disk_read_sectors,               *)
(* disk_write_sectors).                                                    *)
ReadsAreExplained ==
    result.op = "read" /\ result.ok /\ IndexOf(result.lba) \notin garbled =>
       result.data \in expect[result.lba]

(* What survives a reboot: an acknowledged write is on the disk, whatever  *)
(* the cache went through.                                                 *)
AcknowledgedIsDurable == \A lba \in Lba : disk[lba] \in expect[lba]

(* "Read count sectors from LBA into out. Returns 0 on success" (disk.h:4- *)
(* 5): what a successful read returns was at some time stored under that   *)
(* LBA.  The code does not keep this: a read that fails late leaves its    *)
(* data in a line that is still valid for another sector.                  *)
ReadReturnsTheSector ==
    result.op = "read" /\ result.ok => result.data \in expect[result.lba]

(* "update cache so subsequent reads see the new data" (disk.c:192): a     *)
(* line no failed read has touched never differs from the disk.  The code  *)
(* does not keep this: a write that fails after the sector was handed over *)
(* returns before it updates, or invalidates, the line.                    *)
CacheNeverStale ==
    \A i \in Line : g_cache[i].valid /\ i \notin garbled =>
                       g_cache[i].data = disk[g_cache[i].lba]

=============================================================================
