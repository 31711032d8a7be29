------------------------------- MODULE Fat32 -------------------------------
(***************************************************************************)
(* The FAT32 driver of modules/fs/fat32.c, sector by sector.  It knows the *)
(* first sector of the FAT, the first sector of the root directory and the *)
(* data clusters, and moves them through two static buffers, of which      *)
(* disk_buffer holds the FAT at one moment and the directory at the next.  *)
(*                                                                         *)
(* An operation runs in the kernel to its end; a step of the model is one  *)
(* transfer of a sector and the computation up to the next.  Between two   *)
(* steps the machine may be switched off.  A transfer may fail: the driver *)
(* gives up after a failed read and does not look whether a write failed.  *)
(* A cluster is one sector, which is how mkfs.fat formats a small image.   *)
(***************************************************************************)
EXTENDS Naturals, Sequences, FiniteSets

CONSTANTS
    SECTOR,             \* bytes in a sector (512)
    FAT_ENTRIES,        \* cluster numbers the driver looks at (128)
    DIR_ENTRIES,        \* entries of the root directory it looks at (16)
    max_valid_clusters, \* limit of the cycle guard
    Name,               \* file names
    Byte,               \* the bytes the model tells apart, 0 among them
    Data,               \* what may be written (no more than 255 bytes)
    Image,              \* the disks the machine may be started with
    MaxOps,             \* bound: file operations in a behaviour
    MaxFaults           \* bound: failed transfers and power failures

\* What a byte of the directory says of an entry without a file.
END     == "end"        \* 0x00: no entry from here on
DELETED == "deleted"    \* 0xE5

FREE == 0
EOF  == FAT_ENTRIES     \* stands for 0x0FFFFFF8 and above

Cluster == 2 .. FAT_ENTRIES - 1
Entry   == 0 .. DIR_ENTRIES - 1
root_dir_cluster == 2

FatTable  == [0 .. FAT_ENTRIES - 1 -> 0 .. FAT_ENTRIES]
DirEntry  == [name : Name \cup {END, DELETED}, cluster : 0 .. FAT_ENTRIES - 1, size : Nat]
Directory == [Entry -> DirEntry]
Contents  == [1 .. SECTOR -> Byte]

\* Sectors by number: the first one of the FAT, then the end of the last copy
\* of the FAT (which cluster_to_sector yields for the clusters 0 and 1, as in
\* the entry of an empty file), then one for each cluster.
fat_start_sector == 0
FatTail == 1
Sector  == {fat_start_sector, FatTail} \cup Cluster
cluster_to_sector(cluster) == IF cluster < 2 THEN FatTail ELSE cluster
root_sector == cluster_to_sector(root_dir_cluster)

ASSUME SizeAssumption ==
    /\ SECTOR \in Nat \ {0} /\ FAT_ENTRIES \in Nat /\ FAT_ENTRIES > 2
    /\ DIR_ENTRIES \in Nat \ {0} /\ max_valid_clusters \in Nat
    /\ MaxOps \in Nat /\ MaxFaults \in Nat

ASSUME DataAssumption ==
    /\ Name \cap {END, DELETED} = {}
    /\ 0 \in Byte
    /\ Data \subseteq {d \in Seq(Byte) : Len(d) < SECTOR}

\* Whose the clusters are, for a FAT, a directory and an owner of each: the entry its
\* chain begins in, and nobody else.
IsFree(e) == e.name \in {END, DELETED}
NoOne == DIR_ENTRIES
OwnedBy(fat, dir, own) ==
    /\ \A i \in Entry : (~IsFree(dir[i]) /\ dir[i].cluster \in Cluster) => own[dir[i].cluster] = i
    /\ \A c \in Cluster :
            own[c] # NoOne => /\ ~IsFree(dir[own[c]]) /\ fat[c] # FREE
                              /\ fat[c] \in Cluster => own[fat[c]] = own[c]
    /\ own[root_dir_cluster] = NoOne

\* A disk has its sectors in their places, no chain leads to the directory, the first
\* two entries of the FAT are no links, and the chains of files do not meet.  One may be
\* a circle.
ASSUME ImageAssumption ==
    \A d \in Image :
        LET fat == d[fat_start_sector]
            dir == d[root_sector]
        IN  /\ d = [s \in Sector |-> d[s]]
            /\ fat \in FatTable /\ dir \in Directory
            /\ \A s \in Sector \ {fat_start_sector, root_sector} : d[s] \in Contents
            /\ fat[root_dir_cluster] # FREE
            /\ \A c \in {0, 1} : fat[c] \notin Cluster
            /\ \A c \in 0 .. FAT_ENTRIES - 1 : fat[c] # root_dir_cluster
            /\ \A i \in Entry : ~IsFree(dir[i]) => dir[i].cluster # root_dir_cluster
            /\ \E own \in [Cluster -> Entry \cup {NoOne}] : OwnedBy(fat, dir, own)

VARIABLES
    disk,           \* what each sector holds
    disk_buffer,    \* the buffer for the FAT and for the directory
    write_buffer,   \* the buffer for a data sector
    pc,             \* "idle", or the transfer an operation is at
    op,             \* the operation: kind, name and data
    cluster,        \* free_cluster, or current_cluster
    entry,          \* file_idx
    offset,         \* current_size % 512
    cycle_guard,
    result,         \* how the last operation ended
    ops,            \* bound counter: operations
    faults,         \* bound counter: failed transfers and power failures
    missed          \* history: the sectors some write to which failed

buffers == <<disk_buffer, write_buffer>>
locals  == <<cluster, entry, offset, cycle_guard>>
vars == <<disk, buffers, pc, op, locals, result, ops, faults, missed>>

NoOp == [kind |-> "none"]
Blank == [i \in 1 .. SECTOR |-> 0]

PC == {"idle", "write_fat", "write_fat_back", "write_data", "write_root",
       "write_root_back", "append_root", "append_fat", "append_follow",
       "append_data", "append_data_back", "append_root_again",
       "append_root_back", "read_root", "read_data"}

Init ==
    /\ disk \in Image
    /\ disk_buffer = Blank /\ write_buffer = Blank
    /\ pc = "idle" /\ op = NoOp
    /\ cluster = 0 /\ entry = 0 /\ offset = 0 /\ cycle_guard = 0
    /\ result = "none"
    /\ ops = 0 /\ faults = 0 /\ missed = {}

(***************************************************************************)
(* Transfers.                                                              *)
(***************************************************************************)
Fault == faults < MaxFaults /\ faults' = faults + 1

Return(how) == pc' = "idle" /\ result' = how

\* virtio_blk_read_sector fails and the operation returns.
ReadFails(at) ==
    /\ pc = at
    /\ Fault
    /\ Return("gave_up")
    /\ UNCHANGED <<disk, buffers, op, locals, ops, missed>>

\* virtio_blk_write_sector, whose return value nobody looks at.
WriteSector(sector, contents) ==
    \/ disk' = [disk EXCEPT ![sector] = contents] /\ UNCHANGED <<faults, missed>>
    \/ Fault /\ missed' = missed \cup {sector} /\ UNCHANGED disk

(***************************************************************************)
(* Calls.  fs_append_file_content falls back on fs_write_file_content.     *)
(***************************************************************************)
Call(kind, first, name, data) ==
    /\ pc = "idle"
    /\ ops < MaxOps
    /\ ops' = ops + 1
    /\ op' = [kind |-> kind, name |-> name, data |-> data]
    /\ pc' = first
    /\ result' = "none"
    /\ UNCHANGED <<disk, buffers, locals, faults, missed>>

CallWrite  == \E name \in Name, data \in Data : Call("write", "write_fat", name, data)
CallAppend == \E name \in Name, data \in Data : Call("append", "append_root", name, data)
CallRead   == \E name \in Name : Call("read", "read_root", name, << >>)

(***************************************************************************)
(* fs_write_file_content: take a cluster, fill it, then make an entry.     *)
(***************************************************************************)
FirstFree(fat) ==
    CHOOSE c \in Cluster : fat[c] = FREE /\ \A d \in Cluster : fat[d] = FREE => c <= d

WriteReadFat ==
    /\ pc = "write_fat"
    /\ LET fat == disk[fat_start_sector] IN
       IF \E c \in Cluster : fat[c] = FREE
       THEN /\ cluster' = FirstFree(fat)
            /\ disk_buffer' = [fat EXCEPT ![FirstFree(fat)] = EOF]
            /\ pc' = "write_fat_back"
            /\ UNCHANGED result
       ELSE /\ disk_buffer' = fat
            /\ Return("no_space")
            /\ UNCHANGED cluster
    /\ UNCHANGED <<disk, write_buffer, op, entry, offset, cycle_guard, ops, faults, missed>>

\* Faulty variant: the FAT is not written back.
WriteFatForgotten ==
    /\ pc = "write_fat_back"
    /\ pc' = "write_data"
    /\ UNCHANGED <<disk, buffers, op, locals, result, ops, faults, missed>>

WriteFatBack ==
    /\ pc = "write_fat_back"
    /\ WriteSector(fat_start_sector, disk_buffer)
    /\ pc' = "write_data"
    /\ UNCHANGED <<buffers, op, locals, result, ops>>

\* Faulty variants: the offset is ignored, or off by one.
FillFromStart(from, at, data) ==
    [i \in 1 .. SECTOR |-> IF i <= Len(data) THEN data[i] ELSE from[i]]

FillOneLate(from, at, data) ==
    [i \in 1 .. SECTOR |-> IF i > at + 1 /\ i - at <= Len(data) THEN data[i - at] ELSE from[i]]

\* A sector with data copied into it at an offset, as far as it fits.
Fill(from, at, data) ==
    [i \in 1 .. SECTOR |-> IF i > at /\ i - at <= Len(data) THEN data[i - at] ELSE from[i]]

WriteData ==
    /\ pc = "write_data"
    /\ write_buffer' = Fill(Blank, 0, op.data)
    /\ WriteSector(cluster_to_sector(cluster), write_buffer')
    /\ pc' = "write_root"
    /\ UNCHANGED <<disk_buffer, op, locals, result, ops>>

FirstFreeEntry(dir) ==
    CHOOSE i \in Entry : IsFree(dir[i]) /\ \A j \in Entry : IsFree(dir[j]) => i <= j

WriteReadRoot ==
    /\ pc = "write_root"
    /\ LET dir == disk[root_sector] IN
       IF \E i \in Entry : IsFree(dir[i])
       THEN /\ disk_buffer' = [dir EXCEPT ![FirstFreeEntry(dir)] =
                    [name |-> op.name, cluster |-> cluster, size |-> Len(op.data)]]
            /\ pc' = "write_root_back"
            /\ UNCHANGED result
       ELSE /\ disk_buffer' = dir
            /\ Return("no_entry")
    /\ UNCHANGED <<disk, write_buffer, op, locals, ops, faults, missed>>

WriteRootBack ==
    /\ pc = "write_root_back"
    /\ WriteSector(root_sector, disk_buffer)
    /\ Return("done")
    /\ UNCHANGED <<buffers, op, locals, ops>>

(***************************************************************************)
(* fs_append_file_content.                                                 *)
(***************************************************************************)
Matches(dir, name) == {i \in Entry : dir[i].name = name}
FirstMatch(dir, name) ==
    CHOOSE i \in Matches(dir, name) : \A j \in Matches(dir, name) : i <= j

\* Faulty variant: the offset is not reduced to the sector.
OffsetInFile(size) == size

OffsetInSector(size) == size % SECTOR

AppendReadRoot ==
    /\ pc = "append_root"
    /\ disk_buffer' = disk[root_sector]
    /\ LET dir == disk[root_sector] IN
       IF Matches(dir, op.name) = {}
       THEN pc' = "write_fat" /\ UNCHANGED <<entry, cluster, offset>>
       ELSE LET i == FirstMatch(dir, op.name) IN
            /\ entry' = i
            /\ cluster' = dir[i].cluster
            /\ offset' = OffsetInSector(dir[i].size)
            /\ pc' = "append_fat"
    /\ UNCHANGED <<disk, write_buffer, op, cycle_guard, result, ops, faults, missed>>

AppendReadFat ==
    /\ pc = "append_fat"
    /\ disk_buffer' = disk[fat_start_sector]
    /\ cycle_guard' = 0
    /\ pc' = "append_follow"
    /\ UNCHANGED <<disk, write_buffer, op, cluster, entry, offset, result, ops, faults, missed>>

HasNext == disk_buffer[cluster] >= 2 /\ disk_buffer[cluster] # EOF

\* Faulty variant: the guard is not counted up.
AppendFollowUncounted ==
    /\ pc = "append_follow"
    /\ HasNext
    /\ cluster' = disk_buffer[cluster]
    /\ UNCHANGED <<disk, buffers, pc, op, entry, offset, cycle_guard, result, ops, faults, missed>>

AppendFollow ==
    /\ pc = "append_follow"
    /\ HasNext
    /\ cluster' = disk_buffer[cluster]
    /\ cycle_guard' = cycle_guard + 1
    /\ IF cycle_guard' > max_valid_clusters
       THEN Return("circular")
       ELSE UNCHANGED <<pc, result>>
    /\ UNCHANGED <<disk, buffers, op, entry, offset, ops, faults, missed>>

AppendLastFound ==
    /\ pc = "append_follow"
    /\ ~HasNext
    /\ pc' = "append_data"
    /\ UNCHANGED <<disk, buffers, op, locals, result, ops, faults, missed>>

AppendReadData ==
    /\ pc = "append_data"
    /\ write_buffer' = Fill(disk[cluster_to_sector(cluster)], offset, op.data)
    /\ pc' = "append_data_back"
    /\ UNCHANGED <<disk, disk_buffer, op, locals, result, ops, faults, missed>>

AppendDataBack ==
    /\ pc = "append_data_back"
    /\ WriteSector(cluster_to_sector(cluster), write_buffer)
    /\ pc' = "append_root_again"
    /\ UNCHANGED <<buffers, op, locals, result, ops>>

\* Faulty variant: the entry grows by the whole text.
CopiedUncut == Len(op.data)

\* to_copy: what did not fit in the sector is left out.
Copied == IF Len(op.data) < SECTOR - offset THEN Len(op.data) ELSE SECTOR - offset

\* Faulty variant: the directory is not read again.
AppendReadRootSkipped ==
    /\ pc = "append_root_again"
    /\ pc' = "append_root_back"
    /\ UNCHANGED <<disk, buffers, op, locals, result, ops, faults, missed>>

AppendReadRootAgain ==
    /\ pc = "append_root_again"
    /\ disk_buffer' = [disk[root_sector] EXCEPT ![entry].size = @ + Copied]
    /\ pc' = "append_root_back"
    /\ UNCHANGED <<disk, write_buffer, op, locals, result, ops, faults, missed>>

AppendRootBack ==
    /\ pc = "append_root_back"
    /\ WriteSector(root_sector, disk_buffer)
    /\ Return("done")
    /\ UNCHANGED <<buffers, op, locals, ops>>

(***************************************************************************)
(* fs_read_file_content and fs_get_dir_list, which change only buffers.    *)
(***************************************************************************)
\* The entry a reader finds: it stops at the end mark.
Before(dir, i) == {j \in Entry : j < i}
Visible(dir, name) ==
    {i \in Matches(dir, name) : \A j \in Before(dir, i) : dir[j].name # END}
FirstVisible(dir, name) ==
    CHOOSE i \in Visible(dir, name) : \A j \in Visible(dir, name) : i <= j

ReadRoot ==
    /\ pc = "read_root"
    /\ LET dir == disk[root_sector] IN
       /\ disk_buffer' = dir
       /\ IF Visible(dir, op.name) = {} \/ dir[FirstVisible(dir, op.name)].cluster = 0
          THEN Return("not_found") /\ UNCHANGED <<cluster, entry>>
          ELSE /\ entry' = FirstVisible(dir, op.name)
               /\ cluster' = dir[FirstVisible(dir, op.name)].cluster
               /\ pc' = "read_data"
               /\ UNCHANGED result
    /\ UNCHANGED <<disk, write_buffer, op, offset, cycle_guard, ops, faults, missed>>

ReadData ==
    /\ pc = "read_data"
    /\ disk_buffer' = disk[cluster_to_sector(cluster)]
    /\ Return("text")
    /\ UNCHANGED <<disk, write_buffer, op, locals, ops, faults, missed>>

GetDirList ==
    /\ pc = "idle"
    /\ disk_buffer' = disk[root_sector]
    /\ UNCHANGED <<disk, write_buffer, pc, op, locals, result, ops, faults, missed>>

(***************************************************************************)
(* The machine is switched off and boots with zeroed buffers;              *)
(* fs_fat32_init leaves the boot sector in disk_buffer.                    *)
(***************************************************************************)
Reboot ==
    /\ Fault
    /\ disk_buffer' = Blank /\ write_buffer' = Blank
    /\ pc' = "idle" /\ op' = NoOp
    /\ cluster' = 0 /\ entry' = 0 /\ offset' = 0 /\ cycle_guard' = 0
    /\ result' = "none"
    /\ UNCHANGED <<disk, ops, missed>>

Reading == {"write_fat", "write_root", "append_root", "append_fat", "append_data",
            "append_root_again", "read_root", "read_data"}

WriteStep  == WriteReadFat \/ WriteFatBack \/ WriteData \/ WriteReadRoot \/ WriteRootBack
AppendStep == \/ AppendReadRoot \/ AppendReadFat \/ AppendFollow \/ AppendLastFound
              \/ AppendReadData \/ AppendDataBack \/ AppendReadRootAgain \/ AppendRootBack
ReadStep   == ReadRoot \/ ReadData

Step == WriteStep \/ AppendStep \/ ReadStep \/ \E at \in Reading : ReadFails(at)

Next ==
    \/ CallWrite \/ CallAppend \/ CallRead \/ GetDirList
    \/ Step
    \/ Reboot

\* An operation that has begun runs on.
Spec == Init /\ [][Next]_vars /\ WF_vars(Step)

(***************************************************************************)
(* What the disk means.                                                    *)
(***************************************************************************)
Fat  == disk[fat_start_sector]
Root == disk[root_sector]
Used == {i \in Entry : ~IsFree(Root[i])}

\* The cluster behind one in its chain, or 0.
Behind == [c \in 0 .. FAT_ENTRIES - 1 |-> IF c \in Cluster /\ Fat[c] \in Cluster THEN Fat[c] ELSE 0]

\* The n-th cluster of the file of an entry, or 0 when its chain is shorter.
Nth(i) ==
    LET f[n \in 1 .. FAT_ENTRIES] == IF n = 1 THEN Root[i].cluster ELSE Behind[f[n - 1]]
    IN  f

ClustersOf(i) == {Nth(i)[n] : n \in 1 .. FAT_ENTRIES} \cap Cluster

\* The bytes of a file, as another system reads them: size bytes along the chain.
ContentsOf(i) ==
    [b \in 1 .. Root[i].size |->
        disk[cluster_to_sector(Nth(i)[1 + ((b - 1) \div SECTOR)])][1 + ((b - 1) % SECTOR)]]

\* fs_append_file_content "assumes payload fits within the remaining space of
\* the last sector": the file ends within its last sector, not on its edge.
EndsInLastSector(i) ==
    LET n == Cardinality(ClustersOf(i)) IN
    /\ Root[i].cluster \in Cluster /\ Fat[Nth(i)[n]] = EOF
    /\ Root[i].size < n * SECTOR /\ Root[i].size >= (n - 1) * SECTOR

FatNeverMissed == fat_start_sector \notin missed

(***************************************************************************)
(* Properties.                                                             *)
(***************************************************************************)
TypeOK ==
    /\ disk \in [Sector -> FatTable \cup Directory \cup Contents]
    /\ pc \in PC
    /\ cluster \in 0 .. FAT_ENTRIES - 1 /\ entry \in Entry
    /\ offset \in 0 .. SECTOR - 1
    /\ cycle_guard \in 0 .. max_valid_clusters + 1
    /\ result \in {"none", "done", "gave_up", "no_space", "no_entry", "circular",
                   "not_found", "text"}
    /\ ops \in 0 .. MaxOps /\ faults \in 0 .. MaxFaults
    /\ missed \subseteq Sector

\* "DANGER ZONE": disk_buffer holds the FAT and the directory in turn, and none
\* is ever written over the other, whatever fails and wherever power is lost.
SectorsKeepTheirKind ==
    /\ disk[fat_start_sector] \in FatTable
    /\ disk[root_sector] \in Directory
    /\ \A c \in Cluster \ {root_dir_cluster} : disk[c] \in Contents

\* Every file owns its clusters, and the FAT says so, also after a power failure
\* between any two writes: the FAT is written first.  A write to the FAT that
\* fails unnoticed breaks this, and only that does.
FilesOwnTheirClusters ==
    FatNeverMissed =>
        /\ \A i \in Used : \A c \in ClustersOf(i) : Fat[c] # FREE
        /\ \A i, j \in Used : i # j => ClustersOf(i) \cap ClustersOf(j) = {}
        /\ \A i \in Used : root_dir_cluster \notin ClustersOf(i)

IsPrefixOf(s, t) == Len(s) <= Len(t) /\ \A k \in 1 .. Len(s) : t[k] = s[k]

\* A file that ends within its last sector keeps its entry and every byte it
\* has: operations on it and on others, failed transfers and power failures only
\* ever add to its end.
FilesOnlyGrow ==
    [][ FatNeverMissed' =>
          \A i \in Used : EndsInLastSector(i) =>
              /\ Root'[i].name = Root[i].name /\ Root'[i].cluster = Root[i].cluster
              /\ IsPrefixOf(ContentsOf(i), ContentsOf(i)') ]_vars

\* The text that an append puts behind a file: as much of it as the sector has room for.
Grows(i) == ContentsOf(i)' = ContentsOf(i) \o SubSeq(op.data, 1, Copied)

\* A text goes in all at once, whatever fails and wherever power is lost, unless a write
\* of the data or of the FAT fails unnoticed: when the entry of a file appears, it has
\* all of its text, and a file that ends within its last sector is either as it was or
\* has got all of what an append to it copies, and no other byte.
TextsGoInWhole ==
    [][ missed' \subseteq {root_sector} =>
          /\ \A i \in Entry : (i \notin Used /\ i \in Used') =>
                Root'[i].name = op.name /\ ContentsOf(i)' = op.data
          /\ \A i \in Used : EndsInLastSector(i) =>
                \/ ContentsOf(i)' = ContentsOf(i)
                \/ op.kind = "append" /\ Root[i].name = op.name /\ Grows(i) ]_vars

\* What is left of "Write committed to disk." and "new entries persisted.": when an
\* operation runs to its end and no write has failed, there is a new file of that name
\* with that text, or the file that an append found has grown by its text.
DoneMeansOnDisk ==
    [][ (result # "done" /\ result' = "done" /\ missed' = {}) =>
          \/ \E i \in Used' \ Used : Root'[i].name = op.name /\ ContentsOf(i)' = op.data
          \/ \E i \in Used : /\ op.kind = "append" /\ i = entry /\ Root[i].name = op.name
                             /\ EndsInLastSector(i) => Grows(i) ]_vars

\* The cycle guard: no operation runs forever, on a damaged FAT either.
OperationsEnd == pc # "idle" ~> pc = "idle"

\* The transfers that an operation has left, at most: a walk ends with its chain, or when
\* the guard has counted as many links as there are clusters.
Left ==
    CASE pc = "idle" -> 0
      [] pc \in {"read_data", "write_root_back", "append_root_back"} -> 1
      [] pc \in {"read_root", "write_root", "append_root_again"} -> 2
      [] pc \in {"write_data", "append_data_back"} -> 3
      [] pc \in {"write_fat_back", "append_data"} -> 4
      [] pc = "write_fat" -> 5
      [] pc = "append_follow" -> 5 + (max_valid_clusters - cycle_guard)
      [] pc = "append_fat" -> 6 + max_valid_clusters
      [] pc = "append_root" -> 7 + max_valid_clusters

\* How long that is: each step of an operation, a link that a walk follows included,
\* leaves fewer of them, on any FAT, whatever fails and also when an append turns out
\* to be a write.
OperationsAdvance == [][pc # "idle" => Left' < Left]_vars

\* "Write committed to disk.", which syscall_handler answers to every write that
\* returns, and "Payload committed to TRADES.LOG on disk.", which the shell then
\* prints: a file of that name with that text is on the disk.
CommittedMeansOnDisk ==
    (pc = "idle" /\ op.kind = "write" /\ result # "none") =>
        \E i \in Used : Root[i].name = op.name /\ ContentsOf(i) = op.data

EndsWith(s, t) ==
    Len(t) <= Len(s) /\ \A k \in 1 .. Len(t) : s[Len(s) - Len(t) + k] = t[k]

\* "new entries persisted.", which watcher_sync_to_disk prints after its appends:
\* once an append has run to its end, its text is at the end of such a file.
PersistedMeansOnDisk ==
    (pc = "idle" /\ op.kind = "append" /\ result = "done") =>
        \E i \in Used : Root[i].name = op.name /\ EndsWith(ContentsOf(i), op.data)
=============================================================================
