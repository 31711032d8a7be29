---------------------------- MODULE Fat32_proofs ----------------------------
(***************************************************************************)
(* Proofs about Fat32, for disks of every size: what the driver reads and  *)
(* writes keeps its kind, files do not share clusters and keep their       *)
(* bytes, and no operation takes more transfers than it may.               *)
(***************************************************************************)
EXTENDS Fat32, FiniteSetTheorems, WellFoundedInduction, TLAPS

(***************************************************************************)
(* Numbers and sectors.                                                    *)
(***************************************************************************)
LEMMA Least ==
    ASSUME NEW T \in SUBSET Nat, T # {}
    PROVE  \E x \in T : \A y \in T : x <= y
<1> DEFINE R == OpToRel(<, Nat)
<1>1. IsWellFoundedOn(R, Nat)
  BY NatLessThanWellFounded, Zenon
<1>2. \A x \in Nat, y \in Nat : x < y => <<x, y>> \in R
  BY DEF OpToRel
<1> HIDE DEF R
<1>3. PICK x \in T : \A y \in T : ~(<<y, x>> \in R)
  BY <1>1, WFMin
<1>4. ASSUME NEW y \in T
      PROVE  x <= y
  <2>1. x \in Nat /\ y \in Nat /\ ~(<<y, x>> \in R)
    BY <1>3
  <2>2. ~(y < x)
    BY <1>2, <2>1
  <2>3. QED
    BY <2>1, <2>2
<1>5. QED
  BY <1>4

LEMMA Remainder ==
    ASSUME NEW size \in Nat
    PROVE  size % SECTOR \in 0 .. SECTOR - 1
BY SizeAssumption

Place == 0 .. FAT_ENTRIES - 1

LEMMA Places ==
    /\ fat_start_sector \in Sector /\ root_sector \in Sector /\ fat_start_sector # root_sector
    /\ root_dir_cluster \in Cluster /\ Cluster \subseteq Place /\ EOF \notin Cluster
    /\ EOF # FREE /\ FREE \notin Cluster
    /\ \A c \in Place \ {root_dir_cluster} :
            cluster_to_sector(c) \in Sector \ {fat_start_sector, root_sector}
BY SizeAssumption DEF Sector, fat_start_sector, root_sector, root_dir_cluster, FatTail,
                      cluster_to_sector, Cluster, Place, EOF, FREE

DataSector == Sector \ {fat_start_sector, root_sector}

LEMMA FirstFreeIsFree ==
    ASSUME NEW fat, \E c \in Cluster : fat[c] = FREE
    PROVE  FirstFree(fat) \in Cluster /\ fat[FirstFree(fat)] = FREE
<1> DEFINE T == {c \in Cluster : fat[c] = FREE}
<1>1. T \in SUBSET Nat /\ T # {}
  BY SizeAssumption DEF Cluster
<1> HIDE DEF T
<1>2. PICK c \in T : \A d \in T : c <= d
  BY <1>1, Least
<1>3. \E x \in Cluster : fat[x] = FREE /\ \A d \in Cluster : fat[d] = FREE => x <= d
  BY <1>2 DEF T
<1>4. QED
  BY <1>3 DEF FirstFree

LEMMA FirstFreeEntryIsFree ==
    ASSUME NEW dir, \E i \in Entry : IsFree(dir[i])
    PROVE  FirstFreeEntry(dir) \in Entry /\ IsFree(dir[FirstFreeEntry(dir)])
<1> DEFINE T == {i \in Entry : IsFree(dir[i])}
<1>1. T \in SUBSET Nat /\ T # {}
  BY SizeAssumption DEF Entry
<1> HIDE DEF T
<1>2. PICK i \in T : \A j \in T : i <= j
  BY <1>1, Least
<1>3. \E x \in Entry : IsFree(dir[x]) /\ \A j \in Entry : IsFree(dir[j]) => x <= j
  BY <1>2 DEF T
<1>4. QED
  BY <1>3 DEF FirstFreeEntry

LEMMA FirstMatchMatches ==
    ASSUME NEW dir, NEW name \in Name, Matches(dir, name) # {}
    PROVE  /\ FirstMatch(dir, name) \in Entry /\ dir[FirstMatch(dir, name)].name = name
           /\ ~IsFree(dir[FirstMatch(dir, name)])
<1> DEFINE T == Matches(dir, name)
<1>1. T \in SUBSET Nat /\ T # {}
  BY SizeAssumption DEF Entry, Matches
<1> HIDE DEF T
<1>2. PICK i \in T : \A j \in T : i <= j
  BY <1>1, Least
<1>3. FirstMatch(dir, name) \in T
  BY <1>2 DEF FirstMatch, T
<1>4. QED
  BY <1>3, DataAssumption DEF T, Matches, IsFree

LEMMA FirstVisibleIsVisible ==
    ASSUME NEW dir, NEW name \in Name, Visible(dir, name) # {}
    PROVE  FirstVisible(dir, name) \in Entry
<1> DEFINE T == Visible(dir, name)
<1>1. T \in SUBSET Nat /\ T # {}
  BY SizeAssumption DEF Entry, Visible, Matches
<1> HIDE DEF T
<1>2. PICK i \in T : \A j \in T : i <= j
  BY <1>1, Least
<1>3. FirstVisible(dir, name) \in T
  BY <1>2 DEF FirstVisible, T
<1>4. QED
  BY <1>3 DEF T, Visible, Matches

(***************************************************************************)
(* What is in a sector.                                                    *)
(***************************************************************************)
LEMMA FatWithEnd ==
    ASSUME NEW fat \in FatTable, NEW c \in Cluster
    PROVE  /\ [fat EXCEPT ![c] = EOF] \in FatTable
           /\ [fat EXCEPT ![c] = EOF][c] = EOF
           /\ \A d \in Place : d # c => [fat EXCEPT ![c] = EOF][d] = fat[d]
BY SizeAssumption, Places DEF FatTable, EOF, Place

LEMMA FatLink ==
    ASSUME NEW fat \in FatTable, NEW c \in Place
    PROVE  fat[c] \in 0 .. FAT_ENTRIES /\ (fat[c] >= 2 /\ fat[c] # EOF => fat[c] \in Cluster)
BY SizeAssumption DEF FatTable, Place, EOF, Cluster

WithEntry(dir, e, name, c, n) ==
    [dir EXCEPT ![e] = [name |-> name, cluster |-> c, size |-> n]]
WithSize(dir, e, n) == [dir EXCEPT ![e].size = n]

LEMMA NewEntry ==
    ASSUME NEW dir \in Directory, NEW e \in Entry, NEW name \in Name, NEW c \in Place,
           NEW n \in Nat,
           NEW new, new = WithEntry(dir, e, name, c, n)
    PROVE  /\ new \in Directory /\ new[e].name = name /\ new[e].cluster = c
           /\ \A i \in Entry : i # e => new[i] = dir[i]
<1>1. [name |-> name, cluster |-> c, size |-> n] \in DirEntry
  BY DEF DirEntry, Place
<1>2. QED
  BY <1>1 DEF Directory, WithEntry

LEMMA NewSize ==
    ASSUME NEW dir \in Directory, NEW e \in Entry, NEW n \in Nat,
           NEW new, new = WithSize(dir, e, n)
    PROVE  /\ new \in Directory
           /\ \A i \in Entry : new[i].name = dir[i].name /\ new[i].cluster = dir[i].cluster
<1>1. dir[e] \in DirEntry /\ [dir[e] EXCEPT !.size = n] \in DirEntry
  BY DEF Directory, DirEntry
<1>2. /\ [dir[e] EXCEPT !.size = n].name = dir[e].name
      /\ [dir[e] EXCEPT !.size = n].cluster = dir[e].cluster
  BY <1>1 DEF DirEntry
<1>3. new = [dir EXCEPT ![e] = [dir[e] EXCEPT !.size = n]]
  BY DEF WithSize
<1>4. QED
  BY <1>1, <1>2, <1>3 DEF Directory

LEMMA EntryFields ==
    ASSUME NEW dir \in Directory, NEW e \in Entry
    PROVE  dir[e].cluster \in Place /\ dir[e].size \in Nat
BY DEF Directory, DirEntry, Place

LEMMA Filled ==
    ASSUME NEW from \in Contents, NEW at \in Nat, NEW data \in Seq(Byte)
    PROVE  Fill(from, at, data) \in Contents
<1>1. ASSUME NEW i \in 1 .. SECTOR, i > at, i - at <= Len(data)
      PROVE  data[i - at] \in Byte
  <2>1. i - at \in 1 .. Len(data)
    BY <1>1
  <2>2. QED
    BY <2>1
<1>2. QED
  BY <1>1 DEF Fill, Contents

LEMMA BlankIsContents == Blank \in Contents
BY DataAssumption DEF Blank, Contents

(***************************************************************************)
(* The inductive invariant: what each sector and buffer holds while an     *)
(* operation is under way.                                                 *)
(***************************************************************************)
Counters ==
    /\ pc \in PC /\ cluster \in Place /\ entry \in Entry /\ offset \in 0 .. SECTOR - 1
    /\ cycle_guard \in 0 .. max_valid_clusters + 1
    /\ pc = "append_follow" => cycle_guard <= max_valid_clusters
    /\ result \in {"none", "done", "gave_up", "no_space", "no_entry", "circular",
                   "not_found", "text"}
    /\ ops \in 0 .. MaxOps /\ faults \in 0 .. MaxFaults
    /\ missed \subseteq Sector

Kinds ==
    /\ disk = [s \in Sector |-> disk[s]]
    /\ Fat \in FatTable /\ Root \in Directory
    /\ \A s \in DataSector : disk[s] \in Contents

\* No chain leads to the root directory, and its cluster is never taken.
RootApart ==
    /\ Fat[root_dir_cluster] # FREE
    /\ \A c \in Place : Fat[c] # root_dir_cluster
    /\ \A i \in Entry : ~IsFree(Root[i]) => Root[i].cluster # root_dir_cluster

Asked == pc # "idle" => op.name \in Name /\ op.data \in Seq(Byte)

Allocating == {"write_data", "write_root", "write_root_back"}
Following  == {"append_fat", "append_follow", "append_data", "append_data_back"}

Underway ==
    /\ pc = "write_fat_back" =>
            Fat[cluster] = FREE /\ cluster \in Cluster /\ disk_buffer = [Fat EXCEPT ![cluster] = EOF]
    /\ pc \in {"write_fat_back"} \cup Allocating \cup Following => cluster # root_dir_cluster
    /\ pc = "write_root_back" =>
            \E e \in Entry : IsFree(Root[e]) /\
                disk_buffer = WithEntry(Root, e, op.name, cluster, Len(op.data))
    /\ pc = "append_follow" => disk_buffer = Fat
    /\ pc = "append_data_back" => write_buffer \in Contents
    /\ pc = "append_root_back" =>
            \E n \in Nat : disk_buffer = WithSize(Root, entry, n)

IInv == Counters /\ Kinds /\ RootApart /\ Asked /\ Underway

LEMMA InitIInv == Init => IInv
<1> SUFFICES ASSUME Init
             PROVE  IInv
  OBVIOUS
<1>1. disk \in Image /\ pc = "idle" /\ cluster = 0 /\ entry = 0 /\ offset = 0
      /\ cycle_guard = 0 /\ result = "none" /\ ops = 0 /\ faults = 0 /\ missed = {}
  BY DEF Init
<1>2. Counters
  BY <1>1, SizeAssumption DEF Counters, PC, Place, Entry
<1>3. Kinds /\ RootApart
  BY <1>1, ImageAssumption DEF Kinds, RootApart, Fat, Root, DataSector, Place
<1>4. Asked /\ Underway
  BY <1>1 DEF Asked, Underway, Allocating, Following
<1>5. QED
  BY <1>2, <1>3, <1>4 DEF IInv

(***************************************************************************)
(* Steps that leave the disk alone.                                        *)
(***************************************************************************)
LEMMA SameDisk ==
    ASSUME Kinds, RootApart, UNCHANGED disk
    PROVE  (Kinds /\ RootApart)' /\ Fat' = Fat /\ Root' = Root
BY DEF Kinds, RootApart, Fat, Root

LEMMA CallKeepsIInv ==
    ASSUME IInv, CallWrite \/ CallAppend \/ CallRead
    PROVE  IInv'
<1>1. /\ pc = "idle" /\ ops < MaxOps /\ ops' = ops + 1 /\ result' = "none"
      /\ pc' \in {"write_fat", "append_root", "read_root"}
      /\ UNCHANGED <<disk, buffers, locals, faults, missed>>
  BY DEF CallWrite, CallAppend, CallRead, Call
<1>2. op'.name \in Name /\ op'.data \in Seq(Byte)
  <2>1. \A d \in Data : d \in Seq(Byte)
    BY DataAssumption
  <2>2. << >> \in Seq(Byte)
    OBVIOUS
  <2>3. PICK kind \in {"write", "append", "read"}, name \in Name, data \in Data \cup {<< >>} :
            op' = [kind |-> kind, name |-> name, data |-> data]
    <3>1. CASE CallWrite
      BY <3>1 DEF CallWrite, Call
    <3>2. CASE CallAppend
      BY <3>2 DEF CallAppend, Call
    <3>3. CASE CallRead
      BY <3>3 DEF CallRead, Call
    <3>4. QED
      BY <3>1, <3>2, <3>3
  <2>4. data \in Seq(Byte)
    BY <2>1, <2>2
  <2>5. QED
    BY <2>3, <2>4
<1>3. Counters'
  BY <1>1, SizeAssumption DEF IInv, Counters, PC, locals
<1>4. QED
  BY <1>1, <1>2, <1>3, SameDisk DEF IInv, Asked, Underway, Allocating, Following

LEMMA IdleIsSound ==
    ASSUME Kinds', RootApart', Counters', pc' = "idle"
    PROVE  IInv'
BY DEF IInv, Asked, Underway, Allocating, Following

LEMMA ReturnKeepsIInv ==
    ASSUME IInv, Reboot \/ GetDirList \/ ReadData \/ \E at \in Reading : ReadFails(at)
    PROVE  IInv'
<1>1. UNCHANGED disk
  BY DEF Reboot, GetDirList, ReadData, ReadFails
<1>2. CASE pc' = "idle"
  <2>1. Counters'
    BY <1>2, SizeAssumption DEF IInv, Counters, PC, Reboot, GetDirList, ReadData, ReadFails,
                                Return, Fault, locals, Entry, Place
  <2>2. QED
    BY <1>1, <1>2, <2>1, SameDisk, IdleIsSound DEF IInv
<1>3. QED
  BY <1>2 DEF Reboot, GetDirList, ReadData, ReadFails, Return

LEMMA WriteReadFatKeepsIInv ==
    ASSUME IInv, WriteReadFat
    PROVE  IInv'
<1>1. UNCHANGED <<disk, op, entry, offset, cycle_guard, ops, faults, missed>> /\ pc = "write_fat"
  BY DEF WriteReadFat
<1>2. (Kinds /\ RootApart)' /\ Fat' = Fat /\ Root' = Root
  BY <1>1, SameDisk DEF IInv
<1>3. CASE \E c \in Cluster : Fat[c] = FREE
  <2>1. /\ cluster' = FirstFree(Fat) /\ disk_buffer' = [Fat EXCEPT ![FirstFree(Fat)] = EOF]
        /\ pc' = "write_fat_back" /\ result' = result
    BY <1>3 DEF WriteReadFat, Fat
  <2>2. cluster' \in Cluster /\ Fat[cluster'] = FREE
    BY <1>3, <2>1, FirstFreeIsFree
  <2>3. cluster' # root_dir_cluster /\ cluster' \in Place
    BY <2>2, Places DEF IInv, RootApart
  <2>4. Counters'
    BY <1>1, <2>1, <2>3 DEF IInv, Counters, PC
  <2>5. QED
    BY <1>1, <1>2, <2>1, <2>2, <2>3, <2>4 DEF IInv, Asked, Underway, Allocating, Following
<1>4. CASE ~ \E c \in Cluster : Fat[c] = FREE
  <2>1. pc' = "idle" /\ result' = "no_space" /\ cluster' = cluster
    BY <1>4 DEF WriteReadFat, Fat, Return
  <2>2. Counters'
    BY <1>1, <2>1 DEF IInv, Counters, PC
  <2>3. QED
    BY <1>2, <2>1, <2>2, IdleIsSound
<1>5. QED
  BY <1>3, <1>4

LEMMA WriteReadRootKeepsIInv ==
    ASSUME IInv, WriteReadRoot
    PROVE  IInv'
<1>1. UNCHANGED <<disk, op, locals, ops, faults, missed>> /\ pc = "write_root"
  BY DEF WriteReadRoot
<1>2. (Kinds /\ RootApart)' /\ Fat' = Fat /\ Root' = Root
  BY <1>1, SameDisk DEF IInv
<1>3. CASE \E i \in Entry : IsFree(Root[i])
  <2>1. /\ disk_buffer' = [Root EXCEPT ![FirstFreeEntry(Root)] =
                    [name |-> op.name, cluster |-> cluster, size |-> Len(op.data)]]
        /\ pc' = "write_root_back" /\ result' = result
    BY <1>3 DEF WriteReadRoot, Root
  <2>2. FirstFreeEntry(Root) \in Entry /\ IsFree(Root[FirstFreeEntry(Root)])
    BY <1>3, FirstFreeEntryIsFree
  <2>3. Counters'
    BY <1>1, <2>1 DEF IInv, Counters, PC, locals
  <2>4. cluster # root_dir_cluster
    BY <1>1 DEF IInv, Underway, Allocating
  <2>5. \E e \in Entry : IsFree(Root'[e]) /\
                disk_buffer' = WithEntry(Root', e, op'.name, cluster', Len(op'.data))
    BY <1>1, <1>2, <2>1, <2>2 DEF locals, WithEntry
  <2>6. QED
    BY <1>1, <1>2, <2>1, <2>3, <2>4, <2>5
       DEF IInv, Asked, Underway, Allocating, Following, locals
<1>4. CASE ~ \E i \in Entry : IsFree(Root[i])
  <2>1. pc' = "idle" /\ result' = "no_entry"
    BY <1>4 DEF WriteReadRoot, Root, Return
  <2>2. Counters'
    BY <1>1, <2>1 DEF IInv, Counters, PC, locals
  <2>3. QED
    BY <1>2, <2>1, <2>2, IdleIsSound
<1>5. QED
  BY <1>3, <1>4

LEMMA AppendReadRootKeepsIInv ==
    ASSUME IInv, AppendReadRoot
    PROVE  IInv'
<1>1. UNCHANGED <<disk, op, cycle_guard, result, ops, faults, missed>> /\ pc = "append_root"
  BY DEF AppendReadRoot
<1>2. (Kinds /\ RootApart)' /\ Fat' = Fat /\ Root' = Root
  BY <1>1, SameDisk DEF IInv
<1>3. CASE Matches(Root, op.name) = {}
  <2>1. pc' = "write_fat" /\ UNCHANGED <<entry, cluster, offset>>
    BY <1>3 DEF AppendReadRoot, Root
  <2>2. Counters'
    BY <1>1, <2>1 DEF IInv, Counters, PC
  <2>3. QED
    BY <1>1, <1>2, <2>1, <2>2 DEF IInv, Asked, Underway, Allocating, Following
<1>4. CASE Matches(Root, op.name) # {}
  <2> DEFINE i == FirstMatch(Root, op.name)
  <2>1. /\ entry' = i /\ cluster' = Root[i].cluster
        /\ offset' = Root[i].size % SECTOR /\ pc' = "append_fat"
    BY <1>4 DEF AppendReadRoot, Root, OffsetInSector
  <2>2. i \in Entry /\ ~IsFree(Root[i])
    BY <1>1, <1>4, FirstMatchMatches DEF IInv, Asked
  <2> HIDE DEF i
  <2>3. Root[i].cluster \in Place /\ Root[i].size \in Nat
    BY <2>2, EntryFields DEF IInv, Kinds
  <2>4. offset' \in 0 .. SECTOR - 1
    BY <2>1, <2>3, Remainder
  <2>5. cluster' # root_dir_cluster
    BY <2>1, <2>2 DEF IInv, RootApart
  <2>6. Counters'
    BY <1>1, <2>1, <2>2, <2>3, <2>4 DEF IInv, Counters, PC
  <2>7. QED
    BY <1>1, <1>2, <2>1, <2>5, <2>6 DEF IInv, Asked, Underway, Allocating, Following
<1>5. QED
  BY <1>3, <1>4

LEMMA AppendWalkKeepsIInv ==
    ASSUME IInv, AppendReadFat \/ AppendFollow \/ AppendLastFound
    PROVE  IInv'
<1>1. UNCHANGED <<disk, op, entry, offset, ops, faults, missed>>
  BY DEF AppendReadFat, AppendFollow, AppendLastFound, buffers, locals
<1>2. (Kinds /\ RootApart)' /\ Fat' = Fat /\ Root' = Root
  BY <1>1, SameDisk DEF IInv
<1>3. CASE AppendReadFat
  <2>1. /\ pc = "append_fat" /\ pc' = "append_follow" /\ disk_buffer' = Fat
        /\ cycle_guard' = 0 /\ cluster' = cluster /\ result' = result
    BY <1>3 DEF AppendReadFat, Fat
  <2>2. Counters'
    BY <1>1, <2>1, SizeAssumption DEF IInv, Counters, PC
  <2>3. QED
    BY <1>1, <1>2, <2>1, <2>2 DEF IInv, Asked, Underway, Allocating, Following
<1>4. CASE AppendFollow
  <2>1. /\ pc = "append_follow" /\ HasNext /\ cluster' = disk_buffer[cluster]
        /\ cycle_guard' = cycle_guard + 1 /\ disk_buffer' = disk_buffer
    BY <1>4 DEF AppendFollow, buffers
  <2>2. disk_buffer = Fat /\ cluster \in Place /\ cycle_guard \in Nat
        /\ cycle_guard <= max_valid_clusters
    BY <2>1 DEF IInv, Underway, Counters
  <2>3. cluster' \in Place /\ cluster' # root_dir_cluster
    BY <2>1, <2>2, FatLink, Places DEF IInv, Kinds, RootApart, HasNext
  <2>4. CASE cycle_guard' > max_valid_clusters
    <3>1. pc' = "idle" /\ result' = "circular"
      BY <1>4, <2>4 DEF AppendFollow, Return
    <3>2. Counters'
      BY <1>1, <2>1, <2>2, <2>3, <3>1, SizeAssumption DEF IInv, Counters, PC
    <3>3. QED
      BY <1>2, <3>1, <3>2, IdleIsSound
  <2>5. CASE ~(cycle_guard' > max_valid_clusters)
    <3>1. pc' = "append_follow" /\ result' = result
      BY <1>4, <2>1, <2>5 DEF AppendFollow
    <3>2. Counters'
      BY <1>1, <2>1, <2>2, <2>3, <2>5, <3>1, SizeAssumption DEF IInv, Counters, PC
    <3>3. QED
      BY <1>1, <1>2, <2>1, <2>2, <2>3, <3>1, <3>2
         DEF IInv, Asked, Underway, Allocating, Following
  <2>6. QED
    BY <2>4, <2>5
<1>5. CASE AppendLastFound
  <2>1. /\ pc = "append_follow" /\ pc' = "append_data"
        /\ UNCHANGED <<cluster, cycle_guard, result>>
    BY <1>5 DEF AppendLastFound, locals
  <2>2. Counters'
    BY <1>1, <2>1 DEF IInv, Counters, PC
  <2>3. QED
    BY <1>1, <1>2, <2>1, <2>2 DEF IInv, Asked, Underway, Allocating, Following
<1>6. QED
  BY <1>3, <1>4, <1>5

LEMMA AppendReadDataKeepsIInv ==
    ASSUME IInv, AppendReadData
    PROVE  IInv'
<1>1. /\ UNCHANGED <<disk, op, locals, result, ops, faults, missed>>
      /\ pc = "append_data" /\ pc' = "append_data_back"
      /\ write_buffer' = Fill(disk[cluster_to_sector(cluster)], offset, op.data)
  BY DEF AppendReadData
<1>2. (Kinds /\ RootApart)' /\ Fat' = Fat /\ Root' = Root
  BY <1>1, SameDisk DEF IInv
<1>3. cluster \in Place /\ cluster # root_dir_cluster /\ offset \in Nat /\ op.data \in Seq(Byte)
  BY <1>1, SizeAssumption DEF IInv, Counters, Underway, Following, Asked
<1>4. write_buffer' \in Contents
  <2>1. disk[cluster_to_sector(cluster)] \in Contents
    BY <1>3, Places DEF IInv, Kinds, DataSector
  <2>2. QED
    BY <1>1, <1>3, <2>1, Filled
<1>5. Counters'
  BY <1>1 DEF IInv, Counters, PC, locals
<1>6. QED
  BY <1>1, <1>2, <1>3, <1>4, <1>5 DEF IInv, Asked, Underway, Allocating, Following, locals

LEMMA AppendReadRootAgainKeepsIInv ==
    ASSUME IInv, AppendReadRootAgain
    PROVE  IInv'
<1>1. /\ UNCHANGED <<disk, op, locals, result, ops, faults, missed>>
      /\ pc = "append_root_again" /\ pc' = "append_root_back"
      /\ disk_buffer' = [Root EXCEPT ![entry].size = @ + Copied]
  BY DEF AppendReadRootAgain, Root
<1>2. (Kinds /\ RootApart)' /\ Fat' = Fat /\ Root' = Root
  BY <1>1, SameDisk DEF IInv
<1>3. Copied \in Nat
  <2>1. Len(op.data) \in Nat /\ offset \in 0 .. SECTOR - 1
    BY <1>1 DEF IInv, Asked, Counters
  <2>2. QED
    BY <2>1, SizeAssumption DEF Copied
<1>4. Root[entry].size + Copied \in Nat
  BY <1>3, EntryFields DEF IInv, Kinds, Counters
<1>5. disk_buffer' = [Root EXCEPT ![entry].size = Root[entry].size + Copied]
  BY <1>1 DEF IInv, Kinds, Counters, Directory
<1>6. Counters'
  BY <1>1 DEF IInv, Counters, PC, locals
<1>7. \E n \in Nat : disk_buffer' = WithSize(Root', entry', n)
  BY <1>1, <1>2, <1>4, <1>5 DEF locals, WithSize
<1>8. QED
  BY <1>1, <1>2, <1>6, <1>7 DEF IInv, Asked, Underway, Allocating, Following

LEMMA ReadRootKeepsIInv ==
    ASSUME IInv, ReadRoot
    PROVE  IInv'
<1>1. /\ UNCHANGED <<disk, op, offset, cycle_guard, ops, faults, missed>>
      /\ pc = "read_root"
  BY DEF ReadRoot
<1>2. (Kinds /\ RootApart)' /\ Fat' = Fat /\ Root' = Root
  BY <1>1, SameDisk DEF IInv
<1>3. CASE Visible(Root, op.name) = {} \/ Root[FirstVisible(Root, op.name)].cluster = 0
  <2>1. pc' = "idle" /\ result' = "not_found" /\ cluster' = cluster /\ entry' = entry
    BY <1>3 DEF ReadRoot, Root, Return
  <2>2. Counters'
    BY <1>1, <2>1 DEF IInv, Counters, PC
  <2>3. QED
    BY <1>2, <2>1, <2>2, IdleIsSound
<1>4. CASE ~(Visible(Root, op.name) = {} \/ Root[FirstVisible(Root, op.name)].cluster = 0)
  <2> DEFINE i == FirstVisible(Root, op.name)
  <2>1. entry' = i /\ cluster' = Root[i].cluster /\ pc' = "read_data" /\ result' = result
    BY <1>4 DEF ReadRoot, Root
  <2>2. i \in Entry
    BY <1>1, <1>4, FirstVisibleIsVisible DEF IInv, Asked
  <2> HIDE DEF i
  <2>3. Root[i].cluster \in Place
    BY <2>2, EntryFields DEF IInv, Kinds
  <2>4. Counters'
    BY <1>1, <2>1, <2>2, <2>3 DEF IInv, Counters, PC
  <2>5. QED
    BY <1>1, <1>2, <2>1, <2>4 DEF IInv, Asked, Underway, Allocating, Following
<1>5. QED
  BY <1>3, <1>4

(***************************************************************************)
(* Writes, which may fail.                                                 *)
(***************************************************************************)
LEMMA WriteToSector ==
    ASSUME Counters, disk = [s \in Sector |-> disk[s]],
           NEW sector \in Sector, NEW x, WriteSector(sector, x)
    PROVE  /\ disk' = [s \in Sector |-> disk'[s]]
           /\ \A s \in Sector : s # sector => disk'[s] = disk[s]
           /\ \/ disk'[sector] = x /\ missed' = missed
              \/ disk' = disk /\ missed' = missed \cup {sector}
           /\ faults' \in 0 .. MaxFaults /\ missed' \subseteq Sector
BY SizeAssumption DEF WriteSector, Fault, Counters

LEMMA DataWriteKeepsKinds ==
    ASSUME Counters, Kinds, RootApart, NEW c \in Place, c # root_dir_cluster,
           NEW x \in Contents, WriteSector(cluster_to_sector(c), x)
    PROVE  /\ (Kinds /\ RootApart)' /\ Fat' = Fat /\ Root' = Root
           /\ faults' \in 0 .. MaxFaults /\ missed' \subseteq Sector /\ missed \subseteq missed'
<1> DEFINE at == cluster_to_sector(c)
<1>1. at \in Sector /\ at # fat_start_sector /\ at # root_sector
  BY Places
<1> HIDE DEF at
<1>2. WriteSector(at, x) /\ disk = [s \in Sector |-> disk[s]]
  BY DEF at, Kinds
<1>3. /\ disk' = [s \in Sector |-> disk'[s]]
      /\ \A s \in Sector : s # at => disk'[s] = disk[s]
      /\ (disk'[at] = x /\ missed' = missed) \/ (disk' = disk /\ missed' = missed \cup {at})
      /\ faults' \in 0 .. MaxFaults /\ missed' \subseteq Sector
  BY <1>1, <1>2, WriteToSector
<1>4. Fat' = Fat /\ Root' = Root
  BY <1>1, <1>3, Places DEF Fat, Root
<1>5. ASSUME NEW s \in DataSector
      PROVE  disk'[s] \in Contents
  BY <1>3 DEF DataSector, Kinds
<1>6. QED
  BY <1>3, <1>4, <1>5 DEF Kinds, RootApart

LEMMA FatWriteKeepsKinds ==
    ASSUME Counters, Kinds, RootApart, NEW c \in Cluster, c # root_dir_cluster,
           WriteSector(fat_start_sector, [Fat EXCEPT ![c] = EOF])
    PROVE  /\ (Kinds /\ RootApart)' /\ Root' = Root
           /\ \/ Fat' = [Fat EXCEPT ![c] = EOF] /\ missed' = missed
              \/ Fat' = Fat /\ fat_start_sector \in missed'
           /\ faults' \in 0 .. MaxFaults /\ missed' \subseteq Sector
<1> DEFINE x == [Fat EXCEPT ![c] = EOF]
<1>1. /\ x \in FatTable /\ \A d \in Place : d # c => x[d] = Fat[d]
      /\ x[c] = EOF
  BY FatWithEnd DEF Kinds
<1>2. WriteSector(fat_start_sector, x) /\ disk = [s \in Sector |-> disk[s]]
  BY DEF Kinds
<1> HIDE DEF x
<1>3. /\ disk' = [s \in Sector |-> disk'[s]]
      /\ \A s \in Sector : s # fat_start_sector => disk'[s] = disk[s]
      /\ \/ disk'[fat_start_sector] = x /\ missed' = missed
         \/ disk' = disk /\ missed' = missed \cup {fat_start_sector}
      /\ faults' \in 0 .. MaxFaults /\ missed' \subseteq Sector
  BY <1>2, Places, WriteToSector
<1>4. /\ Root' = Root
      /\ (Fat' = x /\ missed' = missed) \/ (Fat' = Fat /\ fat_start_sector \in missed')
  BY <1>3, Places DEF Fat, Root
<1>5. ASSUME NEW s \in DataSector
      PROVE  disk'[s] \in Contents
  BY <1>3 DEF DataSector, Kinds
<1>6. Kinds'
  BY <1>1, <1>3, <1>4, <1>5 DEF Kinds
<1>7. EOF # root_dir_cluster /\ EOF # FREE /\ root_dir_cluster \in Place
  BY Places
<1>8. \A d \in Place : x[d] # root_dir_cluster
  BY <1>1, <1>7 DEF RootApart
<1>9. x[root_dir_cluster] # FREE
  BY <1>1, <1>7 DEF RootApart
<1>10. RootApart'
  BY <1>4, <1>8, <1>9 DEF RootApart
<1>11. QED
  BY <1>3, <1>4, <1>6, <1>10 DEF x

LEMMA RootWriteKeepsKinds ==
    ASSUME Counters, Kinds, RootApart, NEW x \in Directory,
           \A i \in Entry : ~IsFree(x[i]) => x[i].cluster # root_dir_cluster,
           WriteSector(root_sector, x)
    PROVE  /\ (Kinds /\ RootApart)' /\ Fat' = Fat /\ (Root' = x \/ Root' = Root)
           /\ faults' \in 0 .. MaxFaults /\ missed' \subseteq Sector
           /\ fat_start_sector \in missed => fat_start_sector \in missed'
<1>1. disk = [s \in Sector |-> disk[s]]
  BY DEF Kinds
<1>2. /\ disk' = [s \in Sector |-> disk'[s]]
      /\ \A s \in Sector : s # root_sector => disk'[s] = disk[s]
      /\ \/ disk'[root_sector] = x /\ missed' = missed
         \/ disk' = disk /\ missed' = missed \cup {root_sector}
      /\ faults' \in 0 .. MaxFaults /\ missed' \subseteq Sector
  BY <1>1, Places, WriteToSector
<1>3. Fat' = Fat /\ (Root' = x \/ Root' = Root)
  BY <1>2, Places DEF Fat, Root
<1>4. ASSUME NEW s \in DataSector
      PROVE  disk'[s] \in Contents
  BY <1>2 DEF DataSector, Kinds
<1>5. Kinds'
  BY <1>2, <1>3, <1>4 DEF Kinds
<1>6. RootApart'
  BY <1>3 DEF RootApart
<1>7. QED
  BY <1>2, <1>3, <1>5, <1>6

LEMMA WriteFatBackKeepsIInv ==
    ASSUME IInv, WriteFatBack
    PROVE  IInv'
<1>1. /\ pc = "write_fat_back" /\ pc' = "write_data"
      /\ UNCHANGED <<buffers, op, locals, result, ops>>
  BY DEF WriteFatBack
<1>2. cluster \in Cluster /\ cluster # root_dir_cluster
  BY <1>1 DEF IInv, Underway
<1>3. WriteSector(fat_start_sector, [Fat EXCEPT ![cluster] = EOF])
  BY <1>1 DEF WriteFatBack, IInv, Underway
<1>4. (Kinds /\ RootApart)' /\ faults' \in 0 .. MaxFaults /\ missed' \subseteq Sector
  BY <1>2, <1>3, FatWriteKeepsKinds DEF IInv
<1>5. Counters'
  BY <1>1, <1>4 DEF IInv, Counters, PC, locals
<1>6. QED
  BY <1>1, <1>2, <1>4, <1>5 DEF IInv, Asked, Underway, Allocating, Following, locals

LEMMA WriteDataKeepsIInv ==
    ASSUME IInv, WriteData
    PROVE  IInv' /\ Fat' = Fat /\ Root' = Root /\ missed \subseteq missed'
<1>1. /\ pc = "write_data" /\ pc' = "write_root"
      /\ UNCHANGED <<disk_buffer, op, locals, result, ops>>
      /\ WriteSector(cluster_to_sector(cluster), Fill(Blank, 0, op.data))
  BY DEF WriteData
<1>2. cluster \in Place /\ cluster # root_dir_cluster /\ op.data \in Seq(Byte)
  BY <1>1 DEF IInv, Underway, Counters, Asked, Allocating
<1>3. Fill(Blank, 0, op.data) \in Contents
  BY <1>2, Filled, BlankIsContents
<1>4. /\ (Kinds /\ RootApart)' /\ faults' \in 0 .. MaxFaults /\ missed' \subseteq Sector
      /\ Fat' = Fat /\ Root' = Root /\ missed \subseteq missed'
  BY <1>1, <1>2, <1>3, DataWriteKeepsKinds DEF IInv
<1>5. Counters'
  BY <1>1, <1>4 DEF IInv, Counters, PC, locals
<1>6. QED
  BY <1>1, <1>2, <1>4, <1>5 DEF IInv, Asked, Underway, Allocating, Following, locals

LEMMA AppendDataBackKeepsIInv ==
    ASSUME IInv, AppendDataBack
    PROVE  IInv' /\ Fat' = Fat /\ Root' = Root /\ missed \subseteq missed'
<1>1. /\ pc = "append_data_back" /\ pc' = "append_root_again"
      /\ UNCHANGED <<buffers, op, locals, result, ops>>
      /\ WriteSector(cluster_to_sector(cluster), write_buffer)
  BY DEF AppendDataBack
<1>2. cluster \in Place /\ cluster # root_dir_cluster /\ write_buffer \in Contents
  BY <1>1 DEF IInv, Underway, Counters, Following
<1>3. /\ (Kinds /\ RootApart)' /\ faults' \in 0 .. MaxFaults /\ missed' \subseteq Sector
      /\ Fat' = Fat /\ Root' = Root /\ missed \subseteq missed'
  BY <1>1, <1>2, DataWriteKeepsKinds DEF IInv
<1>4. Counters'
  BY <1>1, <1>3 DEF IInv, Counters, PC, locals
<1>5. QED
  BY <1>1, <1>3, <1>4 DEF IInv, Asked, Underway, Allocating, Following

\* The directory that fs_write_file_content writes back.
LEMMA EntryToWrite ==
    ASSUME IInv, pc = "write_root_back"
    PROVE  \E e \in Entry :
              /\ IsFree(Root[e]) /\ disk_buffer \in Directory
              /\ disk_buffer[e].cluster = cluster /\ ~IsFree(disk_buffer[e])
              /\ \A i \in Entry : i # e => disk_buffer[i] = Root[i]
<1>1. PICK e \in Entry : /\ IsFree(Root[e])
                        /\ disk_buffer = WithEntry(Root, e, op.name, cluster, Len(op.data))
  BY DEF IInv, Underway
<1>2. op.name \in Name /\ Len(op.data) \in Nat /\ cluster \in Place /\ Root \in Directory
  BY DEF IInv, Asked, Counters, Kinds
<1>3. /\ disk_buffer \in Directory /\ disk_buffer[e].name = op.name
      /\ disk_buffer[e].cluster = cluster
      /\ \A i \in Entry : i # e => disk_buffer[i] = Root[i]
  BY <1>1, <1>2, NewEntry
<1>4. ~IsFree(disk_buffer[e])
  BY <1>2, <1>3, DataAssumption DEF IsFree
<1>5. QED
  BY <1>1, <1>3, <1>4

\* The directory that fs_append_file_content writes back.
LEMMA SizeToWrite ==
    ASSUME IInv, pc = "append_root_back"
    PROVE  /\ disk_buffer \in Directory
           /\ \A i \in Entry : /\ disk_buffer[i].name = Root[i].name
                               /\ disk_buffer[i].cluster = Root[i].cluster
<1>1. PICK n \in Nat : disk_buffer = WithSize(Root, entry, n)
  BY DEF IInv, Underway
<1>2. Root \in Directory /\ entry \in Entry
  BY DEF IInv, Counters, Kinds
<1>3. QED
  BY <1>1, <1>2, NewSize

LEMMA RootBackKeepsIInv ==
    ASSUME IInv, WriteRootBack \/ AppendRootBack
    PROVE  /\ IInv' /\ Fat' = Fat /\ (Root' = disk_buffer \/ Root' = Root) /\ pc' = "idle"
           /\ fat_start_sector \in missed => fat_start_sector \in missed'
<1>1. /\ pc \in {"write_root_back", "append_root_back"} /\ pc' = "idle" /\ result' = "done"
      /\ UNCHANGED <<buffers, op, locals, ops>>
      /\ WriteSector(root_sector, disk_buffer)
  BY DEF WriteRootBack, AppendRootBack, Return
<1>2. /\ disk_buffer \in Directory
      /\ \A i \in Entry : ~IsFree(disk_buffer[i]) => disk_buffer[i].cluster # root_dir_cluster
  <2>1. CASE pc = "write_root_back"
    <3>1. cluster # root_dir_cluster
      BY <2>1 DEF IInv, Underway, Allocating
    <3>2. QED
      BY <2>1, <3>1, EntryToWrite DEF IInv, RootApart
  <2>2. CASE pc = "append_root_back"
    <3>1. \A i \in Entry : IsFree(disk_buffer[i]) <=> IsFree(Root[i])
      BY <2>2, SizeToWrite DEF IsFree
    <3>2. QED
      BY <2>2, <3>1, SizeToWrite DEF IInv, RootApart
  <2>3. QED
    BY <1>1, <2>1, <2>2
<1>3. /\ (Kinds /\ RootApart)' /\ faults' \in 0 .. MaxFaults /\ missed' \subseteq Sector
      /\ Fat' = Fat /\ (Root' = disk_buffer \/ Root' = Root)
      /\ fat_start_sector \in missed => fat_start_sector \in missed'
  BY <1>1, <1>2, RootWriteKeepsKinds DEF IInv
<1>4. Counters'
  BY <1>1, <1>3 DEF IInv, Counters, PC, locals
<1>5. QED
  BY <1>1, <1>3, <1>4, IdleIsSound

(***************************************************************************)
(* The theorems about kinds.                                               *)
(***************************************************************************)
LEMMA StepIInv == IInv /\ [Next]_vars => IInv'
<1> SUFFICES ASSUME IInv, [Next]_vars
             PROVE  IInv'
  OBVIOUS
<1>1. CASE CallWrite \/ CallAppend \/ CallRead
  BY <1>1, CallKeepsIInv
<1>2. CASE Reboot \/ GetDirList \/ ReadData \/ \E at \in Reading : ReadFails(at)
  BY <1>2, ReturnKeepsIInv
<1>3. CASE WriteStep
  BY <1>3, WriteReadFatKeepsIInv, WriteFatBackKeepsIInv, WriteDataKeepsIInv,
     WriteReadRootKeepsIInv, RootBackKeepsIInv DEF WriteStep
<1>4. CASE AppendStep
  BY <1>4, AppendReadRootKeepsIInv, AppendWalkKeepsIInv, AppendReadDataKeepsIInv,
     AppendDataBackKeepsIInv, AppendReadRootAgainKeepsIInv, RootBackKeepsIInv DEF AppendStep
<1>5. CASE ReadRoot
  BY <1>5, ReadRootKeepsIInv
<1>6. CASE UNCHANGED vars
  <2>1. UNCHANGED disk
    BY <1>6 DEF vars
  <2>2. (Kinds /\ RootApart)' /\ Fat' = Fat /\ Root' = Root
    BY <2>1, SameDisk DEF IInv
  <2>3. Counters'
    BY <1>6 DEF IInv, Counters, PC, vars, locals
  <2>4. QED
    BY <1>6, <2>2, <2>3 DEF IInv, Asked, Underway, Allocating, Following, vars, locals, buffers
<1>7. QED
  BY <1>1, <1>2, <1>3, <1>4, <1>5, <1>6 DEF Next, Step, ReadStep

LEMMA DiskInvariant == Spec => []IInv
BY InitIInv, StepIInv, PTL DEF Spec

\* Sectors, clusters, offsets and counters keep their types.
THEOREM DiskTypeCorrect == Spec => []TypeOK
<1>1. IInv => TypeOK
  <2>1. SUFFICES ASSUME IInv
                 PROVE  TypeOK
    OBVIOUS
  <2>2. \A s \in Sector : disk[s] \in FatTable \cup Directory \cup Contents
    BY <2>1 DEF IInv, Kinds, DataSector, Fat, Root
  <2>3. disk \in [Sector -> FatTable \cup Directory \cup Contents]
    BY <2>1, <2>2 DEF IInv, Kinds
  <2>4. QED
    BY <2>1, <2>3 DEF IInv, Counters, TypeOK, Place
<1>2. QED
  BY <1>1, DiskInvariant, PTL

\* The FAT is never written over the directory, the directory never over the FAT,
\* and neither over a file: whatever fails, and wherever power is lost.
THEOREM SectorsStayWhatTheyAre == Spec => []SectorsKeepTheirKind
<1>1. IInv => SectorsKeepTheirKind
  <2>1. SUFFICES ASSUME IInv
                 PROVE  SectorsKeepTheirKind
    OBVIOUS
  <2>2. \A c \in Cluster \ {root_dir_cluster} : c \in DataSector
    BY SizeAssumption DEF DataSector, Sector, fat_start_sector, root_sector, cluster_to_sector,
                          root_dir_cluster, Cluster
  <2>3. QED
    BY <2>1, <2>2 DEF IInv, Kinds, Fat, Root, SectorsKeepTheirKind
<1>2. QED
  BY <1>1, DiskInvariant, PTL

(***************************************************************************)
(* Clusters and their owners.  A cluster that fs_write_file_content has    *)
(* taken is nobody's until the entry is written, and the FAT already says  *)
(* that it is taken.                                                       *)
(***************************************************************************)
Owning ==
    FatNeverMissed =>
        \E own \in [Cluster -> Entry \cup {NoOne}] :
            /\ OwnedBy(Fat, Root, own)
            /\ pc \in Allocating => cluster \in Cluster /\ own[cluster] = NoOne /\ Fat[cluster] = EOF

LEMMA NoOneIsNoEntry == NoOne \notin Entry
BY SizeAssumption DEF NoOne, Entry

LEMMA InitOwning == Init => Owning
BY ImageAssumption DEF Init, Owning, Allocating, Fat, Root

\* Steps that leave the FAT, and names and clusters in the directory, as they are.
LEMMA SameOwners ==
    ASSUME Owning, Fat' = Fat, fat_start_sector \in missed => fat_start_sector \in missed',
           \A i \in Entry : Root'[i].name = Root[i].name /\ Root'[i].cluster = Root[i].cluster,
           pc' \in Allocating => pc \in Allocating /\ cluster' = cluster
    PROVE  Owning'
<1> SUFFICES ASSUME FatNeverMissed'
             PROVE  \E own \in [Cluster -> Entry \cup {NoOne}] :
                        /\ OwnedBy(Fat', Root', own)
                        /\ pc' \in Allocating => /\ cluster' \in Cluster /\ own[cluster'] = NoOne
                                                 /\ Fat'[cluster'] = EOF
  BY DEF Owning, OwnedBy
<1>1. FatNeverMissed
  BY DEF FatNeverMissed
<1>2. PICK own \in [Cluster -> Entry \cup {NoOne}] :
            /\ OwnedBy(Fat, Root, own)
            /\ pc \in Allocating => cluster \in Cluster /\ own[cluster] = NoOne /\ Fat[cluster] = EOF
  BY <1>1 DEF Owning
<1>3. \A i \in Entry : IsFree(Root'[i]) <=> IsFree(Root[i])
  BY DEF IsFree
<1>4. OwnedBy(Fat', Root', own)
  <2>1. \A i \in Entry : (~IsFree(Root'[i]) /\ Root'[i].cluster \in Cluster)
                            => own[Root'[i].cluster] = i
    BY <1>2, <1>3 DEF OwnedBy
  <2>2. \A c \in Cluster :
            own[c] # NoOne => /\ ~IsFree(Root'[own[c]]) /\ Fat'[c] # FREE
                              /\ Fat'[c] \in Cluster => own[Fat'[c]] = own[c]
    BY <1>2, <1>3 DEF OwnedBy
  <2>3. own[root_dir_cluster] = NoOne
    BY <1>2 DEF OwnedBy
  <2>4. QED
    BY <2>1, <2>2, <2>3 DEF OwnedBy
<1>5. QED
  BY <1>2, <1>4

LEMMA FatBackKeepsOwning ==
    ASSUME IInv, Owning, WriteFatBack
    PROVE  Owning'
<1>1. pc = "write_fat_back" /\ pc' = "write_data" /\ cluster' = cluster
  BY DEF WriteFatBack, locals
<1>2. cluster \in Cluster /\ cluster # root_dir_cluster /\ Fat[cluster] = FREE
  BY <1>1 DEF IInv, Underway
<1>3. WriteSector(fat_start_sector, [Fat EXCEPT ![cluster] = EOF])
  BY <1>1 DEF WriteFatBack, IInv, Underway
<1>4. /\ Root' = Root
      /\ \/ Fat' = [Fat EXCEPT ![cluster] = EOF] /\ missed' = missed
         \/ Fat' = Fat /\ fat_start_sector \in missed'
  BY <1>2, <1>3, FatWriteKeepsKinds DEF IInv
<1> SUFFICES ASSUME FatNeverMissed'
             PROVE  \E own \in [Cluster -> Entry \cup {NoOne}] :
                        /\ OwnedBy(Fat', Root', own)
                        /\ pc' \in Allocating => /\ cluster' \in Cluster /\ own[cluster'] = NoOne
                                                 /\ Fat'[cluster'] = EOF
  BY DEF Owning, OwnedBy
<1>5. Fat' = [Fat EXCEPT ![cluster] = EOF] /\ FatNeverMissed
  BY <1>4 DEF FatNeverMissed
<1>6. /\ Fat'[cluster] = EOF
      /\ \A d \in Cluster : d # cluster => Fat'[d] = Fat[d]
  BY <1>2, <1>5, FatWithEnd, Places DEF IInv, Kinds
<1>7. PICK own \in [Cluster -> Entry \cup {NoOne}] : OwnedBy(Fat, Root, own)
  BY <1>5 DEF Owning
<1>8. own[cluster] = NoOne
  BY <1>2, <1>7 DEF OwnedBy
<1>9. OwnedBy(Fat', Root', own)
  BY <1>4, <1>6, <1>7, <1>8 DEF OwnedBy
<1>10. QED
  BY <1>1, <1>2, <1>6, <1>8, <1>9

LEMMA RootBackKeepsOwning ==
    ASSUME IInv, Owning, WriteRootBack
    PROVE  Owning'
<1>1. pc = "write_root_back" /\ pc' = "idle"
  BY DEF WriteRootBack, Return
<1>2. /\ Fat' = Fat /\ (Root' = disk_buffer \/ Root' = Root)
      /\ fat_start_sector \in missed => fat_start_sector \in missed'
  BY RootBackKeepsIInv
<1>3. CASE Root' = Root
  BY <1>1, <1>2, <1>3, SameOwners DEF Allocating
<1>4. CASE Root' = disk_buffer
  <2> SUFFICES ASSUME FatNeverMissed'
               PROVE  \E own \in [Cluster -> Entry \cup {NoOne}] : OwnedBy(Fat', Root', own)
    BY <1>1 DEF Owning, Allocating, OwnedBy
  <2>1. FatNeverMissed
    BY <1>2 DEF FatNeverMissed
  <2>2. PICK own \in [Cluster -> Entry \cup {NoOne}] :
            /\ OwnedBy(Fat, Root, own)
            /\ cluster \in Cluster /\ own[cluster] = NoOne /\ Fat[cluster] = EOF
    BY <1>1, <2>1 DEF Owning, Allocating
  <2>3. PICK e \in Entry :
              /\ IsFree(Root[e]) /\ Root'[e].cluster = cluster /\ ~IsFree(Root'[e])
              /\ \A i \in Entry : i # e => Root'[i] = Root[i]
    BY <1>1, <1>4, EntryToWrite
  <2>4. cluster # root_dir_cluster
    BY <1>1 DEF IInv, Underway, Allocating
  <2> DEFINE new == [own EXCEPT ![cluster] = e]
  <2>5. /\ new \in [Cluster -> Entry \cup {NoOne}] /\ new[cluster] = e
        /\ \A c \in Cluster : c # cluster => new[c] = own[c]
    BY <2>2
  <2> HIDE DEF new
  <2>6. ASSUME NEW i \in Entry, ~IsFree(Root'[i]), Root'[i].cluster \in Cluster
        PROVE  new[Root'[i].cluster] = i
    <3>1. CASE i = e
      BY <2>3, <2>5, <3>1
    <3>2. CASE i # e
      <4>1. Root'[i] = Root[i] /\ own[Root[i].cluster] = i
        BY <2>2, <2>3, <2>6, <3>2 DEF OwnedBy
      <4>2. Root[i].cluster # cluster
        BY <2>2, <4>1, NoOneIsNoEntry
      <4>3. QED
        BY <2>5, <2>6, <4>1, <4>2
    <3>3. QED
      BY <3>1, <3>2
  <2>7. ASSUME NEW c \in Cluster, new[c] # NoOne
        PROVE  /\ ~IsFree(Root'[new[c]]) /\ Fat'[c] # FREE
               /\ Fat'[c] \in Cluster => new[Fat'[c]] = new[c]
    <3>1. CASE c = cluster
      BY <1>2, <2>2, <2>3, <2>5, <3>1, Places
    <3>2. CASE c # cluster
      <4>1. new[c] = own[c] /\ own[c] \in Entry
        BY <2>2, <2>5, <2>7, <3>2
      <4>2. /\ ~IsFree(Root[own[c]]) /\ Fat[c] # FREE
            /\ Fat[c] \in Cluster => own[Fat[c]] = own[c]
        BY <2>2, <2>7, <4>1 DEF OwnedBy
      <4>3. Root'[own[c]] = Root[own[c]]
        BY <2>3, <4>1, <4>2
      <4>4. Fat[c] \in Cluster => Fat[c] # cluster
        BY <2>2, <2>7, <4>1, <4>2
      <4>5. QED
        BY <1>2, <2>5, <4>1, <4>2, <4>3, <4>4
    <3>3. QED
      BY <3>1, <3>2
  <2>8. new[root_dir_cluster] = NoOne
    BY <2>2, <2>4, <2>5, Places DEF OwnedBy
  <2>9. OwnedBy(Fat', Root', new)
    BY <2>6, <2>7, <2>8 DEF OwnedBy
  <2>10. QED
    BY <2>5, <2>9
<1>5. QED
  BY <1>2, <1>3, <1>4

LEMMA StepOwning == IInv /\ Owning /\ [Next]_vars => Owning'
<1> SUFFICES ASSUME IInv, Owning, [Next]_vars
             PROVE  Owning'
  OBVIOUS
<1>1. CASE WriteFatBack
  BY <1>1, FatBackKeepsOwning
<1>2. CASE WriteRootBack
  BY <1>2, RootBackKeepsOwning
<1>3. CASE WriteData
  <2>1. /\ Fat' = Fat /\ Root' = Root /\ missed \subseteq missed'
    BY <1>3, WriteDataKeepsIInv
  <2>2. pc = "write_data" /\ pc' = "write_root" /\ cluster' = cluster
    BY <1>3 DEF WriteData, locals
  <2>3. QED
    BY <2>1, <2>2, SameOwners DEF Allocating
<1>4. CASE AppendDataBack
  <2>1. /\ Fat' = Fat /\ Root' = Root /\ missed \subseteq missed'
    BY <1>4, AppendDataBackKeepsIInv
  <2>2. pc' = "append_root_again"
    BY <1>4 DEF AppendDataBack
  <2>3. QED
    BY <2>1, <2>2, SameOwners DEF Allocating
<1>5. CASE AppendRootBack
  <2>1. /\ Fat' = Fat /\ (Root' = disk_buffer \/ Root' = Root) /\ pc' = "idle"
        /\ fat_start_sector \in missed => fat_start_sector \in missed'
    BY <1>5, RootBackKeepsIInv
  <2>2. \A i \in Entry : Root'[i].name = Root[i].name /\ Root'[i].cluster = Root[i].cluster
    BY <1>5, <2>1, SizeToWrite DEF AppendRootBack
  <2>3. QED
    BY <2>1, <2>2, SameOwners DEF Allocating
<1>6. CASE ~(WriteFatBack \/ WriteRootBack \/ WriteData \/ AppendDataBack \/ AppendRootBack)
  <2>1. UNCHANGED <<disk, missed>>
    BY <1>6 DEF Next, Step, WriteStep, AppendStep, ReadStep, CallWrite, CallAppend, CallRead, Call,
                GetDirList, ReadRoot, ReadData, Reboot, ReadFails, vars,
                WriteReadFat, WriteReadRoot, AppendReadRoot, AppendReadFat, AppendFollow,
                AppendLastFound, AppendReadData, AppendReadRootAgain
  <2>2. Fat' = Fat /\ Root' = Root
    BY <2>1 DEF Fat, Root
  <2>3. pc' \in Allocating => pc \in Allocating /\ cluster' = cluster
    BY <1>6 DEF Next, Step, WriteStep, AppendStep, ReadStep, CallWrite, CallAppend, CallRead, Call,
                GetDirList, ReadRoot, ReadData, Reboot, ReadFails, Return, vars, locals, Allocating,
                WriteReadFat, WriteReadRoot, AppendReadRoot, AppendReadFat, AppendFollow,
                AppendLastFound, AppendReadData, AppendReadRootAgain
  <2>4. QED
    BY <2>1, <2>2, <2>3, SameOwners
<1>7. QED
  BY <1>1, <1>2, <1>3, <1>4, <1>5, <1>6

(***************************************************************************)
(* The chain of a file, which Nth defines recursively.                     *)
(***************************************************************************)
IsChain(f, m, first, step) ==
    f = [n \in 1 .. m |-> IF n = 1 THEN first ELSE step[f[n - 1]]]

LEMMA ChainExists ==
    ASSUME NEW N \in Nat \ {0}, NEW first, NEW step
    PROVE  \E f : IsChain(f, N, first, step)
<1> USE DEF IsChain
<1> DEFINE Chain(f, m) == IsChain(f, m, first, step)
           T == {m \in Nat \ {0} : ~ \E f : Chain(f, m)}
<1>1. CASE T = {}
  BY <1>1
<1>2. CASE T # {}
  <2>1. PICK m \in T : \A y \in T : m <= y
    <3>1. T \in SUBSET Nat
      OBVIOUS
    <3> HIDE DEF T
    <3>2. QED
      BY <1>2, <3>1, Least
  <2>2. m \in Nat /\ m > 1
    <3>1. Chain([n \in 1 .. 1 |-> first], 1)
      OBVIOUS
    <3>2. m # 1
      BY <3>1
    <3>3. QED
      BY <3>2
  <2>3. m - 1 \in Nat \ {0} /\ ~(m <= m - 1)
    BY <2>2
  <2>4. m - 1 \notin T
    <3> HIDE DEF T
    <3>1. QED
      BY <2>1, <2>3
  <2>5. PICK g : Chain(g, m - 1)
    BY <2>3, <2>4
  <2> DEFINE h == [n \in 1 .. m |-> IF n = m THEN step[g[n - 1]] ELSE g[n]]
  <2>6. \A n \in 1 .. m : h[n] = IF n = 1 THEN first ELSE step[h[n - 1]]
    <3> TAKE n \in 1 .. m
    <3>1. CASE n = 1
      <4>1. 1 \in 1 .. m - 1 /\ 1 \in 1 .. m /\ 1 # m
        BY <2>2
      <4>2. g[1] = first
        BY <2>5, <4>1
      <4>3. QED
        BY <3>1, <4>1, <4>2
    <3>2. CASE n # 1
      <4>1. n - 1 \in 1 .. m /\ n - 1 # m /\ h[n - 1] = g[n - 1]
        BY <2>2, <3>2
      <4>2. CASE n = m
        BY <3>2, <4>1, <4>2
      <4>3. CASE n # m
        <5>1. n \in 1 .. m - 1
          BY <2>2, <4>3
        <5>2. g[n] = step[g[n - 1]]
          BY <2>5, <3>2, <5>1
        <5>3. QED
          BY <3>2, <4>1, <4>3, <5>2
      <4>4. QED
        BY <4>2, <4>3
    <3>3. QED
      BY <3>1, <3>2
  <2>7. Chain(h, m)
    BY <2>6
  <2>8. QED
    BY <2>1, <2>7
<1>3. QED
  BY <1>1, <1>2

LEMMA NthValue ==
    ASSUME NEW i \in Entry
    PROVE  \A n \in 1 .. FAT_ENTRIES :
                Nth(i)[n] = IF n = 1 THEN Root[i].cluster ELSE Behind[Nth(i)[n - 1]]
<1> DEFINE Chain(g) == IsChain(g, FAT_ENTRIES, Root[i].cluster, Behind)
<1>1. \E g : Chain(g)
  <2>1. FAT_ENTRIES \in Nat \ {0}
    BY SizeAssumption
  <2>2. QED
    BY <2>1, ChainExists
<1>2. Nth(i) = CHOOSE g : Chain(g)
  BY DEF Nth, IsChain
<1>3. Chain(Nth(i))
  BY <1>1, <1>2
<1>4. QED
  BY <1>3 DEF IsChain

LEMMA ChainHasOneOwner ==
    ASSUME Kinds, NEW own, OwnedBy(Fat, Root, own), NEW i \in Used
    PROVE  \A c \in ClustersOf(i) : own[c] = i
<1>1. i \in Entry /\ ~IsFree(Root[i])
  BY DEF Used
<1> DEFINE f == Nth(i)
           T == {n \in 1 .. FAT_ENTRIES : ~(f[n] \in Place /\ (f[n] \in Cluster => own[f[n]] = i))}
<1>2. \A n \in 1 .. FAT_ENTRIES :
            f[n] = IF n = 1 THEN Root[i].cluster ELSE Behind[f[n - 1]]
  BY <1>1, NthValue
<1> HIDE DEF f
<1>3. T = {}
  <2>1. SUFFICES ASSUME T # {}
                 PROVE  FALSE
    OBVIOUS
  <2>2. PICK n \in T : \A y \in T : n <= y
    <3>1. T \in SUBSET Nat
      BY SizeAssumption
    <3> HIDE DEF T
    <3>2. QED
      BY <2>1, <3>1, Least
  <2>3. n # 1
    <3>1. f[1] = Root[i].cluster
      BY <1>2, SizeAssumption
    <3>2. f[1] \in Place /\ (f[1] \in Cluster => own[f[1]] = i)
      BY <1>1, <3>1, EntryFields DEF OwnedBy, Kinds
    <3>3. QED
      BY <3>2
  <2>4. n - 1 \in 1 .. FAT_ENTRIES /\ ~(n <= n - 1)
    BY <2>3, SizeAssumption
  <2>5. n - 1 \notin T
    <3> HIDE DEF T
    <3>1. QED
      BY <2>2, <2>4
  <2> DEFINE c == f[n - 1]
  <2>6. c \in Place /\ (c \in Cluster => own[c] = i)
    BY <2>4, <2>5
  <2>7. f[n] = Behind[c]
    BY <1>2, <2>3
  <2>8. n \in 1 .. FAT_ENTRIES /\ ~(f[n] \in Place /\ (f[n] \in Cluster => own[f[n]] = i))
    OBVIOUS
  <2> HIDE DEF c, T
  <2>9. CASE c \in Cluster /\ Fat[c] \in Cluster
    <3>1. f[n] = Fat[c]
      BY <2>6, <2>7, <2>9 DEF Behind, Place
    <3>2. own[c] # NoOne
      BY <1>1, <2>6, <2>9, NoOneIsNoEntry
    <3>3. own[Fat[c]] = i
      BY <2>6, <2>9, <3>2 DEF OwnedBy
    <3>4. QED
      BY <2>8, <2>9, <3>1, <3>3, Places
  <2>10. CASE ~(c \in Cluster /\ Fat[c] \in Cluster)
    <3>1. f[n] = 0
      BY <2>6, <2>7, <2>10 DEF Behind, Place
    <3>2. 0 \in Place /\ 0 \notin Cluster
      BY SizeAssumption DEF Place, Cluster
    <3>3. QED
      BY <2>8, <3>1, <3>2
  <2>11. QED
    BY <2>9, <2>10
<1>4. ASSUME NEW c \in ClustersOf(i)
      PROVE  own[c] = i
  <2>1. PICK n \in 1 .. FAT_ENTRIES : c = f[n]
    BY DEF ClustersOf, f
  <2>2. c \in Cluster
    BY DEF ClustersOf
  <2>3. QED
    BY <1>3, <2>1, <2>2
<1>5. QED
  BY <1>4

\* Every file owns its clusters and the FAT says so, for disks of every size, after any
\* operations, failed transfers and power failures, unless a write of the FAT has failed.
THEOREM FilesDoNotShareClusters == Spec => []FilesOwnTheirClusters
<1>1. IInv /\ Owning => FilesOwnTheirClusters
  <2>1. SUFFICES ASSUME IInv, Owning, FatNeverMissed
                 PROVE  /\ \A i \in Used : \A c \in ClustersOf(i) : Fat[c] # FREE
                        /\ \A i, j \in Used : i # j => ClustersOf(i) \cap ClustersOf(j) = {}
                        /\ \A i \in Used : root_dir_cluster \notin ClustersOf(i)
    BY DEF FilesOwnTheirClusters
  <2>2. PICK own \in [Cluster -> Entry \cup {NoOne}] : OwnedBy(Fat, Root, own)
    BY <2>1 DEF Owning
  <2>3. \A i \in Used : \A c \in ClustersOf(i) : c \in Cluster /\ own[c] = i /\ own[c] # NoOne
    <3> TAKE i \in Used
    <3>1. \A c \in ClustersOf(i) : own[c] = i
      BY <2>1, <2>2, ChainHasOneOwner DEF IInv
    <3>2. i # NoOne
      BY NoOneIsNoEntry DEF Used
    <3>3. \A c \in ClustersOf(i) : c \in Cluster
      BY DEF ClustersOf
    <3>4. QED
      BY <3>1, <3>2, <3>3
  <2>4. \A i \in Used : \A c \in ClustersOf(i) : Fat[c] # FREE
    BY <2>2, <2>3 DEF OwnedBy
  <2>5. \A i, j \in Used : i # j => ClustersOf(i) \cap ClustersOf(j) = {}
    BY <2>3
  <2>6. \A i \in Used : root_dir_cluster \notin ClustersOf(i)
    BY <2>2, <2>3 DEF OwnedBy
  <2>7. QED
    BY <2>4, <2>5, <2>6
<1>2. QED
  BY <1>1, InitOwning, StepOwning, DiskInvariant, PTL DEF Spec

(***************************************************************************)
(* A file appears with its data: while its entry is being made, its        *)
(* cluster holds the text, unless the write of that has failed.            *)
(***************************************************************************)
Laid ==
    /\ pc # "idle" => Len(op.data) < SECTOR
    /\ pc \in Allocating => cluster \in Cluster
    /\ pc \in {"write_root", "write_root_back"} /\ missed \subseteq {root_sector} =>
            disk[cluster_to_sector(cluster)] = Fill(Blank, 0, op.data)

LEMMA InitLaid == Init => Laid
BY DEF Init, Laid, Allocating

LEMMA StepLaid == IInv /\ Laid /\ [Next]_vars => Laid'
<1> SUFFICES ASSUME IInv, Laid, [Next]_vars
             PROVE  Laid'
  OBVIOUS
<1>1. CASE CallWrite \/ CallAppend \/ CallRead
  <2>1. /\ pc' \in {"write_fat", "append_root", "read_root"}
        /\ op'.data \in Data \cup {<< >>}
    BY <1>1 DEF CallWrite, CallAppend, CallRead, Call
  <2>2. Len(op'.data) < SECTOR
    BY <2>1, SizeAssumption, DataAssumption
  <2>3. QED
    BY <2>1, <2>2 DEF Laid, Allocating
<1>2. CASE WriteFatBack
  <2>1. /\ pc = "write_fat_back" /\ pc' = "write_data" /\ cluster' = cluster /\ op' = op
    BY <1>2 DEF WriteFatBack, locals
  <2>2. QED
    BY <2>1 DEF IInv, Underway, Laid
<1>3. CASE WriteData
  <2> DEFINE at == cluster_to_sector(cluster)
  <2>1. /\ pc = "write_data" /\ pc' = "write_root" /\ cluster' = cluster /\ op' = op
        /\ WriteSector(at, Fill(Blank, 0, op.data))
    BY <1>3 DEF WriteData, locals
  <2>2. cluster \in Cluster /\ cluster # root_dir_cluster
    BY <2>1 DEF Laid, IInv, Underway, Allocating
  <2>3. at \in Sector /\ at # root_sector
    BY <2>2, Places
  <2> HIDE DEF at
  <2>4. \/ disk'[at] = Fill(Blank, 0, op.data)
        \/ missed' = missed \cup {at}
    BY <2>1, <2>3, WriteToSector DEF IInv, Kinds
  <2>5. missed' \subseteq {root_sector} => disk'[at] = Fill(Blank, 0, op.data)
    BY <2>3, <2>4
  <2>6. QED
    BY <2>1, <2>2, <2>5 DEF Laid, at
<1>4. CASE WriteReadRoot
  <2>1. /\ pc = "write_root" /\ UNCHANGED <<disk, op, cluster, missed>>
    BY <1>4 DEF WriteReadRoot, locals
  <2>2. QED
    BY <2>1 DEF Laid, Allocating
<1>5. CASE pc' = "idle"
  BY <1>5 DEF Laid, Allocating
<1>6. CASE UNCHANGED vars
  BY <1>6 DEF Laid, vars, locals
<1>7. CASE pc' # "idle" /\ (WriteReadFat \/ AppendStep \/ ReadStep \/ GetDirList)
  <2>1. op' = op /\ pc # "idle" /\ pc' \notin Allocating
    BY <1>7 DEF WriteReadFat, AppendStep, ReadStep, GetDirList, Allocating, Return,
                AppendReadRoot, AppendReadFat, AppendFollow, AppendLastFound, AppendReadData,
                AppendDataBack, AppendReadRootAgain, AppendRootBack, ReadRoot, ReadData
  <2>2. QED
    BY <2>1 DEF Laid, Allocating
<1>8. QED
  BY <1>1, <1>2, <1>3, <1>4, <1>5, <1>6, <1>7
     DEF Next, Step, WriteStep, WriteRootBack, Reboot, ReadFails, Return

LEMMA TextOfSector ==
    ASSUME NEW d \in Seq(Byte), Len(d) < SECTOR, NEW b \in 1 .. Len(d)
    PROVE  Fill(Blank, 0, d)[1 + ((b - 1) % SECTOR)] = d[b] /\ (b - 1) \div SECTOR = 0
<1>1. b \in 1 .. SECTOR /\ b > 0 /\ b - 0 = b /\ b <= Len(d)
  BY SizeAssumption
<1>2. b - 1 \in Nat /\ b - 1 < SECTOR /\ SECTOR \in Nat
  BY SizeAssumption
<1>3. (b - 1) % SECTOR = b - 1 /\ (b - 1) \div SECTOR = 0
  BY <1>2, SMT
<1>4. 1 + ((b - 1) % SECTOR) = b
  BY <1>3
<1>5. QED
  BY <1>1, <1>3, <1>4 DEF Fill

LEMMA NewFileHasItsText ==
    ASSUME IInv, Laid, WriteRootBack, Root' = disk_buffer, missed \subseteq {root_sector},
           NEW i \in Entry, i \notin Used, i \in Used'
    PROVE  Root'[i].name = op.name /\ ContentsOf(i)' = op.data
<1>1. /\ pc = "write_root_back" /\ WriteSector(root_sector, disk_buffer)
  BY DEF WriteRootBack
<1>2. PICK e \in Entry : /\ IsFree(Root[e])
                        /\ disk_buffer = WithEntry(Root, e, op.name, cluster, Len(op.data))
  BY <1>1 DEF IInv, Underway
<1>3. /\ op.name \in Name /\ op.data \in Seq(Byte) /\ Len(op.data) \in Nat
      /\ Len(op.data) < SECTOR /\ cluster \in Cluster /\ cluster \in Place
      /\ cluster # root_dir_cluster /\ Root \in Directory
  BY <1>1, Places DEF IInv, Asked, Counters, Kinds, Laid, Allocating, Underway
<1>4. /\ Root'[e].name = op.name /\ Root'[e].cluster = cluster
      /\ \A j \in Entry : j # e => Root'[j] = Root[j]
  BY <1>2, <1>3, NewEntry
<1>5. i = e
  BY <1>4 DEF Used
<1>6. Root'[e].size = Len(op.data)
  BY <1>2, <1>3 DEF WithEntry, Directory
<1> DEFINE at == cluster_to_sector(cluster)
           text == Fill(Blank, 0, op.data)
<1>7. disk'[at] = text
  <2>1. at \in Sector /\ at # root_sector
    BY <1>3, Places
  <2>2. disk[at] = text
    BY <1>1 DEF Laid
  <2> HIDE DEF at, text
  <2>3. disk'[at] = disk[at]
    BY <1>1, <2>1, Places, WriteToSector DEF IInv, Kinds
  <2>4. QED
    BY <2>2, <2>3
<1>8. Nth(i)'[1] = cluster
  <2> DEFINE Chain(g) == IsChain(g, FAT_ENTRIES, Root'[i].cluster, Behind')
  <2>1. \E g : Chain(g)
    <3>1. FAT_ENTRIES \in Nat \ {0}
      BY SizeAssumption
    <3>2. QED
      BY <3>1, ChainExists
  <2>2. Nth(i)' = CHOOSE g : Chain(g)
    BY DEF Nth, IsChain
  <2>3. Chain(Nth(i)')
    BY <2>1, <2>2
  <2>4. 1 \in 1 .. FAT_ENTRIES
    BY SizeAssumption
  <2>5. QED
    BY <1>4, <1>5, <2>3, <2>4 DEF IsChain
<1>9. \A b \in 1 .. Len(op.data) :
          /\ text[1 + ((b - 1) % SECTOR)] = op.data[b]
          /\ 1 + ((b - 1) \div SECTOR) = 1
  BY <1>3, TextOfSector
<1>10. ContentsOf(i)' = [b \in 1 .. Len(op.data) |->
              disk'[cluster_to_sector(Nth(i)'[1 + ((b - 1) \div SECTOR)])][1 + ((b - 1) % SECTOR)]]
  BY <1>5, <1>6 DEF ContentsOf
<1> HIDE DEF text
<1>11. ContentsOf(i)' = [b \in 1 .. Len(op.data) |-> op.data[b]]
  BY <1>7, <1>8, <1>9, <1>10
<1>12. op.data = [b \in 1 .. Len(op.data) |-> op.data[b]]
  BY <1>3
<1>13. QED
  BY <1>4, <1>5, <1>11, <1>12

(***************************************************************************)
(* A file keeps its bytes.  An append reads the offset in the last sector  *)
(* from the entry, follows the chain of that entry to its end, and copies  *)
(* behind the offset: no byte of a file that ends within its last sector   *)
(* lies there.                                                             *)
(***************************************************************************)
Extending ==
    /\ \A c \in {0, 1} : Fat[c] \notin Cluster
    /\ pc \in Following \cup {"append_root_again", "append_root_back"} =>
            ~IsFree(Root[entry]) /\ offset = Root[entry].size % SECTOR
    /\ pc \in Following =>
            \A own \in [Cluster -> Entry \cup {NoOne}] :
                OwnedBy(Fat, Root, own) /\ cluster \in Cluster => own[cluster] = entry
    /\ pc \in {"append_data", "append_data_back"} => Fat[cluster] \notin Cluster
    /\ pc = "append_data_back" =>
            write_buffer = Fill(disk[cluster_to_sector(cluster)], offset, op.data)
    /\ pc = "append_root_back" =>
            \E n \in Nat : n >= Root[entry].size /\ disk_buffer = WithSize(Root, entry, n)

LEMMA InitExtending == Init => Extending
<1> SUFFICES ASSUME Init
             PROVE  Extending
  OBVIOUS
<1>1. pc = "idle" /\ disk \in Image
  BY DEF Init
<1>2. \A c \in {0, 1} : Fat[c] \notin Cluster
  BY <1>1, ImageAssumption DEF Fat
<1>3. QED
  BY <1>1, <1>2 DEF Extending, Following

\* Between the steps of an append nothing else happens, so most steps are outside.
LEMMA OutsideAppends ==
    ASSUME \A c \in {0, 1} : Fat'[c] \notin Cluster,
           pc' \notin Following \cup {"append_root_again", "append_root_back"}
    PROVE  Extending'
BY DEF Extending, Following

LEMMA ReadRootExtends ==
    ASSUME IInv, Extending, AppendReadRoot
    PROVE  Extending'
<1>1. UNCHANGED disk /\ pc = "append_root"
  BY DEF AppendReadRoot
<1>2. Fat' = Fat /\ Root' = Root
  BY <1>1 DEF Fat, Root
<1>3. \A c \in {0, 1} : Fat'[c] \notin Cluster
  BY <1>2 DEF Extending
<1>4. CASE Matches(Root, op.name) = {}
  <2>1. pc' = "write_fat"
    BY <1>4 DEF AppendReadRoot, Root
  <2>2. QED
    BY <1>3, <2>1, OutsideAppends DEF Following
<1>5. CASE Matches(Root, op.name) # {}
  <2> DEFINE i == FirstMatch(Root, op.name)
  <2>1. /\ entry' = i /\ cluster' = Root[i].cluster
        /\ offset' = Root[i].size % SECTOR /\ pc' = "append_fat"
    BY <1>5 DEF AppendReadRoot, Root, OffsetInSector
  <2>2. i \in Entry /\ ~IsFree(Root[i])
    BY <1>1, <1>5, FirstMatchMatches DEF IInv, Asked
  <2> HIDE DEF i
  <2>3. \A own \in [Cluster -> Entry \cup {NoOne}] :
            OwnedBy(Fat, Root, own) /\ cluster' \in Cluster => own[cluster'] = i
    BY <2>1, <2>2 DEF OwnedBy
  <2>4. ~IsFree(Root'[entry']) /\ offset' = Root'[entry'].size % SECTOR
    BY <1>2, <2>1, <2>2
  <2>5. QED
    BY <1>2, <1>3, <2>1, <2>3, <2>4 DEF Extending, Following
<1>6. QED
  BY <1>4, <1>5

LEMMA WalkExtends ==
    ASSUME IInv, Extending, AppendReadFat \/ AppendFollow \/ AppendLastFound
    PROVE  Extending'
<1>1. UNCHANGED <<disk, op, entry, offset>>
  BY DEF AppendReadFat, AppendFollow, AppendLastFound, buffers, locals
<1>2. Fat' = Fat /\ Root' = Root
  BY <1>1 DEF Fat, Root
<1>3. \A c \in {0, 1} : Fat'[c] \notin Cluster
  BY <1>2 DEF Extending
<1>4. CASE AppendReadFat
  <2>1. pc = "append_fat" /\ pc' = "append_follow" /\ cluster' = cluster
    BY <1>4 DEF AppendReadFat
  <2>2. QED
    BY <1>1, <1>2, <2>1 DEF Extending, Following
<1>5. CASE AppendFollow
  <2>1. /\ pc = "append_follow" /\ HasNext /\ cluster' = disk_buffer[cluster]
        /\ disk_buffer = Fat /\ pc' \in {"append_follow", "idle"}
    BY <1>5 DEF AppendFollow, IInv, Underway, Return
  <2>2. cluster' = Fat[cluster] /\ cluster' \in Cluster /\ cluster \in Cluster
    <3>1. cluster \in Place /\ cluster' = Fat[cluster] /\ cluster' \in Cluster
      BY <2>1, FatLink DEF IInv, Kinds, Counters, HasNext
    <3>2. cluster \notin {0, 1}
      BY <3>1 DEF Extending
    <3>3. QED
      BY <3>1, <3>2, SizeAssumption DEF Place, Cluster
  <2>3. ASSUME NEW own \in [Cluster -> Entry \cup {NoOne}], OwnedBy(Fat, Root, own)
        PROVE  own[cluster'] = entry
    <3>1. own[cluster] = entry /\ entry # NoOne
      BY <2>1, <2>2, <2>3, NoOneIsNoEntry DEF Extending, Following, IInv, Counters
    <3>2. QED
      BY <2>2, <2>3, <3>1 DEF OwnedBy
  <2>4. CASE pc' = "idle"
    BY <1>3, <2>4, OutsideAppends DEF Following
  <2>5. CASE pc' = "append_follow"
    BY <1>1, <1>2, <2>1, <2>3, <2>5 DEF Extending, Following
  <2>6. QED
    BY <2>1, <2>4, <2>5
<1>6. CASE AppendLastFound
  <2>1. /\ pc = "append_follow" /\ pc' = "append_data" /\ cluster' = cluster
        /\ ~HasNext /\ disk_buffer = Fat
    BY <1>6 DEF AppendLastFound, locals, IInv, Underway
  <2>2. Fat[cluster] \notin Cluster
    BY <2>1, SizeAssumption DEF HasNext, Cluster, EOF
  <2>3. QED
    BY <1>1, <1>2, <2>1, <2>2 DEF Extending, Following
<1>7. QED
  BY <1>4, <1>5, <1>6

LEMMA DataExtends ==
    ASSUME IInv, Extending, AppendReadData \/ AppendDataBack
    PROVE  Extending'
<1>1. UNCHANGED locals /\ op' = op
  BY DEF AppendReadData, AppendDataBack
<1>2. CASE AppendReadData
  <2>1. /\ pc = "append_data" /\ pc' = "append_data_back" /\ UNCHANGED disk
        /\ write_buffer' = Fill(disk[cluster_to_sector(cluster)], offset, op.data)
    BY <1>2 DEF AppendReadData
  <2>2. Fat' = Fat /\ Root' = Root
    BY <2>1 DEF Fat, Root
  <2>3. QED
    BY <1>1, <2>1, <2>2 DEF Extending, Following, locals
<1>3. CASE AppendDataBack
  <2>1. pc = "append_data_back" /\ pc' = "append_root_again"
    BY <1>3 DEF AppendDataBack
  <2>2. Fat' = Fat /\ Root' = Root
    BY <1>3, AppendDataBackKeepsIInv
  <2>3. QED
    BY <1>1, <2>1, <2>2 DEF Extending, Following, locals
<1>4. QED
  BY <1>2, <1>3

LEMMA ReadAgainExtends ==
    ASSUME IInv, Extending, AppendReadRootAgain
    PROVE  Extending'
<1>1. /\ UNCHANGED <<disk, op, locals>>
      /\ pc = "append_root_again" /\ pc' = "append_root_back"
      /\ disk_buffer' = [Root EXCEPT ![entry].size = @ + Copied]
  BY DEF AppendReadRootAgain, Root
<1>2. Fat' = Fat /\ Root' = Root
  BY <1>1 DEF Fat, Root
<1>3. Copied \in Nat
  <2>1. Len(op.data) \in Nat /\ offset \in 0 .. SECTOR - 1
    BY <1>1 DEF IInv, Asked, Counters
  <2>2. QED
    BY <2>1, SizeAssumption DEF Copied
<1> DEFINE n == Root[entry].size + Copied
<1>4. n \in Nat /\ n >= Root[entry].size
  BY <1>3, EntryFields DEF IInv, Kinds, Counters
<1>5. disk_buffer' = WithSize(Root, entry, n)
  BY <1>1 DEF IInv, Kinds, Counters, Directory, WithSize
<1> HIDE DEF n
<1>6. QED
  BY <1>1, <1>2, <1>4, <1>5 DEF Extending, Following, locals

LEMMA StepExtending == IInv /\ Extending /\ [Next]_vars => Extending'
<1> SUFFICES ASSUME IInv, Extending, [Next]_vars
             PROVE  Extending'
  OBVIOUS
<1>1. CASE AppendReadRoot
  BY <1>1, ReadRootExtends
<1>2. CASE AppendReadFat \/ AppendFollow \/ AppendLastFound
  BY <1>2, WalkExtends
<1>3. CASE AppendReadData \/ AppendDataBack
  BY <1>3, DataExtends
<1>4. CASE AppendReadRootAgain
  BY <1>4, ReadAgainExtends
<1>5. CASE UNCHANGED vars
  <2>1. Fat' = Fat /\ Root' = Root /\ disk' = disk
    BY <1>5 DEF vars, Fat, Root
  <2>2. QED
    BY <1>5, <2>1 DEF Extending, Following, vars, locals, buffers
<1>6. CASE WriteFatBack
  <2>1. /\ pc = "write_fat_back" /\ pc' = "write_data" /\ cluster \in Cluster
        /\ cluster # root_dir_cluster
        /\ WriteSector(fat_start_sector, [Fat EXCEPT ![cluster] = EOF])
    BY <1>6 DEF WriteFatBack, IInv, Underway
  <2>2. Fat' = [Fat EXCEPT ![cluster] = EOF] \/ Fat' = Fat
    BY <2>1, FatWriteKeepsKinds DEF IInv
  <2>3. \A c \in {0, 1} : c \in Place /\ c # cluster
    BY <2>1, SizeAssumption DEF Place, Cluster
  <2>4. ASSUME NEW c \in {0, 1}
        PROVE  Fat'[c] = Fat[c]
    <3>1. Fat \in FatTable
      BY DEF IInv, Kinds
    <3>2. [Fat EXCEPT ![cluster] = EOF][c] = Fat[c]
      BY <2>1, <2>3, <3>1, FatWithEnd
    <3>3. QED
      BY <2>2, <3>2
  <2>5. QED
    BY <2>1, <2>4, OutsideAppends DEF Extending, Following
<1>7. CASE WriteData \/ WriteRootBack \/ AppendRootBack
  <2>1. Fat' = Fat
    BY <1>7, WriteDataKeepsIInv, RootBackKeepsIInv
  <2>2. pc' \in {"write_root", "idle"}
    BY <1>7 DEF WriteData, WriteRootBack, AppendRootBack, Return
  <2>3. QED
    BY <2>1, <2>2, OutsideAppends DEF Extending, Following
<1>8. CASE CallWrite \/ CallAppend \/ CallRead \/ GetDirList \/ Reboot \/ WriteReadFat
           \/ WriteReadRoot \/ ReadStep \/ \E at \in Reading : ReadFails(at)
  <2>1. UNCHANGED disk
    BY <1>8 DEF CallWrite, CallAppend, CallRead, Call, GetDirList, Reboot, WriteReadFat,
                WriteReadRoot, ReadStep, ReadRoot, ReadData, ReadFails
  <2>2. Fat' = Fat
    BY <2>1 DEF Fat
  <2>3. pc' \notin Following \cup {"append_root_again", "append_root_back"}
    BY <1>8 DEF CallWrite, CallAppend, CallRead, Call, GetDirList, Reboot, WriteReadFat,
                WriteReadRoot, ReadStep, ReadRoot, ReadData, ReadFails, Return, Following
  <2>4. QED
    BY <2>2, <2>3, OutsideAppends DEF Extending
<1>9. QED
  BY <1>1, <1>2, <1>3, <1>4, <1>5, <1>6, <1>7, <1>8 DEF Next, Step, WriteStep, AppendStep

(***************************************************************************)
(* The chain of a file that ends within its last sector: so many clusters  *)
(* as it has, each linked to the next, and nothing behind them.            *)
(***************************************************************************)
LEMMA ChainInPlace ==
    ASSUME Kinds, NEW i \in Entry
    PROVE  \A n \in 1 .. FAT_ENTRIES : Nth(i)[n] \in Place
<1>1. \A n \in 1 .. FAT_ENTRIES :
            Nth(i)[n] = IF n = 1 THEN Root[i].cluster ELSE Behind[Nth(i)[n - 1]]
  BY NthValue
<1>2. \A c \in Place : Behind[c] \in Place
  <2>1. 0 \in Place
    BY SizeAssumption DEF Place
  <2>2. QED
    BY <2>1, Places DEF Behind, Place
<1>3. Root[i].cluster \in Place
  BY EntryFields DEF Kinds
<1> DEFINE T == {n \in 1 .. FAT_ENTRIES : Nth(i)[n] \notin Place}
<1>4. ASSUME T # {}
      PROVE  FALSE
  <2>1. PICK n \in T : \A y \in T : n <= y
    <3>1. T \in SUBSET Nat
      BY SizeAssumption
    <3> HIDE DEF T
    <3>2. QED
      BY <1>4, <3>1, Least
  <2>2. n \in 1 .. FAT_ENTRIES /\ n # 1 /\ Nth(i)[n] \notin Place
    BY <1>1, <1>3
  <2>3. n - 1 \in 1 .. FAT_ENTRIES /\ ~(n <= n - 1)
    BY <2>2, SizeAssumption
  <2>4. n - 1 \notin T
    <3> HIDE DEF T
    <3>1. QED
      BY <2>1, <2>3
  <2>5. Nth(i)[n - 1] \in Place
    BY <2>3, <2>4
  <2> HIDE DEF T
  <2>6. QED
    BY <1>1, <1>2, <2>2, <2>5
<1>5. QED
  BY <1>4

LEMMA ChainStaysOut ==
    ASSUME Kinds, NEW i \in Entry, NEW m \in 1 .. FAT_ENTRIES, Nth(i)[m] \notin Cluster
    PROVE  \A n \in m .. FAT_ENTRIES : Nth(i)[n] \notin Cluster
<1>1. \A n \in 1 .. FAT_ENTRIES :
            Nth(i)[n] = IF n = 1 THEN Root[i].cluster ELSE Behind[Nth(i)[n - 1]]
  BY NthValue
<1>2. \A c \in Place \ Cluster : Behind[c] \notin Cluster
  BY SizeAssumption DEF Behind, Place, Cluster
<1>3. \A n \in 1 .. FAT_ENTRIES : Nth(i)[n] \in Place
  BY ChainInPlace
<1> DEFINE T == {n \in m .. FAT_ENTRIES : Nth(i)[n] \in Cluster}
<1>4. ASSUME T # {}
      PROVE  FALSE
  <2>1. PICK n \in T : \A y \in T : n <= y
    <3>1. T \in SUBSET Nat
      BY SizeAssumption
    <3> HIDE DEF T
    <3>2. QED
      BY <1>4, <3>1, Least
  <2>2. n \in m .. FAT_ENTRIES /\ n # m /\ Nth(i)[n] \in Cluster
    OBVIOUS
  <2>3. /\ n - 1 \in m .. FAT_ENTRIES /\ ~(n <= n - 1)
        /\ n \in 1 .. FAT_ENTRIES /\ n - 1 \in 1 .. FAT_ENTRIES /\ n # 1
    BY <2>2, SizeAssumption
  <2>4. n - 1 \notin T
    <3> HIDE DEF T
    <3>1. QED
      BY <2>1, <2>3
  <2>5. Nth(i)[n - 1] \in Place \ Cluster
    BY <1>3, <2>3, <2>4
  <2> HIDE DEF T
  <2>6. QED
    BY <1>1, <1>2, <2>2, <2>3, <2>5
<1>5. QED
  BY <1>4

LEMMA FewerPlaces ==
    ASSUME NEW f, NEW m \in Nat, NEW S, S \subseteq {f[k] : k \in 1 .. m}
    PROVE  IsFiniteSet(S) /\ Cardinality(S) <= m
<1> DEFINE D == 1 .. m
           R == {f[k] : k \in D}
           g == [k \in D |-> f[k]]
<1>1. g \in Surjection(D, R)
  BY DEF Surjection
<1>2. IsFiniteSet(D) /\ Cardinality(D) = m
  <2>1. 1 \in Int /\ m \in Int
    OBVIOUS
  <2>2. QED
    BY <2>1, FS_Interval
<1> HIDE DEF g, R, D
<1>3. IsFiniteSet(R) /\ Cardinality(R) <= m
  BY <1>1, <1>2, FS_Surjection
<1>4. S \in SUBSET R
  BY DEF R, D
<1>5. IsFiniteSet(S) /\ Cardinality(S) <= Cardinality(R)
  BY <1>3, <1>4, FS_Subset
<1>6. Cardinality(S) \in Nat /\ Cardinality(R) \in Nat
  BY <1>3, <1>5, FS_CardinalityType
<1>7. QED
  BY <1>3, <1>5, <1>6

LEMMA ChainOfFile ==
    ASSUME Kinds, NEW i \in Entry, EndsInLastSector(i),
           NEW n, n = Cardinality(ClustersOf(i))
    PROVE  /\ n \in 1 .. FAT_ENTRIES
           /\ \A k \in 1 .. n : Nth(i)[k] \in Cluster
           /\ \A k \in 1 .. n : Fat[Nth(i)[k]] \notin Cluster => k = n
           /\ Root[i].size < n * SECTOR /\ Root[i].size >= (n - 1) * SECTOR
<1>1. /\ Root[i].cluster \in Cluster /\ Fat[Nth(i)[n]] = EOF
      /\ Root[i].size < n * SECTOR /\ Root[i].size >= (n - 1) * SECTOR
  BY DEF EndsInLastSector
<1>2. n \in 1 .. FAT_ENTRIES
  <2>1. ClustersOf(i) \subseteq {Nth(i)[k] : k \in 1 .. FAT_ENTRIES}
    BY DEF ClustersOf
  <2>2. FAT_ENTRIES \in Nat
    BY SizeAssumption
  <2>3. IsFiniteSet(ClustersOf(i)) /\ n <= FAT_ENTRIES
    BY <2>1, <2>2, FewerPlaces
  <2>4. Nth(i)[1] = Root[i].cluster /\ 1 \in 1 .. FAT_ENTRIES
    BY NthValue, SizeAssumption
  <2>5. ClustersOf(i) # {}
    BY <1>1, <2>4 DEF ClustersOf
  <2>6. n \in Nat /\ n # 0
    BY <2>3, <2>5, FS_CardinalityType, FS_EmptySet
  <2>7. QED
    BY <2>2, <2>3, <2>6
<1>3. Nth(i)[n] \in Cluster
  <2>1. SUFFICES ASSUME Nth(i)[n] \notin Cluster
                 PROVE  FALSE
    OBVIOUS
  <2>2. \A k \in n .. FAT_ENTRIES : Nth(i)[k] \notin Cluster
    BY <1>2, <2>1, ChainStaysOut
  <2>3. ClustersOf(i) \subseteq {Nth(i)[k] : k \in 1 .. n - 1}
    <3>1. SUFFICES ASSUME NEW c \in ClustersOf(i)
                   PROVE  \E k \in 1 .. n - 1 : c = Nth(i)[k]
      OBVIOUS
    <3>2. PICK k \in 1 .. FAT_ENTRIES : c = Nth(i)[k] /\ c \in Cluster
      BY DEF ClustersOf
    <3>3. k \notin n .. FAT_ENTRIES
      BY <2>2, <3>2
    <3>4. k \in 1 .. n - 1
      BY <1>2, <3>3, SizeAssumption
    <3>5. QED
      BY <3>2, <3>4
  <2>4. n - 1 \in Nat
    BY <1>2
  <2>5. n <= n - 1
    BY <2>3, <2>4, FewerPlaces
  <2>6. QED
    BY <1>2, <2>5
<1>4. ASSUME NEW k \in 1 .. n
      PROVE  Nth(i)[k] \in Cluster
  <2>1. k \in 1 .. FAT_ENTRIES /\ n \in k .. FAT_ENTRIES
    BY <1>2, SizeAssumption
  <2>2. QED
    BY <1>3, <2>1, ChainStaysOut
<1>5. ASSUME NEW k \in 1 .. n, k # n
      PROVE  Fat[Nth(i)[k]] \in Cluster
  <2>1. k + 1 \in 1 .. n /\ k + 1 \in 1 .. FAT_ENTRIES /\ k + 1 # 1 /\ (k + 1) - 1 = k
    BY <1>2, <1>5, SizeAssumption
  <2>2. Nth(i)[k + 1] = Behind[Nth(i)[k]]
    BY <2>1, NthValue
  <2>3. Behind[Nth(i)[k]] \in Cluster /\ Nth(i)[k] \in Cluster
    BY <1>4, <2>1, <2>2
  <2>4. 0 \notin Cluster /\ Nth(i)[k] \in Place
    BY <2>3, Places, SizeAssumption DEF Cluster
  <2>5. QED
    BY <2>3, <2>4 DEF Behind, Place
<1>6. QED
  BY <1>1, <1>2, <1>4, <1>5

\* Where a byte of such a file is: in one of its clusters, and in the last one in front
\* of the offset at which an append begins.
LEMMA PlaceOfByte ==
    ASSUME NEW S \in Nat \ {0}, NEW n \in Nat \ {0}, NEW size \in Nat, NEW b \in 1 .. size,
           size < n * S, size >= (n - 1) * S
    PROVE  /\ 1 + ((b - 1) \div S) \in 1 .. n
           /\ (b - 1) % S \in 0 .. S - 1
           /\ 1 + ((b - 1) \div S) = n => (b - 1) % S < size % S
<1> DEFINE q == (b - 1) \div S
           r == (b - 1) % S
           p == size \div S
           t == size % S
<1>1. b - 1 \in Nat /\ b - 1 < size
  OBVIOUS
<1>2. q \in Nat /\ r \in 0 .. S - 1 /\ b - 1 = S * q + r
  BY <1>1
<1>3. p \in Nat /\ t \in 0 .. S - 1 /\ size = S * p + t
  OBVIOUS
<1> HIDE DEF q, r, p, t
<1>4. q < n
  <2>1. SUFFICES ASSUME q >= n
                 PROVE  FALSE
    BY <1>2
  <2>2. S * q >= S * n
    BY <1>2, <2>1
  <2>3. n * S = S * n /\ S * q \in Nat /\ S * n \in Nat
    BY <1>2
  <2>4. QED
    BY <1>1, <1>2, <2>2, <2>3
<1>5. p >= n - 1
  <2>1. SUFFICES ASSUME p + 1 <= n - 1
                 PROVE  FALSE
    BY <1>3
  <2>2. S * (p + 1) <= S * (n - 1)
    BY <1>3, <2>1
  <2>3. S * (p + 1) = S * p + S /\ (n - 1) * S = S * (n - 1)
    BY <1>3
  <2>4. S * p \in Nat /\ S * (n - 1) \in Nat
    BY <1>3
  <2>5. QED
    BY <1>3, <2>2, <2>3, <2>4
<1>6. ASSUME 1 + q = n
      PROVE  r < t
  <2>1. p >= q
    BY <1>2, <1>3, <1>5, <1>6
  <2>2. p < n
    <3>1. SUFFICES ASSUME p >= n
                   PROVE  FALSE
      BY <1>3
    <3>2. S * p >= S * n
      BY <1>3, <3>1
    <3>3. n * S = S * n /\ S * p \in Nat /\ S * n \in Nat
      BY <1>3
    <3>4. QED
      BY <1>3, <3>2, <3>3
  <2>3. p = q
    BY <1>2, <1>3, <1>6, <2>1, <2>2
  <2>4. S * p \in Nat /\ S * p = S * q
    BY <1>3, <2>3
  <2>5. QED
    BY <1>1, <1>2, <1>3, <2>4
<1>7. QED
  BY <1>2, <1>4, <1>6 DEF q, r, t

SectorOf(i, b) == cluster_to_sector(Nth(i)[1 + ((b - 1) \div SECTOR)])
PlaceIn(b) == 1 + ((b - 1) % SECTOR)

LEMMA LengthOf ==
    ASSUME NEW m \in Nat, NEW f
    PROVE  Len([b \in 1 .. m |-> f[b]]) = m
OBVIOUS

LEMMA PrefixOfFile ==
    ASSUME NEW i \in Entry, Behind' = Behind, Root'[i].cluster = Root[i].cluster,
           Root[i].size \in Nat, Root'[i].size \in Nat, Root[i].size <= Root'[i].size,
           \A b \in 1 .. Root[i].size :
                disk'[SectorOf(i, b)][PlaceIn(b)] = disk[SectorOf(i, b)][PlaceIn(b)]
    PROVE  IsPrefixOf(ContentsOf(i), ContentsOf(i)')
<1> DEFINE n == Root[i].size
           m == Root'[i].size
           f == [b \in 1 .. m |-> disk[SectorOf(i, b)][PlaceIn(b)]]
           g == [b \in 1 .. m |-> disk'[SectorOf(i, b)][PlaceIn(b)]]
<1>1. Nth(i)' = Nth(i)
  <2>1. Nth(i) = CHOOSE x : IsChain(x, FAT_ENTRIES, Root[i].cluster, Behind)
    BY DEF Nth, IsChain
  <2>2. Nth(i)' = CHOOSE x : IsChain(x, FAT_ENTRIES, Root'[i].cluster, Behind')
    BY DEF Nth, IsChain
  <2>3. QED
    BY <2>1, <2>2
<1>2. /\ \A b \in 1 .. n : b \in 1 .. m /\ f[b] = g[b]
      /\ n \in Nat /\ m \in Nat /\ n <= m
  OBVIOUS
<1>3. ContentsOf(i) = [b \in 1 .. n |-> f[b]]
  <2>1. ContentsOf(i) = [b \in 1 .. n |-> disk[SectorOf(i, b)][PlaceIn(b)]]
    BY DEF ContentsOf, SectorOf, PlaceIn
  <2>2. \A b \in 1 .. n : f[b] = disk[SectorOf(i, b)][PlaceIn(b)]
    BY <1>2
  <2> HIDE DEF f
  <2>3. QED
    BY <2>1, <2>2
<1>4. ContentsOf(i)' = [b \in 1 .. m |-> g[b]]
  <2>1. ContentsOf(i)' = [b \in 1 .. m |-> disk'[SectorOf(i, b)][PlaceIn(b)]]
    BY <1>1 DEF ContentsOf, SectorOf, PlaceIn
  <2>2. QED
    BY <2>1
<1> HIDE DEF f, g, n, m
<1>5. Len(ContentsOf(i)) = n /\ Len(ContentsOf(i)') = m
  BY <1>2, <1>3, <1>4, LengthOf
<1>6. \A b \in 1 .. n : ContentsOf(i)'[b] = ContentsOf(i)[b]
  BY <1>2, <1>3, <1>4
<1>7. QED
  BY <1>2, <1>5, <1>6 DEF IsPrefixOf

\* Its bytes are in sectors of its own, the last of them in front of the offset.
LEMMA BytesOfFile ==
    ASSUME IInv, NEW own \in [Cluster -> Entry \cup {NoOne}], OwnedBy(Fat, Root, own),
           NEW i \in Used, EndsInLastSector(i), NEW b \in 1 .. Root[i].size
    PROVE  \E c \in Cluster :
              /\ SectorOf(i, b) = c /\ cluster_to_sector(c) = c /\ own[c] = i
              /\ c # root_dir_cluster /\ PlaceIn(b) \in 1 .. SECTOR
              /\ Fat[c] \notin Cluster => PlaceIn(b) <= Root[i].size % SECTOR
<1> DEFINE n == Cardinality(ClustersOf(i))
           k == 1 + ((b - 1) \div SECTOR)
           c == Nth(i)[k]
<1>1. i \in Entry /\ ~IsFree(Root[i]) /\ Root[i].size \in Nat /\ Kinds
  BY EntryFields DEF Used, IInv, Kinds
<1>2. /\ n \in 1 .. FAT_ENTRIES
      /\ \A x \in 1 .. n : Nth(i)[x] \in Cluster
      /\ \A x \in 1 .. n : Fat[Nth(i)[x]] \notin Cluster => x = n
      /\ Root[i].size < n * SECTOR /\ Root[i].size >= (n - 1) * SECTOR
  BY <1>1, ChainOfFile
<1> HIDE DEF n
<1>3. n \in Nat \ {0} /\ SECTOR \in Nat \ {0}
  BY <1>2, SizeAssumption
<1>4. /\ k \in 1 .. n /\ (b - 1) % SECTOR \in 0 .. SECTOR - 1
      /\ k = n => (b - 1) % SECTOR < Root[i].size % SECTOR
  BY <1>1, <1>2, <1>3, PlaceOfByte
<1> HIDE DEF k
<1>5. c \in Cluster /\ (Fat[c] \notin Cluster => k = n) /\ k \in 1 .. FAT_ENTRIES
  <2>1. c \in Cluster /\ (Fat[c] \notin Cluster => k = n)
    BY <1>2, <1>4, Zenon
  <2>2. k \in 1 .. FAT_ENTRIES
    BY <1>2, <1>4, SizeAssumption
  <2>3. QED
    BY <2>1, <2>2
<1>6. own[c] = i
  <2>1. c \in ClustersOf(i)
    BY <1>5 DEF ClustersOf
  <2>2. QED
    BY <1>1, <2>1, ChainHasOneOwner
<1>7. c # root_dir_cluster
  BY <1>1, <1>6, NoOneIsNoEntry DEF OwnedBy
<1>8. SectorOf(i, b) = cluster_to_sector(c) /\ cluster_to_sector(c) = c
  BY <1>5, SizeAssumption DEF SectorOf, k, cluster_to_sector, Cluster
<1>9. /\ PlaceIn(b) \in 1 .. SECTOR
      /\ Fat[c] \notin Cluster => PlaceIn(b) <= Root[i].size % SECTOR
  <2>1. Root[i].size % SECTOR \in 0 .. SECTOR - 1
    BY <1>1, Remainder
  <2>2. QED
    BY <1>3, <1>4, <1>5, <2>1 DEF PlaceIn
<1> HIDE DEF c
<1>10. QED
  BY <1>5, <1>6, <1>7, <1>8, <1>9

Keeps(i) ==
    /\ Root'[i].name = Root[i].name /\ Root'[i].cluster = Root[i].cluster
    /\ IsPrefixOf(ContentsOf(i), ContentsOf(i)')

\* A step that leaves the links of the FAT, the entry of a file and its sectors alone.
LEMMA KeepsFile ==
    ASSUME IInv, NEW own \in [Cluster -> Entry \cup {NoOne}], OwnedBy(Fat, Root, own),
           NEW i \in Used, EndsInLastSector(i),
           Behind' = Behind, Root'[i].name = Root[i].name,
           Root'[i].cluster = Root[i].cluster, Root'[i].size \in Nat,
           Root[i].size <= Root'[i].size,
           \A c \in Cluster \ {root_dir_cluster} : \A p \in 1 .. SECTOR :
                (own[c] = i /\ (Fat[c] \notin Cluster => p <= Root[i].size % SECTOR)) =>
                    disk'[c][p] = disk[c][p]
    PROVE  Keeps(i)
<1>1. i \in Entry /\ Root[i].size \in Nat
  BY EntryFields DEF Used, IInv, Kinds
<1>2. ASSUME NEW b \in 1 .. Root[i].size
      PROVE  disk'[SectorOf(i, b)][PlaceIn(b)] = disk[SectorOf(i, b)][PlaceIn(b)]
  <2>1. PICK c \in Cluster :
              /\ SectorOf(i, b) = c /\ own[c] = i
              /\ c # root_dir_cluster /\ PlaceIn(b) \in 1 .. SECTOR
              /\ Fat[c] \notin Cluster => PlaceIn(b) <= Root[i].size % SECTOR
    BY BytesOfFile
  <2>2. QED
    BY <2>1
<1>3. IsPrefixOf(ContentsOf(i), ContentsOf(i)')
  BY <1>1, <1>2, PrefixOfFile
<1>4. QED
  BY <1>3 DEF Keeps

\* The sectors of clusters other than that of the directory.
LEMMA ClusterSectors ==
    \A c \in Cluster \ {root_dir_cluster} :
        c \in Sector /\ c # fat_start_sector /\ c # root_sector /\ cluster_to_sector(c) = c
BY SizeAssumption DEF Cluster, root_dir_cluster, Sector, fat_start_sector, root_sector,
                      cluster_to_sector

\* The append's own write: behind the offset, in the last cluster of its file.
LEMMA AppendKeepsBytes ==
    ASSUME IInv, Extending, AppendDataBack,
           NEW own \in [Cluster -> Entry \cup {NoOne}], OwnedBy(Fat, Root, own),
           NEW i \in Entry, NEW c \in Cluster \ {root_dir_cluster}, NEW p \in 1 .. SECTOR,
           own[c] = i, Fat[c] \notin Cluster => p <= Root[i].size % SECTOR
    PROVE  disk'[c][p] = disk[c][p]
<1> DEFINE at == cluster_to_sector(cluster)
<1>1. /\ pc = "append_data_back" /\ WriteSector(at, write_buffer)
      /\ write_buffer = Fill(disk[at], offset, op.data)
      /\ Fat[cluster] \notin Cluster /\ offset = Root[entry].size % SECTOR
      /\ cluster \in Place /\ cluster # root_dir_cluster
  BY DEF AppendDataBack, Extending, Following, IInv, Underway, Counters
<1>2. at \in Sector /\ c \in Sector /\ cluster_to_sector(c) = c
  BY <1>1, Places, ClusterSectors
<1>3. CASE cluster = c
  <2>1. own[c] = entry
    BY <1>1, <1>3 DEF Extending, Following
  <2>2. p <= offset
    BY <1>1, <1>3, <2>1
  <2>3. offset \in Nat /\ p \in Nat
    BY SizeAssumption DEF IInv, Counters
  <2>4. Fill(disk[at], offset, op.data)[p] = disk[at][p]
    BY <2>2, <2>3 DEF Fill
  <2>5. at = c
    BY <1>2, <1>3
  <2> HIDE DEF at
  <2>6. disk'[at] = write_buffer \/ disk' = disk
    BY <1>1, <1>2, WriteToSector DEF IInv, Kinds
  <2>7. QED
    BY <1>1, <2>4, <2>5, <2>6
<1>4. CASE cluster # c
  <2>1. at # c
    BY <1>1, <1>4, SizeAssumption
       DEF cluster_to_sector, Place, Cluster, FatTail
  <2> HIDE DEF at
  <2>2. disk'[c] = disk[c]
    BY <1>1, <1>2, <2>1, WriteToSector DEF IInv, Kinds
  <2>3. QED
    BY <2>2
<1>5. QED
  BY <1>3, <1>4

LEMMA EntryWithSize ==
    ASSUME NEW dir \in Directory, NEW e \in Entry, NEW n \in Nat, n >= dir[e].size,
           NEW i \in Entry
    PROVE  WithSize(dir, e, n)[i].size \in Nat /\ WithSize(dir, e, n)[i].size >= dir[i].size
<1>1. dir[e] \in DirEntry /\ dir[i] \in DirEntry
  BY DEF Directory
<1>2. [dir[e] EXCEPT !.size = n].size = n
  BY <1>1 DEF DirEntry
<1>3. WithSize(dir, e, n) = [dir EXCEPT ![e] = [dir[e] EXCEPT !.size = n]]
  BY DEF WithSize
<1>4. dir[i].size \in Nat
  BY <1>1 DEF DirEntry
<1>5. CASE i = e
  BY <1>2, <1>3, <1>5 DEF Directory
<1>6. CASE i # e
  BY <1>3, <1>4, <1>6 DEF Directory
<1>7. QED
  BY <1>5, <1>6

LEMMA MissedGrows == Next => missed \subseteq missed'
BY DEF Next, Step, WriteStep, AppendStep, ReadStep, CallWrite, CallAppend, CallRead, Call,
       GetDirList, ReadRoot, ReadData, Reboot, ReadFails, WriteSector,
       WriteFatBack, WriteData, WriteRootBack, AppendDataBack, AppendRootBack,
       WriteReadFat, WriteReadRoot, AppendReadRoot, AppendReadFat, AppendFollow,
       AppendLastFound, AppendReadData, AppendReadRootAgain

LEMMA StepKeepsFile ==
    ASSUME IInv, Owning, Extending, Next, FatNeverMissed',
           NEW i \in Used, EndsInLastSector(i)
    PROVE  Keeps(i)
<1>1. FatNeverMissed
  <2>1. missed \subseteq missed'
    BY MissedGrows
  <2>2. QED
    BY <2>1 DEF FatNeverMissed
<1>2. PICK own \in [Cluster -> Entry \cup {NoOne}] :
            /\ OwnedBy(Fat, Root, own)
            /\ pc \in Allocating => cluster \in Cluster /\ own[cluster] = NoOne
  BY <1>1 DEF Owning
<1>3. /\ i \in Entry /\ ~IsFree(Root[i]) /\ i # NoOne /\ Root \in Directory
      /\ Root[i].size \in Nat /\ Root[i].size <= Root[i].size
  BY EntryFields, NoOneIsNoEntry DEF Used, IInv, Kinds
<1> DEFINE Untouched == \A c \in Cluster \ {root_dir_cluster} : own[c] = i => disk'[c] = disk[c]
<1>4. Untouched =>
        \A c \in Cluster \ {root_dir_cluster} : \A p \in 1 .. SECTOR :
            (own[c] = i /\ (Fat[c] \notin Cluster => p <= Root[i].size % SECTOR)) =>
                disk'[c][p] = disk[c][p]
  OBVIOUS
<1>5. ASSUME Untouched, Root' = Root, Behind' = Behind
      PROVE  Keeps(i)
  <2> HIDE DEF Untouched
  <2>1. QED
    BY <1>2, <1>3, <1>4, <1>5, KeepsFile
<1>6. CASE WriteFatBack
  <2>1. /\ pc = "write_fat_back" /\ cluster \in Cluster /\ cluster # root_dir_cluster
        /\ Fat[cluster] = FREE
        /\ WriteSector(fat_start_sector, [Fat EXCEPT ![cluster] = EOF])
    BY <1>6 DEF WriteFatBack, IInv, Underway
  <2>2. Root' = Root /\ Fat' = [Fat EXCEPT ![cluster] = EOF]
    BY <2>1, FatWriteKeepsKinds DEF IInv, FatNeverMissed
  <2>3. /\ Fat'[cluster] = EOF /\ EOF \notin Cluster /\ FREE \notin Cluster
        /\ \A c \in Place : c # cluster => Fat'[c] = Fat[c]
    BY <2>1, <2>2, FatWithEnd, Places DEF IInv, Kinds
  <2>4. Behind' = Behind
    BY <2>1, <2>3 DEF Behind, Place
  <2>5. Untouched
    BY <2>1, WriteToSector, ClusterSectors, Places DEF IInv, Kinds
  <2>6. QED
    BY <1>5, <2>2, <2>4, <2>5
<1>7. CASE WriteData
  <2>1. /\ pc = "write_data" /\ cluster # root_dir_cluster
        /\ WriteSector(cluster_to_sector(cluster), Fill(Blank, 0, op.data))
    BY <1>7 DEF WriteData, IInv, Underway, Allocating
  <2>2. cluster \in Cluster /\ own[cluster] = NoOne
    BY <1>2, <2>1 DEF Allocating
  <2>3. cluster_to_sector(cluster) = cluster /\ cluster \in Sector
    BY <2>1, <2>2, ClusterSectors
  <2>4. Untouched
    BY <1>3, <2>1, <2>2, <2>3, WriteToSector, ClusterSectors DEF IInv, Kinds
  <2>5. Fat' = Fat /\ Root' = Root
    BY <1>7, WriteDataKeepsIInv
  <2>6. QED
    BY <1>5, <2>4, <2>5 DEF Behind
<1>8. CASE AppendDataBack
  <2>1. Fat' = Fat /\ Root' = Root
    BY <1>8, AppendDataBackKeepsIInv
  <2>2. \A c \in Cluster \ {root_dir_cluster} : \A p \in 1 .. SECTOR :
            (own[c] = i /\ (Fat[c] \notin Cluster => p <= Root[i].size % SECTOR)) =>
                disk'[c][p] = disk[c][p]
    BY <1>2, <1>3, <1>8, AppendKeepsBytes
  <2>3. Behind' = Behind
    BY <2>1 DEF Behind
  <2>4. QED
    BY <1>2, <1>3, <2>1, <2>2, <2>3, KeepsFile
<1>9. CASE WriteRootBack \/ AppendRootBack
  <2>1. /\ Fat' = Fat /\ (Root' = disk_buffer \/ Root' = Root)
        /\ WriteSector(root_sector, disk_buffer)
        /\ pc \in {"write_root_back", "append_root_back"}
    BY <1>9, RootBackKeepsIInv DEF WriteRootBack, AppendRootBack
  <2>2. Untouched
    BY <2>1, WriteToSector, ClusterSectors, Places DEF IInv, Kinds
  <2>3. Behind' = Behind
    BY <2>1 DEF Behind
  <2>4. /\ Root'[i].name = Root[i].name /\ Root'[i].cluster = Root[i].cluster
        /\ Root'[i].size \in Nat /\ Root[i].size <= Root'[i].size
    <3>1. CASE Root' = Root
      BY <1>3, <3>1
    <3>2. CASE Root' = disk_buffer /\ pc = "write_root_back"
      <4>1. Root'[i] = Root[i]
        BY <1>3, <3>2, EntryToWrite
      <4>2. QED
        BY <1>3, <4>1
    <3>3. CASE Root' = disk_buffer /\ pc = "append_root_back"
      <4>1. PICK n \in Nat : n >= Root[entry].size /\ disk_buffer = WithSize(Root, entry, n)
        BY <3>3 DEF Extending
      <4>2. entry \in Entry
        BY DEF IInv, Counters
      <4>3. Root'[i].size \in Nat /\ Root'[i].size >= Root[i].size
        BY <1>3, <3>3, <4>1, <4>2, EntryWithSize
      <4>4. Root'[i].name = Root[i].name /\ Root'[i].cluster = Root[i].cluster
        BY <1>3, <3>3, SizeToWrite
      <4>5. QED
        BY <1>3, <4>3, <4>4
    <3>4. QED
      BY <2>1, <3>1, <3>2, <3>3
  <2> HIDE DEF Untouched
  <2>5. QED
    BY <1>2, <1>4, <2>2, <2>3, <2>4, KeepsFile
<1>10. CASE ~(WriteFatBack \/ WriteRootBack \/ WriteData \/ AppendDataBack \/ AppendRootBack)
  <2>1. UNCHANGED disk
    BY <1>10 DEF Next, Step, WriteStep, AppendStep, ReadStep, CallWrite, CallAppend, CallRead, Call,
                 GetDirList, ReadRoot, ReadData, Reboot, ReadFails,
                 WriteReadFat, WriteReadRoot, AppendReadRoot, AppendReadFat, AppendFollow,
                 AppendLastFound, AppendReadData, AppendReadRootAgain
  <2>2. Root' = Root /\ Behind' = Behind /\ Untouched
    BY <2>1 DEF Root, Fat, Behind
  <2>3. QED
    BY <1>5, <2>2
<1>11. QED
  BY <1>6, <1>7, <1>8, <1>9, <1>10

\* A file that ends within its last sector keeps its entry and every byte, through all
\* operations, failed transfers and power failures, while no write of the FAT has failed.
THEOREM FilesKeepTheirBytes == Spec => FilesOnlyGrow
<1>1. IInv /\ Owning /\ Extending /\ [Next]_vars =>
        [ FatNeverMissed' => \A i \in Used : EndsInLastSector(i) => Keeps(i) ]_vars
  BY StepKeepsFile
<1>2. [ FatNeverMissed' => \A i \in Used : EndsInLastSector(i) => Keeps(i) ]_vars =>
        [ FatNeverMissed' =>
            \A i \in Used : EndsInLastSector(i) =>
                /\ Root'[i].name = Root[i].name /\ Root'[i].cluster = Root[i].cluster
                /\ IsPrefixOf(ContentsOf(i), ContentsOf(i)') ]_vars
  BY DEF Keeps
<1>3. QED
  BY <1>1, <1>2, InitOwning, StepOwning, InitExtending, StepExtending, DiskInvariant, PTL
     DEF Spec, FilesOnlyGrow

(***************************************************************************)
(* A text goes in whole.  The walk of an append stays on the chain of its  *)
(* file and ends at the last cluster; the text is behind the offset there  *)
(* before the entry grows, by as much as was copied.                       *)
(***************************************************************************)
Ending == {"append_root_again", "append_root_back"}

\* The text is in the last sector, behind the offset.
TextBehindOffset ==
    \A p \in 1 .. SECTOR : (p > offset /\ p - offset <= Len(op.data)) =>
        disk[cluster_to_sector(cluster)][p] = op.data[p - offset]

Appending ==
    /\ pc \in {"append_root"} \cup Following \cup Ending => op.kind = "append"
    /\ pc \in Following \cup Ending =>
            \A i \in Entry : i = entry =>
                /\ Root[i].name = op.name
                /\ EndsInLastSector(i) => cluster \in ClustersOf(i)
    /\ pc \in Ending => Fat[cluster] \notin Cluster
    /\ pc \in Ending /\ missed \subseteq {root_sector} => TextBehindOffset
    /\ pc = "append_root_back" =>
            disk_buffer = WithSize(Root, entry, Root[entry].size + Copied)

LEMMA InitAppending == Init => Appending
BY DEF Init, Appending, Following, Ending

LEMMA SameFile ==
    ASSUME Fat' = Fat, NEW i, Root'[i] = Root[i]
    PROVE  /\ Nth(i)' = Nth(i) /\ ClustersOf(i)' = ClustersOf(i)
           /\ EndsInLastSector(i)' = EndsInLastSector(i)
<1>1. Behind' = Behind
  BY DEF Behind
<1>2. Nth(i) = CHOOSE x : IsChain(x, FAT_ENTRIES, Root[i].cluster, Behind)
  BY DEF Nth, IsChain
<1>3. Nth(i)' = CHOOSE x : IsChain(x, FAT_ENTRIES, Root'[i].cluster, Behind')
  BY DEF Nth, IsChain
<1>4. Nth(i)' = Nth(i)
  BY <1>1, <1>2, <1>3
<1>5. ClustersOf(i)' = ClustersOf(i)
  BY <1>4 DEF ClustersOf
<1>6. EndsInLastSector(i)' = EndsInLastSector(i)
  BY <1>4, <1>5 DEF EndsInLastSector
<1>7. QED
  BY <1>4, <1>5, <1>6

\* The chain of a file that ends within its last sector is no longer than its clusters.
LEMMA NothingBehind ==
    ASSUME Kinds, NEW i \in Entry, EndsInLastSector(i),
           NEW k \in 1 .. FAT_ENTRIES, Nth(i)[k] \in Cluster
    PROVE  k <= Cardinality(ClustersOf(i))
<1> DEFINE n == Cardinality(ClustersOf(i))
<1>1. n \in 1 .. FAT_ENTRIES /\ Fat[Nth(i)[n]] = EOF
  BY ChainOfFile DEF EndsInLastSector
<1> HIDE DEF n
<1>2. SUFFICES ASSUME k > n
               PROVE  FALSE
  BY <1>1 DEF n
<1>3. n + 1 \in 1 .. FAT_ENTRIES /\ n + 1 # 1 /\ (n + 1) - 1 = n /\ k \in n + 1 .. FAT_ENTRIES
  BY <1>1, <1>2, SizeAssumption
<1>4. Nth(i)[n + 1] = Behind[Nth(i)[n]] /\ Nth(i)[n] \in Place
  BY <1>1, <1>3, NthValue, ChainInPlace
<1>5. Behind[Nth(i)[n]] \notin Cluster
  BY <1>1, <1>4, SizeAssumption DEF Behind, Place, EOF, Cluster
<1>6. QED
  BY <1>3, <1>4, <1>5, ChainStaysOut

LEMMA NextInChain ==
    ASSUME Kinds, NEW i \in Entry, EndsInLastSector(i),
           NEW c \in ClustersOf(i), Fat[c] \in Cluster
    PROVE  Fat[c] \in ClustersOf(i)
<1> DEFINE n == Cardinality(ClustersOf(i))
<1>1. PICK k \in 1 .. FAT_ENTRIES : c = Nth(i)[k] /\ c \in Cluster
  BY DEF ClustersOf
<1>2. k <= n /\ n \in 1 .. FAT_ENTRIES /\ Fat[Nth(i)[n]] = EOF
  BY <1>1, NothingBehind, ChainOfFile DEF EndsInLastSector
<1>3. k # n
  BY <1>1, <1>2, SizeAssumption DEF EOF, Cluster
<1> HIDE DEF n
<1>4. k + 1 \in 1 .. FAT_ENTRIES /\ k + 1 # 1 /\ (k + 1) - 1 = k
  BY <1>1, <1>2, <1>3, SizeAssumption
<1>5. Nth(i)[k + 1] = Behind[c]
  BY <1>1, <1>4, NthValue
<1>6. Behind[c] = Fat[c]
  BY <1>1, SizeAssumption DEF Behind, Cluster
<1>7. QED
  BY <1>4, <1>5, <1>6 DEF ClustersOf

LEMMA LastOfChain ==
    ASSUME Kinds, NEW i \in Entry, EndsInLastSector(i),
           NEW c \in ClustersOf(i), Fat[c] \notin Cluster
    PROVE  c = Nth(i)[Cardinality(ClustersOf(i))]
<1> DEFINE n == Cardinality(ClustersOf(i))
<1>1. PICK k \in 1 .. FAT_ENTRIES : c = Nth(i)[k] /\ c \in Cluster
  BY DEF ClustersOf
<1>2. /\ n \in 1 .. FAT_ENTRIES
      /\ \A x \in 1 .. n : Fat[Nth(i)[x]] \notin Cluster => x = n
  BY ChainOfFile
<1>3. k <= n
  BY <1>1, NothingBehind
<1> HIDE DEF n
<1>4. k \in 1 .. n
  BY <1>1, <1>2, <1>3
<1>5. k = n
  BY <1>1, <1>2, <1>4
<1>6. QED
  BY <1>1, <1>5 DEF n

LEMMA ReadRootAppends ==
    ASSUME IInv, Appending, AppendReadRoot
    PROVE  Appending'
<1>1. UNCHANGED <<disk, op>> /\ pc = "append_root" /\ op.kind = "append" /\ op.name \in Name
  BY DEF AppendReadRoot, Appending, IInv, Asked
<1>2. Fat' = Fat /\ Root' = Root
  BY <1>1 DEF Fat, Root
<1>3. CASE Matches(Root, op.name) = {}
  <2>1. pc' = "write_fat"
    BY <1>3 DEF AppendReadRoot, Root
  <2>2. QED
    BY <2>1 DEF Appending, Following, Ending
<1>4. CASE Matches(Root, op.name) # {}
  <2>1. /\ entry' = FirstMatch(Root, op.name) /\ cluster' = Root[entry'].cluster
        /\ pc' = "append_fat"
    BY <1>4 DEF AppendReadRoot, Root
  <2>2. entry' \in Entry /\ Root[entry'].name = op.name
    BY <1>1, <1>4, <2>1, FirstMatchMatches
  <2>3. ASSUME NEW i \in Entry, i = entry', EndsInLastSector(i)'
        PROVE  cluster' \in ClustersOf(i)'
    <3>1. EndsInLastSector(i) /\ ClustersOf(i)' = ClustersOf(i)
      BY <1>2, <2>3, SameFile
    <3>2. cluster' \in Cluster /\ cluster' = Nth(i)[1] /\ 1 \in 1 .. FAT_ENTRIES
      BY <2>1, <2>3, <3>1, NthValue, SizeAssumption DEF EndsInLastSector
    <3>3. QED
      BY <3>1, <3>2 DEF ClustersOf
  <2>4. QED
    BY <1>1, <1>2, <2>1, <2>2, <2>3 DEF Appending, Following, Ending
<1>5. QED
  BY <1>3, <1>4

LEMMA WalkAppends ==
    ASSUME IInv, Appending,
           AppendReadFat \/ AppendFollow \/ AppendLastFound \/ AppendReadData
    PROVE  Appending'
<1>1. UNCHANGED <<disk, op, entry>> /\ pc \in Following
  BY DEF AppendReadFat, AppendFollow, AppendLastFound, AppendReadData, buffers, locals, Following
<1>2. Fat' = Fat /\ Root' = Root
  BY <1>1 DEF Fat, Root
<1>3. ASSUME NEW i \in Entry
      PROVE  ClustersOf(i)' = ClustersOf(i) /\ EndsInLastSector(i)' = EndsInLastSector(i)
  BY <1>2, SameFile
<1>4. CASE AppendReadFat \/ AppendLastFound \/ AppendReadData
  <2>1. cluster' = cluster /\ pc' \in Following
    BY <1>4 DEF AppendReadFat, AppendLastFound, AppendReadData, locals, Following
  <2>2. QED
    BY <1>1, <1>2, <1>3, <2>1 DEF Appending, Following, Ending
<1>5. CASE AppendFollow
  <2>1. /\ pc = "append_follow" /\ HasNext /\ cluster' = disk_buffer[cluster]
        /\ disk_buffer = Fat /\ pc' \in {"append_follow", "idle"}
    BY <1>5 DEF AppendFollow, IInv, Underway, Return
  <2>2. cluster' = Fat[cluster] /\ cluster' \in Cluster
    BY <2>1, FatLink DEF IInv, Kinds, Counters, HasNext
  <2>3. ASSUME NEW i \in Entry, i = entry, EndsInLastSector(i)
        PROVE  cluster' \in ClustersOf(i)
    <3>1. cluster \in ClustersOf(i)
      BY <1>1, <2>3 DEF Appending
    <3>2. Fat[cluster] \in Cluster /\ Kinds
      BY <2>2 DEF IInv
    <3>3. Fat[cluster] \in ClustersOf(i)
      BY <2>3, <3>1, <3>2, NextInChain
    <3>4. QED
      BY <2>2, <3>3
  <2>4. QED
    BY <1>1, <1>2, <1>3, <2>1, <2>3 DEF Appending, Following, Ending
<1>6. QED
  BY <1>4, <1>5

LEMMA DataBackAppends ==
    ASSUME IInv, Extending, Appending, AppendDataBack
    PROVE  Appending'
<1> DEFINE at == cluster_to_sector(cluster)
<1>1. /\ pc = "append_data_back" /\ pc' = "append_root_again" /\ UNCHANGED <<op, locals>>
      /\ WriteSector(at, write_buffer)
  BY DEF AppendDataBack
<1>2. /\ Fat' = Fat /\ Root' = Root
  BY AppendDataBackKeepsIInv
<1>3. ASSUME NEW i \in Entry
      PROVE  ClustersOf(i)' = ClustersOf(i) /\ EndsInLastSector(i)' = EndsInLastSector(i)
  BY <1>2, SameFile
<1>4. Fat[cluster] \notin Cluster /\ write_buffer = Fill(disk[at], offset, op.data)
  BY <1>1 DEF Extending
<1>5. cluster \in Place /\ cluster # root_dir_cluster /\ offset \in Nat
  BY <1>1, SizeAssumption DEF IInv, Underway, Counters, Following
<1>6. at \in Sector /\ at # root_sector
  BY <1>5, Places
<1>7. ASSUME missed' \subseteq {root_sector}
      PROVE  TextBehindOffset'
  <2>1. disk'[at] = write_buffer
    <3> HIDE DEF at
    <3>1. disk'[at] = write_buffer \/ missed' = missed \cup {at}
      BY <1>1, <1>6, WriteToSector DEF IInv, Kinds
    <3>2. QED
      BY <1>6, <1>7, <3>1
  <2>2. ASSUME NEW p \in 1 .. SECTOR, p > offset, p - offset <= Len(op.data)
        PROVE  disk'[at][p] = op.data[p - offset]
    BY <1>4, <2>1, <2>2 DEF Fill
  <2>3. QED
    BY <1>1, <2>2 DEF TextBehindOffset, locals
<1> HIDE DEF at
<1>8. QED
  BY <1>1, <1>2, <1>3, <1>4, <1>7 DEF Appending, Following, Ending, locals

LEMMA ReadAgainAppends ==
    ASSUME IInv, Appending, AppendReadRootAgain
    PROVE  Appending'
<1>1. /\ UNCHANGED <<disk, op, locals, missed>>
      /\ pc = "append_root_again" /\ pc' = "append_root_back"
      /\ disk_buffer' = [Root EXCEPT ![entry].size = @ + Copied]
  BY DEF AppendReadRootAgain, Root
<1>2. Fat' = Fat /\ Root' = Root
  BY <1>1 DEF Fat, Root
<1>3. ASSUME NEW i \in Entry
      PROVE  ClustersOf(i)' = ClustersOf(i) /\ EndsInLastSector(i)' = EndsInLastSector(i)
  BY <1>2, SameFile
<1>4. Copied' = Copied
  BY <1>1 DEF Copied, locals
<1>5. disk_buffer' = WithSize(Root, entry, Root[entry].size + Copied)
  BY <1>1 DEF IInv, Kinds, Counters, Directory, WithSize
<1>6. TextBehindOffset => TextBehindOffset'
  BY <1>1 DEF TextBehindOffset, locals
<1>7. QED
  BY <1>1, <1>2, <1>3, <1>4, <1>5, <1>6 DEF Appending, Following, Ending, locals

LEMMA StepAppending == IInv /\ Extending /\ Appending /\ [Next]_vars => Appending'
<1> SUFFICES ASSUME IInv, Extending, Appending, [Next]_vars
             PROVE  Appending'
  OBVIOUS
<1>1. CASE AppendReadRoot
  BY <1>1, ReadRootAppends
<1>2. CASE AppendReadFat \/ AppendFollow \/ AppendLastFound \/ AppendReadData
  BY <1>2, WalkAppends
<1>3. CASE AppendDataBack
  BY <1>3, DataBackAppends
<1>4. CASE AppendReadRootAgain
  BY <1>4, ReadAgainAppends
<1>5. CASE UNCHANGED vars
  <2>1. Fat' = Fat /\ Root' = Root /\ Copied' = Copied
    BY <1>5 DEF vars, Fat, Root, locals, Copied
  <2>2. ASSUME NEW i \in Entry
        PROVE  ClustersOf(i)' = ClustersOf(i) /\ EndsInLastSector(i)' = EndsInLastSector(i)
    BY <2>1, SameFile
  <2>3. TextBehindOffset' = TextBehindOffset
    BY <1>5 DEF TextBehindOffset, vars, locals
  <2>4. QED
    BY <1>5, <2>1, <2>2, <2>3 DEF Appending, vars, locals, buffers
<1>6. CASE CallAppend
  <2>1. pc' = "append_root" /\ op'.kind = "append"
    BY <1>6 DEF CallAppend, Call
  <2>2. QED
    BY <2>1 DEF Appending, Following, Ending
<1>7. CASE CallWrite \/ CallRead \/ GetDirList \/ Reboot \/ WriteStep \/ AppendRootBack
           \/ ReadStep \/ \E at \in Reading : ReadFails(at)
  <2>1. pc' \notin {"append_root"} \cup Following \cup Ending
    BY <1>7 DEF CallWrite, CallRead, Call, GetDirList, Reboot, WriteStep, WriteReadFat,
                WriteFatBack, WriteData, WriteReadRoot, WriteRootBack, AppendRootBack,
                ReadStep, ReadRoot, ReadData, ReadFails, Return, Following, Ending
  <2>2. QED
    BY <2>1 DEF Appending, Ending
<1>8. QED
  BY <1>1, <1>2, <1>3, <1>4, <1>5, <1>6, <1>7 DEF Next, Step, AppendStep

\* Where the bytes go that an append puts behind the last one of such a file.
HasRoom(S, n, size, j) ==
    size < n * S /\ size >= (n - 1) * S /\ j <= S - (size % S)

LEMMA PlacesBehind ==
    ASSUME NEW S \in Nat \ {0}, NEW n \in Nat \ {0}, NEW size \in Nat,
           NEW j \in Nat \ {0}, HasRoom(S, n, size, j)
    PROVE  1 + ((size + j - 1) \div S) = n /\ 1 + ((size + j - 1) % S) = (size % S) + j
<1> DEFINE p == size \div S
           t == size % S
           q == (size + j - 1) \div S
           r == (size + j - 1) % S
<1>1. p \in Nat /\ t \in 0 .. S - 1 /\ size = S * p + t
  OBVIOUS
<1>2. q \in Nat /\ r \in 0 .. S - 1 /\ size + j - 1 = S * q + r
  <2>1. size + j - 1 \in Nat
    OBVIOUS
  <2>2. QED
    BY <2>1
<1>3. j <= S - t /\ size < n * S /\ size >= (n - 1) * S
  BY DEF HasRoom
<1> HIDE DEF p, t, q, r
<1>4. S * p \in Nat /\ S * q \in Nat
  BY <1>1, <1>2
<1>5. S * p + (t + j - 1) = S * q + r /\ t + j - 1 \in 0 .. S - 1
  BY <1>1, <1>2, <1>3, <1>4
<1>6. q = p
  <2>1. ASSUME q >= p + 1
        PROVE  FALSE
    <3>1. S * q >= S * p + S
      BY <1>1, <1>2, <2>1
    <3>2. QED
      BY <1>2, <1>4, <1>5, <3>1
  <2>2. ASSUME p >= q + 1
        PROVE  FALSE
    <3>1. S * p >= S * q + S
      BY <1>1, <1>2, <2>2
    <3>2. QED
      BY <1>2, <1>4, <1>5, <3>1
  <2>3. QED
    BY <1>1, <1>2, <2>1, <2>2
<1>7. r = t + j - 1
  BY <1>1, <1>2, <1>4, <1>5, <1>6
<1>8. p = n - 1
  <2>1. ASSUME p >= n
        PROVE  FALSE
    <3>1. S * p >= S * n /\ n * S = S * n /\ S * n \in Nat
      BY <1>1, <2>1
    <3>2. QED
      BY <1>1, <1>3, <1>4, <3>1
  <2>2. ASSUME p + 1 <= n - 1
        PROVE  FALSE
    <3>1. /\ S * (n - 1) >= S * p + S /\ (n - 1) * S = S * (n - 1)
          /\ S * (n - 1) \in Nat
      BY <1>1, <2>2
    <3>2. QED
      BY <1>1, <1>3, <1>4, <3>1
  <2>3. QED
    BY <1>1, <2>1, <2>2
<1>9. 1 + q = n /\ 1 + r = t + j
  BY <1>1, <1>6, <1>7, <1>8
<1>10. QED
  BY <1>9 DEF q, r, t

LEMMA SectorBehind ==
    ASSUME NEW S \in Nat \ {0}, NEW n \in Nat \ {0}, NEW size \in Nat,
           NEW j \in Nat \ {0}, HasRoom(S, n, size, j)
    PROVE  1 + ((size + j - 1) \div S) = n
BY PlacesBehind

LEMMA OffsetBehind ==
    ASSUME NEW S \in Nat \ {0}, NEW n \in Nat \ {0}, NEW size \in Nat,
           NEW j \in Nat \ {0}, HasRoom(S, n, size, j)
    PROVE  1 + ((size + j - 1) % S) = (size % S) + j
BY PlacesBehind

\* The bytes of such a file are bytes.
LEMMA ContentsAreBytes ==
    ASSUME IInv, NEW own \in [Cluster -> Entry \cup {NoOne}], OwnedBy(Fat, Root, own),
           NEW i \in Used, EndsInLastSector(i)
    PROVE  /\ ContentsOf(i) \in Seq(Byte) /\ Len(ContentsOf(i)) = Root[i].size
           /\ \A b \in 1 .. Root[i].size : ContentsOf(i)[b] = disk[SectorOf(i, b)][PlaceIn(b)]
<1>1. Root[i].size \in Nat
  BY EntryFields DEF Used, IInv, Kinds
<1>2. ContentsOf(i) = [b \in 1 .. Root[i].size |-> disk[SectorOf(i, b)][PlaceIn(b)]]
  BY DEF ContentsOf, SectorOf, PlaceIn
<1>3. ASSUME NEW b \in 1 .. Root[i].size
      PROVE  disk[SectorOf(i, b)][PlaceIn(b)] \in Byte
  <2>1. PICK c \in Cluster :
              /\ SectorOf(i, b) = c /\ c # root_dir_cluster /\ PlaceIn(b) \in 1 .. SECTOR
    BY BytesOfFile
  <2>2. disk[c] \in Contents
    BY <2>1, ClusterSectors DEF IInv, Kinds, DataSector
  <2>3. QED
    BY <2>1, <2>2 DEF Contents
<1>4. ContentsOf(i) \in [1 .. Root[i].size -> Byte]
  BY <1>2, <1>3
<1>5. QED
  BY <1>1, <1>2, <1>4

LEMMA Concatenation ==
    ASSUME NEW B, NEW s \in Seq(B), NEW u \in Seq(B)
    PROVE  /\ s \o u \in Seq(B) /\ Len(s \o u) = Len(s) + Len(u)
           /\ \A b \in 1 .. Len(s) : (s \o u)[b] = s[b]
           /\ \A b \in 1 .. Len(u) : (s \o u)[Len(s) + b] = u[b]
OBVIOUS

\* The first k elements of t behind all of s, element by element.
IsJoined(r, s, t, k) ==
    /\ r = [b \in 1 .. Len(s) + k |-> r[b]]
    /\ \A b \in 1 .. Len(s) : r[b] = s[b]
    /\ \A j \in 1 .. k : r[Len(s) + j] = t[j]

LEMMA JoinedWith ==
    ASSUME NEW B, NEW s \in Seq(B), NEW t \in Seq(B), NEW k \in 0 .. Len(t),
           NEW r, IsJoined(r, s, t, k)
    PROVE  r = s \o SubSeq(t, 1, k)
<1> DEFINE u == SubSeq(t, 1, k)
           x == s \o u
           n == Len(s)
<1>0. /\ r = [b \in 1 .. n + k |-> r[b]]
      /\ \A b \in 1 .. n : r[b] = s[b]
      /\ \A j \in 1 .. k : r[n + j] = t[j]
  BY DEF IsJoined
<1>1. u \in Seq(B) /\ Len(u) = k /\ \A j \in 1 .. k : u[j] = t[j]
  OBVIOUS
<1>2. n \in Nat /\ k \in Nat
  OBVIOUS
<1> HIDE DEF u
<1>3. x \in Seq(B) /\ Len(x) = n + k
  <2>1. x \in Seq(B) /\ Len(x) = Len(s) + Len(u)
    BY <1>1, Concatenation
  <2>2. QED
    BY <1>1, <2>1
<1>4. ASSUME NEW b \in 1 .. n + k
      PROVE  x[b] = r[b]
  <2>1. CASE b <= n
    <3>1. b \in 1 .. n
      BY <1>2, <2>1
    <3>2. x[b] = s[b]
      BY <1>1, <3>1, Concatenation
    <3>3. QED
      BY <1>0, <3>1, <3>2
  <2>2. CASE ~(b <= n)
    <3>1. b - n \in 1 .. k /\ n + (b - n) = b
      BY <1>2, <2>2
    <3>2. x[n + (b - n)] = u[b - n]
      BY <1>1, <3>1, Concatenation
    <3>3. r[n + (b - n)] = t[b - n]
      BY <1>0, <3>1
    <3>4. QED
      BY <1>1, <3>1, <3>2, <3>3
  <2>3. QED
    BY <2>1, <2>2
<1> HIDE DEF x
<1>5. x = [b \in 1 .. n + k |-> x[b]]
  BY <1>3
<1>6. QED
  BY <1>0, <1>4, <1>5 DEF u, x

LEMMA GrowsByText ==
    ASSUME IInv, Extending, Appending, AppendRootBack, Root' = disk_buffer,
           missed \subseteq {root_sector},
           NEW own \in [Cluster -> Entry \cup {NoOne}], OwnedBy(Fat, Root, own),
           NEW i \in Used, i = entry, EndsInLastSector(i)
    PROVE  Grows(i)
<1> DEFINE n == Cardinality(ClustersOf(i))
           size == Root[i].size
           k == Copied
           at == cluster_to_sector(cluster)
<1>1. /\ pc = "append_root_back" /\ WriteSector(root_sector, disk_buffer) /\ Fat' = Fat
      /\ Kinds /\ i \in Entry /\ op.data \in Seq(Byte) /\ size \in Nat
      /\ offset = size % SECTOR /\ offset \in 0 .. SECTOR - 1
      /\ ~IsFree(Root[i])
  BY RootBackKeepsIInv, EntryFields
     DEF AppendRootBack, IInv, Asked, Kinds, Counters, Used, Extending, Ending
<1>2. /\ n \in 1 .. FAT_ENTRIES /\ size < n * SECTOR /\ size >= (n - 1) * SECTOR
      /\ n \in Nat \ {0}
  BY <1>1, ChainOfFile
<1>3. /\ cluster \in ClustersOf(i) /\ Fat[cluster] \notin Cluster /\ TextBehindOffset
      /\ disk_buffer = WithSize(Root, i, size + k)
  BY <1>1 DEF Appending, Ending
<1>4. cluster = Nth(i)[n]
  BY <1>1, <1>3, LastOfChain
<1>5. k \in 0 .. Len(op.data) /\ k \in Nat /\ k <= SECTOR - offset
  BY <1>1, SizeAssumption DEF Copied
<1> HIDE DEF k, n, size
<1>6. Root'[i].size = size + k /\ Root'[i].cluster = Root[i].cluster
  <2>1. size + k \in Nat /\ Root \in Directory
    BY <1>1, <1>5 DEF Kinds
  <2>2. Root'[i].cluster = Root[i].cluster
    BY <1>1, SizeToWrite
  <2>3. Root'[i].size = size + k
    BY <1>1, <1>3, <2>1 DEF WithSize, Directory, DirEntry
  <2>4. QED
    BY <2>2, <2>3
<1>7. Nth(i)' = Nth(i)
  <2>1. Nth(i) = CHOOSE x : IsChain(x, FAT_ENTRIES, Root[i].cluster, Behind)
    BY DEF Nth, IsChain
  <2>2. Nth(i)' = CHOOSE x : IsChain(x, FAT_ENTRIES, Root'[i].cluster, Behind')
    BY DEF Nth, IsChain
  <2>3. Behind' = Behind
    BY <1>1 DEF Behind
  <2>4. QED
    BY <1>6, <2>1, <2>2, <2>3
<1>8. \A s \in Sector : s # root_sector => disk'[s] = disk[s]
  BY <1>1, WriteToSector, Places DEF IInv, Kinds
<1> DEFINE m == size + k
           r == [b \in 1 .. m |-> disk'[SectorOf(i, b)][PlaceIn(b)]]
<1>9. ContentsOf(i)' = r
  BY <1>6, <1>7 DEF ContentsOf, SectorOf, PlaceIn
<1> HIDE DEF m
<1>10. /\ ContentsOf(i) \in Seq(Byte) /\ Len(ContentsOf(i)) = size
       /\ \A b \in 1 .. size : ContentsOf(i)[b] = disk[SectorOf(i, b)][PlaceIn(b)]
  BY ContentsAreBytes DEF size
<1>11. ASSUME NEW b \in 1 .. size
       PROVE  r[b] = ContentsOf(i)[b]
  <2>1. PICK c \in Cluster :
              /\ SectorOf(i, b) = c /\ c # root_dir_cluster
    BY BytesOfFile DEF size
  <2>2. disk'[c] = disk[c]
    BY <1>8, <2>1, ClusterSectors
  <2>3. b \in 1 .. m
    BY <1>1, <1>5 DEF m
  <2>4. QED
    BY <1>10, <2>1, <2>2, <2>3
<1>12. ASSUME NEW j \in 1 .. k
       PROVE  r[size + j] = op.data[j]
  <2>1. /\ j \in Nat \ {0} /\ j <= SECTOR - (size % SECTOR) /\ SECTOR \in Nat \ {0}
        /\ size + j \in 1 .. m /\ j <= Len(op.data)
    <3>1. j \in Nat \ {0} /\ j <= k /\ k <= SECTOR - (size % SECTOR)
      BY <1>1, <1>5
    <3>2. Len(op.data) \in Nat /\ size % SECTOR \in Nat
      BY <1>1, SizeAssumption
    <3>3. QED
      BY <1>1, <1>5, <3>1, <3>2, SizeAssumption DEF m
  <2>2. /\ 1 + (((size + j) - 1) \div SECTOR) = n
        /\ 1 + (((size + j) - 1) % SECTOR) = offset + j
    <3>1. /\ size \in Nat /\ n \in Nat \ {0} /\ offset = size % SECTOR
          /\ HasRoom(SECTOR, n, size, j)
      BY <1>1, <1>2, <2>1 DEF HasRoom
    <3>2. 1 + (((size + j) - 1) \div SECTOR) = n
      BY <2>1, <3>1, SectorBehind
    <3>3. 1 + (((size + j) - 1) % SECTOR) = (size % SECTOR) + j
      BY <2>1, <3>1, OffsetBehind
    <3>4. QED
      BY <3>1, <3>2, <3>3
  <2>3. SectorOf(i, size + j) = at /\ PlaceIn(size + j) = offset + j
    BY <1>4, <2>2 DEF SectorOf, PlaceIn
  <2>4. /\ offset + j \in 1 .. SECTOR /\ offset + j > offset /\ (offset + j) - offset = j
    BY <1>1, <2>1
  <2>5. disk[at][offset + j] = op.data[j]
    BY <1>3, <2>1, <2>4 DEF TextBehindOffset
  <2>6. disk'[at] = disk[at]
    <3>1. cluster \in Place /\ cluster # root_dir_cluster
      BY <1>1, <1>3, NoOneIsNoEntry, ChainHasOneOwner, Places DEF OwnedBy, ClustersOf
    <3>2. at \in Sector /\ at # root_sector
      BY <3>1, Places
    <3>3. QED
      BY <1>8, <3>2
  <2> HIDE DEF at
  <2>7. QED
    BY <2>1, <2>3, <2>5, <2>6
<1>13. r = [b \in 1 .. size + k |-> r[b]]
  BY DEF m
<1> HIDE DEF r
<1>14. r = ContentsOf(i) \o SubSeq(op.data, 1, k)
  <2> DEFINE s == ContentsOf(i)
  <2>1. s \in Seq(Byte) /\ size = Len(s) /\ \A b \in 1 .. size : r[b] = s[b]
    BY <1>10, <1>11
  <2>2. op.data \in Seq(Byte) /\ k \in 0 .. Len(op.data)
    BY <1>1, <1>5
  <2> HIDE DEF s
  <2>3. IsJoined(r, s, op.data, k)
    BY <1>12, <1>13, <2>1 DEF IsJoined
  <2>4. r = s \o SubSeq(op.data, 1, k)
    BY <2>1, <2>2, <2>3, JoinedWith
  <2>5. QED
    BY <2>4 DEF s
<1>15. QED
  BY <1>9, <1>14 DEF Grows, k

\* The directory changes when it is written back, and not otherwise.
LEMMA RootChanges ==
    ASSUME IInv, Next, Root' # Root
    PROVE  (WriteRootBack \/ AppendRootBack) /\ Root' = disk_buffer
<1>1. CASE WriteFatBack
  <2>1. pc = "write_fat_back" /\ cluster \in Cluster /\ cluster # root_dir_cluster
        /\ WriteSector(fat_start_sector, [Fat EXCEPT ![cluster] = EOF])
    BY <1>1 DEF WriteFatBack, IInv, Underway
  <2>2. QED
    BY <2>1, FatWriteKeepsKinds DEF IInv
<1>2. CASE WriteData \/ AppendDataBack
  BY <1>2, WriteDataKeepsIInv, AppendDataBackKeepsIInv
<1>3. CASE WriteRootBack \/ AppendRootBack
  BY <1>3, RootBackKeepsIInv
<1>4. CASE ~(WriteFatBack \/ WriteRootBack \/ WriteData \/ AppendDataBack \/ AppendRootBack)
  <2>1. UNCHANGED disk
    BY <1>4 DEF Next, Step, WriteStep, AppendStep, ReadStep, CallWrite, CallAppend, CallRead,
                Call, GetDirList, ReadRoot, ReadData, Reboot, ReadFails,
                WriteReadFat, WriteReadRoot, AppendReadRoot, AppendReadFat, AppendFollow,
                AppendLastFound, AppendReadData, AppendReadRootAgain
  <2>2. QED
    BY <2>1 DEF Root
<1>5. QED
  BY <1>1, <1>2, <1>3, <1>4

\* The size of a file changes at the end of an append to it, and not otherwise.
LEMMA SizeChanges ==
    ASSUME IInv, Appending, Next, NEW i \in Used, Root'[i].size # Root[i].size
    PROVE  AppendRootBack /\ Root' = disk_buffer /\ i = entry
<1>1. (WriteRootBack \/ AppendRootBack) /\ Root' = disk_buffer
  BY RootChanges
<1>2. i \in Entry /\ ~IsFree(Root[i])
  BY DEF Used
<1>3. ~WriteRootBack
  <2>1. SUFFICES ASSUME WriteRootBack
                 PROVE  Root'[i] = Root[i]
    OBVIOUS
  <2>2. QED
    BY <1>1, <1>2, <2>1, EntryToWrite DEF WriteRootBack
<1>4. disk_buffer = WithSize(Root, entry, Root[entry].size + Copied) /\ Root \in Directory
  BY <1>1, <1>3 DEF AppendRootBack, Appending, IInv, Kinds
<1>5. i = entry
  BY <1>1, <1>2, <1>4 DEF WithSize, Directory
<1>6. QED
  BY <1>1, <1>3, <1>5

LEMMA SameBytes ==
    ASSUME NEW i, Root[i].size \in Nat, Root'[i].size = Root[i].size,
           IsPrefixOf(ContentsOf(i), ContentsOf(i)')
    PROVE  ContentsOf(i)' = ContentsOf(i)
<1> DEFINE n == Root[i].size
           f == ContentsOf(i)
           g == ContentsOf(i)'
<1>1. f = [b \in 1 .. n |-> f[b]]
  BY DEF ContentsOf
<1>2. g = [b \in 1 .. n |-> g[b]]
  BY DEF ContentsOf
<1>3. n \in Nat
  OBVIOUS
<1>4. IsPrefixOf(f, g)
  OBVIOUS
<1> HIDE DEF n, f, g
<1>5. Len(f) = n
  BY <1>1, <1>3, LengthOf
<1>6. \A b \in 1 .. n : g[b] = f[b]
  BY <1>4, <1>5 DEF IsPrefixOf
<1>7. f = g
  BY <1>1, <1>2, <1>6
<1>8. QED
  BY <1>7 DEF f, g

LEMMA StepGoesInWhole ==
    ASSUME IInv, Owning, Extending, Appending, Next, missed' \subseteq {root_sector},
           NEW i \in Used, EndsInLastSector(i)
    PROVE  \/ ContentsOf(i)' = ContentsOf(i)
           \/ op.kind = "append" /\ Root[i].name = op.name /\ Grows(i)
<1>1. missed \subseteq {root_sector} /\ fat_start_sector # root_sector
  BY MissedGrows, Places
<1>2. FatNeverMissed /\ FatNeverMissed'
  BY <1>1 DEF FatNeverMissed
<1>3. i \in Entry /\ Root[i].size \in Nat
  BY EntryFields DEF Used, IInv, Kinds
<1>4. CASE Root'[i].size = Root[i].size
  <2>1. IsPrefixOf(ContentsOf(i), ContentsOf(i)')
    BY <1>2, StepKeepsFile DEF Keeps
  <2>2. QED
    BY <1>3, <1>4, <2>1, SameBytes
<1>5. CASE Root'[i].size # Root[i].size
  <2>1. AppendRootBack /\ Root' = disk_buffer /\ i = entry
    BY <1>5, SizeChanges
  <2>2. PICK own \in [Cluster -> Entry \cup {NoOne}] : OwnedBy(Fat, Root, own)
    BY <1>2 DEF Owning
  <2>3. Grows(i)
    BY <1>1, <2>1, <2>2, GrowsByText
  <2>4. op.kind = "append" /\ Root[i].name = op.name
    BY <1>3, <2>1 DEF AppendRootBack, Appending, Ending
  <2>5. QED
    BY <2>3, <2>4
<1>6. QED
  BY <1>4, <1>5

\* Whatever fails and wherever power is lost, a new file appears with its text, and an
\* append changes a file by the whole of what it copies, unless a write of the data or of
\* the FAT failed unnoticed.
THEOREM TextsAreWhole == Spec => TextsGoInWhole
<1> DEFINE Appears(i) == Root'[i].name = op.name /\ ContentsOf(i)' = op.data
           Stays(i) == \/ ContentsOf(i)' = ContentsOf(i)
                       \/ op.kind = "append" /\ Root[i].name = op.name /\ Grows(i)
<1>1. IInv /\ Owning /\ Laid /\ Extending /\ Appending /\ [Next]_vars =>
        [ missed' \subseteq {root_sector} =>
              /\ \A i \in Entry : (i \notin Used /\ i \in Used') => Appears(i)
              /\ \A i \in Used : EndsInLastSector(i) => Stays(i) ]_vars
  <2>1. SUFFICES ASSUME IInv, Owning, Laid, Extending, Appending, Next,
                        missed' \subseteq {root_sector}
                 PROVE  /\ \A i \in Entry : (i \notin Used /\ i \in Used') => Appears(i)
                        /\ \A i \in Used : EndsInLastSector(i) => Stays(i)
    OBVIOUS
  <2>2. ASSUME NEW i \in Entry, i \notin Used, i \in Used'
        PROVE  Appears(i)
    <3>1. (WriteRootBack \/ AppendRootBack) /\ Root' = disk_buffer
      <4>1. Root' # Root
        BY <2>2 DEF Used
      <4>2. QED
        BY <2>1, <4>1, RootChanges
    <3>2. ~AppendRootBack
      <4>1. SUFFICES ASSUME AppendRootBack
                     PROVE  \A j \in Entry : Root'[j].name = Root[j].name
        BY <2>2 DEF Used, IsFree
      <4>2. QED
        BY <2>1, <3>1, <4>1, SizeToWrite DEF AppendRootBack
    <3>3. missed \subseteq {root_sector}
      BY <2>1, MissedGrows
    <3>4. QED
      BY <2>1, <2>2, <3>1, <3>2, <3>3, NewFileHasItsText
  <2>3. ASSUME NEW i \in Used, EndsInLastSector(i)
        PROVE  Stays(i)
    BY <2>1, <2>3, StepGoesInWhole
  <2>4. QED
    BY <2>2, <2>3
<1>2. QED
  BY <1>1, InitOwning, StepOwning, InitLaid, StepLaid, InitExtending, StepExtending,
     InitAppending, StepAppending, DiskInvariant, PTL DEF Spec, TextsGoInWhole

\* An operation that runs to its end without a failed write has put its text on the disk.
THEOREM DoneIsOnDisk == Spec => DoneMeansOnDisk
<1> DEFINE Made == \E i \in Used' \ Used : Root'[i].name = op.name /\ ContentsOf(i)' = op.data
           Grown == \E i \in Used : /\ op.kind = "append" /\ i = entry
                                    /\ Root[i].name = op.name
                                    /\ EndsInLastSector(i) => Grows(i)
<1>1. IInv /\ Owning /\ Laid /\ Extending /\ Appending /\ [Next]_vars =>
        [ (result # "done" /\ result' = "done" /\ missed' = {}) => Made \/ Grown ]_vars
  <2>1. SUFFICES ASSUME IInv, Owning, Laid, Extending, Appending, Next,
                        result # "done", result' = "done", missed' = {}
                 PROVE  Made \/ Grown
    OBVIOUS
  <2>2. WriteRootBack \/ AppendRootBack
    BY <2>1 DEF Next, Step, WriteStep, AppendStep, ReadStep, CallWrite, CallAppend, CallRead,
                Call, GetDirList, ReadRoot, ReadData, Reboot, ReadFails, Return,
                WriteReadFat, WriteFatBack, WriteData, WriteReadRoot,
                AppendReadRoot, AppendReadFat, AppendFollow, AppendLastFound,
                AppendReadData, AppendDataBack, AppendReadRootAgain
  <2>3. Root' = disk_buffer /\ missed = {}
    <3>1. WriteSector(root_sector, disk_buffer) /\ root_sector \in Sector
      BY <2>2, Places DEF WriteRootBack, AppendRootBack
    <3>2. disk'[root_sector] = disk_buffer /\ missed' = missed
      BY <2>1, <3>1, WriteToSector DEF IInv, Kinds
    <3>3. QED
      BY <2>1, <3>2 DEF Root
  <2>4. CASE WriteRootBack
    <3>1. PICK e \in Entry : IsFree(Root[e]) /\ ~IsFree(disk_buffer[e])
      BY <2>1, <2>4, EntryToWrite DEF WriteRootBack
    <3>2. e \notin Used /\ e \in Used'
      BY <2>3, <3>1 DEF Used
    <3>3. Root'[e].name = op.name /\ ContentsOf(e)' = op.data
      BY <2>1, <2>3, <2>4, <3>2, NewFileHasItsText
    <3>4. QED
      BY <3>2, <3>3
  <2>5. CASE AppendRootBack
    <3>1. PICK i \in Entry : i = entry
      BY <2>1 DEF IInv, Counters
    <3>2. i \in Used /\ op.kind = "append" /\ Root[i].name = op.name
      BY <2>1, <2>5, <3>1 DEF AppendRootBack, Extending, Appending, Ending, Used
    <3>3. PICK own \in [Cluster -> Entry \cup {NoOne}] : OwnedBy(Fat, Root, own)
      BY <2>1, <2>3 DEF Owning, FatNeverMissed
    <3>4. EndsInLastSector(i) => Grows(i)
      BY <2>1, <2>3, <2>5, <3>1, <3>2, <3>3, GrowsByText
    <3>5. QED
      BY <3>1, <3>2, <3>4
  <2>6. QED
    BY <2>2, <2>4, <2>5
<1>2. [ (result # "done" /\ result' = "done" /\ missed' = {}) => Made \/ Grown ]_vars =>
        [ (result # "done" /\ result' = "done" /\ missed' = {}) =>
          \/ \E i \in Used' \ Used : Root'[i].name = op.name /\ ContentsOf(i)' = op.data
          \/ \E i \in Used : /\ op.kind = "append" /\ i = entry /\ Root[i].name = op.name
                             /\ EndsInLastSector(i) => Grows(i) ]_vars
  OBVIOUS
<1> HIDE DEF Made, Grown
<1>3. QED
  BY <1>1, <1>2, InitOwning, StepOwning, InitLaid, StepLaid, InitExtending, StepExtending,
     InitAppending, StepAppending, DiskInvariant, PTL DEF Spec, DoneMeansOnDisk

(***************************************************************************)
(* Operations come to an end.                                              *)
(***************************************************************************)
\* What is left at each place of an operation.
LEMMA LeftAt ==
    ASSUME IInv
    PROVE  /\ Left \in 0 .. max_valid_clusters + 7
           /\ pc # "idle" => Left >= 1
           /\ pc = "append_follow" => Left >= 5
<1>1. /\ pc \in PC /\ max_valid_clusters \in Nat /\ cycle_guard \in Nat
      /\ pc = "append_follow" => cycle_guard <= max_valid_clusters
  BY SizeAssumption DEF IInv, Counters
<1>2. CASE pc = "append_follow"
  <2>1. Left = 5 + (max_valid_clusters - cycle_guard)
    BY <1>2 DEF Left
  <2>2. QED
    BY <1>1, <1>2, <2>1
<1>3. CASE pc \in {"append_fat", "append_root"}
  <2>1. Left \in {6 + max_valid_clusters, 7 + max_valid_clusters}
    BY <1>3 DEF Left
  <2>2. QED
    BY <1>1, <1>3, <2>1
<1>4. CASE pc = "idle"
  <2>1. Left = 0
    BY <1>4 DEF Left
  <2>2. QED
    BY <1>1, <1>4, <2>1
<1>5. CASE pc \notin {"idle", "append_follow", "append_fat", "append_root"}
  <2>1. Left \in 1 .. 5
    BY <1>1, <1>5 DEF PC, Left
  <2>2. QED
    BY <1>1, <1>5, <2>1
<1>6. QED
  BY <1>2, <1>3, <1>4, <1>5

LEMMA ReturnLeavesNothing ==
    ASSUME IInv, pc # "idle", pc' = "idle"
    PROVE  Left' < Left
<1>1. Left' = 0
  BY DEF Left
<1>2. QED
  BY <1>1, LeftAt

LEMMA WriteGetsOn ==
    ASSUME IInv, WriteStep
    PROVE  Left' < Left
<1>1. CASE WriteReadFat
  <2>1. pc = "write_fat" /\ pc' \in {"write_fat_back", "idle"}
    BY <1>1 DEF WriteReadFat, Return
  <2>2. QED
    BY <2>1 DEF Left
<1>2. CASE WriteFatBack \/ WriteData \/ WriteRootBack
  BY <1>2 DEF WriteFatBack, WriteData, WriteRootBack, Return, Left
<1>3. CASE WriteReadRoot
  <2>1. pc = "write_root" /\ pc' \in {"write_root_back", "idle"}
    BY <1>3 DEF WriteReadRoot, Return
  <2>2. QED
    BY <2>1 DEF Left
<1>4. QED
  BY <1>1, <1>2, <1>3 DEF WriteStep

\* The walk: the guard has not reached its limit yet, so a link more is one less.
LEMMA WalkGetsOn ==
    ASSUME IInv, AppendFollow
    PROVE  Left' < Left
<1>1. /\ pc = "append_follow" /\ cycle_guard' = cycle_guard + 1
      /\ IF cycle_guard' > max_valid_clusters THEN pc' = "idle" ELSE pc' = pc
  BY DEF AppendFollow, Return
<1>2. cycle_guard \in Nat /\ max_valid_clusters \in Nat /\ cycle_guard <= max_valid_clusters
  BY <1>1, SizeAssumption DEF IInv, Counters
<1>3. CASE cycle_guard' > max_valid_clusters
  BY <1>1, <1>3, ReturnLeavesNothing
<1>4. CASE ~(cycle_guard' > max_valid_clusters)
  <2>1. Left = 5 + (max_valid_clusters - cycle_guard)
    BY <1>1 DEF Left
  <2>2. Left' = 5 + (max_valid_clusters - cycle_guard')
    BY <1>1, <1>4 DEF Left
  <2>3. QED
    BY <1>1, <1>2, <2>1, <2>2
<1>5. QED
  BY <1>3, <1>4

LEMMA AppendGetsOn ==
    ASSUME IInv, AppendStep
    PROVE  Left' < Left
<1>1. max_valid_clusters \in Nat
  BY SizeAssumption
<1>2. CASE AppendReadRoot
  <2>1. pc = "append_root" /\ pc' \in {"write_fat", "append_fat"}
    BY <1>2 DEF AppendReadRoot
  <2>2. QED
    BY <1>1, <2>1 DEF Left
<1>3. CASE AppendReadFat
  <2>1. pc = "append_fat" /\ pc' = "append_follow" /\ cycle_guard' = 0
    BY <1>3 DEF AppendReadFat
  <2>2. Left = 6 + max_valid_clusters /\ Left' = 5 + (max_valid_clusters - 0)
    BY <2>1 DEF Left
  <2>3. QED
    BY <1>1, <2>2
<1>4. CASE AppendFollow
  BY <1>4, WalkGetsOn
<1>5. CASE AppendLastFound
  <2>1. pc = "append_follow" /\ pc' = "append_data"
    BY <1>5 DEF AppendLastFound
  <2>2. Left' = 4
    BY <2>1 DEF Left
  <2>3. QED
    BY <2>1, <2>2, LeftAt
<1>6. CASE AppendReadData \/ AppendDataBack \/ AppendReadRootAgain \/ AppendRootBack
  BY <1>6 DEF AppendReadData, AppendDataBack, AppendReadRootAgain, AppendRootBack, Return, Left
<1>7. QED
  BY <1>2, <1>3, <1>4, <1>5, <1>6 DEF AppendStep

LEMMA StepGetsOn ==
    ASSUME IInv, Next, pc # "idle"
    PROVE  Left' < Left
<1>1. CASE WriteStep
  BY <1>1, WriteGetsOn
<1>2. CASE AppendStep
  BY <1>2, AppendGetsOn
<1>3. CASE ReadRoot
  <2>1. pc = "read_root" /\ pc' \in {"read_data", "idle"}
    BY <1>3 DEF ReadRoot, Return
  <2>2. QED
    BY <2>1 DEF Left
<1>4. CASE ReadData \/ Reboot \/ \E at \in Reading : ReadFails(at)
  BY <1>4, ReturnLeavesNothing DEF ReadData, Reboot, ReadFails, Return
<1>5. QED
  BY <1>1, <1>2, <1>3, <1>4 DEF Next, Step, ReadStep, CallWrite, CallAppend, CallRead, Call,
     GetDirList

\* Each step of an operation leaves it fewer transfers: the walk along a chain follows no
\* more links than max_valid_clusters before the guard ends it, be the chain a circle.
THEOREM OperationsGetOn == Spec => OperationsAdvance
<1>1. IInv /\ [Next]_vars => [pc # "idle" => Left' < Left]_vars
  BY StepGetsOn
<1>2. QED
  BY <1>1, DiskInvariant, PTL DEF Spec, OperationsAdvance

\* So no operation takes more than max_valid_clusters + 7 transfers and links.
LEMMA OperationsAreBounded == Spec => [](Left \in 0 .. max_valid_clusters + 7)
<1>1. IInv => Left \in 0 .. max_valid_clusters + 7
  BY LeftAt
<1>2. QED
  BY <1>1, DiskInvariant, PTL
=============================================================================
