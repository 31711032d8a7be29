------------------------------ MODULE MCFat32 ------------------------------
(***************************************************************************)
(* Disks of four data clusters and three entries, with sectors of three    *)
(* bytes.  They come from the host: freshly formatted; with a file of two  *)
(* clusters behind a deleted entry; with an empty file, which has no       *)
(* cluster; and with a file whose chain is damaged into a circle.          *)
(***************************************************************************)
EXTENDS Fat32

MCData == {<<1>>, <<2, 2>>}

Unused == [name |-> END, cluster |-> 0, size |-> 0]
Zeros  == [i \in 1 .. SECTOR |-> 0]
Filled == [i \in 1 .. SECTOR |-> 2]

\* A disk with these links between clusters, entries and full clusters.
Disk(links, entries, full) ==
    [s \in Sector |->
        IF s = fat_start_sector
        THEN [c \in 0 .. FAT_ENTRIES - 1 |->
                IF c \in DOMAIN links THEN links[c] ELSE IF c <= 2 THEN EOF ELSE FREE]
        ELSE IF s = root_sector
        THEN [e \in Entry |-> IF e + 1 \in DOMAIN entries THEN entries[e + 1] ELSE Unused]
        ELSE IF s \in full THEN Filled ELSE Zeros]

File(name, c, size) == [name |-> name, cluster |-> c, size |-> size]
NoLinks == [c \in {} |-> 0]

MCFormatted == {Disk(NoLinks, << >>, {})}

MCImage ==
    { Disk(NoLinks, << >>, {}),
      Disk([c \in {3, 5} |-> IF c = 3 THEN 5 ELSE EOF],
           <<File(DELETED, 4, 1), File("a", 3, SECTOR + 1)>>, {3, 5}),
      Disk(NoLinks, <<File("a", 0, 0)>>, {}),
      Disk([c \in {3, 4} |-> IF c = 3 THEN 4 ELSE 3],
           <<File("a", 3, SECTOR + 1)>>, {3, 4}) }
=============================================================================
