---------------------------- MODULE DiskService ----------------------------
(***************************************************************************)
(* What the block driver promises to the file system: a call of            *)
(* virtio_blk_read_sector or virtio_blk_write_sector has the device carry  *)
(* out that transfer once, between its beginning and its end, and returns  *)
(* the device's word on it.  A call fails by itself only where there is no *)
(* disk.  Of the queue, its descriptors and its memory nothing is seen.    *)
(***************************************************************************)
CONSTANTS Sector, Buffer

VARIABLES
    present,    \* there is a disk
    stage,      \* the running call: "idle" when there is none, "asked", or "served"
    order,      \* the transfer it asks for
    word,       \* what the device has carried out for it, and how it ended
    result      \* what the last call returned

vars == <<present, stage, order, word, result>>

Direction == {"in", "out"}

\* A sector, and the buffer to fill from it or to write to it.
Order(type, sector, buffer) == [what |-> <<type, sector>>, moves |-> {<<buffer, type>>}]
NoOrder == [what |-> <<"nothing", 0>>, moves |-> {}]
NoWord  == [order |-> NoOrder, value |-> "none"]

Init ==
    /\ present = FALSE
    /\ stage = "idle" /\ order = NoOrder /\ word = NoWord
    /\ result = "none"

\* The boot finds the disk.
Appear ==
    /\ ~present /\ stage = "idle"
    /\ present' = TRUE
    /\ UNCHANGED <<stage, order, word, result>>

Ask(type, sector, buffer) ==
    /\ present /\ stage = "idle"
    /\ stage' = "asked"
    /\ order' = Order(type, sector, buffer)
    /\ UNCHANGED <<present, word, result>>

Serve ==
    /\ stage = "asked"
    /\ stage' = "served"
    /\ \E value \in {"ok", "error"} : word' = [order |-> order, value |-> value]
    /\ UNCHANGED <<present, order, result>>

Return ==
    /\ stage = "served"
    /\ stage' = "idle"
    /\ result' = IF word.value = "ok" THEN "ok" ELSE "failed"
    /\ order' = NoOrder /\ word' = NoWord
    /\ UNCHANGED present

FailWithoutDisk ==
    /\ ~present /\ stage = "idle"
    /\ result' = "failed"
    /\ UNCHANGED <<present, stage, order, word>>

Next ==
    \/ Appear \/ Serve \/ Return \/ FailWithoutDisk
    \/ \E type \in Direction, sector \in Sector, buffer \in Buffer : Ask(type, sector, buffer)

Spec == Init /\ [][Next]_vars
=============================================================================
