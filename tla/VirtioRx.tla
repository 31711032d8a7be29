------------------------------ MODULE VirtioRx ------------------------------
(***************************************************************************)
(* The VirtIO keyboard of kernel/virtio.c: VIRTQ_SIZE buffers of one event *)
(* each, which the boot hands to the device and virtio_input_poll hands    *)
(* back one by one.  The device takes buffers from the available ring,     *)
(* fills them while keys are pressed, and returns them in the used ring,   *)
(* at any moment of a poll.  Both rings lie in device memory, so each side *)
(* sees the other's writes in their order.  All indices have 16 bits.      *)
(***************************************************************************)
EXTENDS Naturals, Sequences, FiniteSets

CONSTANTS
    VIRTQ_SIZE,     \* buffers, and slots of either ring (256)
    INDEX,          \* how many values an index has (2^16)
    Event           \* the events the keyboard sends

ASSUME RingAssumption ==
    /\ VIRTQ_SIZE \in Nat \ {0}
    /\ INDEX \in Nat /\ INDEX > VIRTQ_SIZE + 1 /\ INDEX % VIRTQ_SIZE = 0

\* What virtio_input_poll tells apart: a shift key, a key of the key maps, a key
\* that is not in them, and an event that is no key (EV_SYN).  A value of 0 is a
\* release, 1 a press, 2 a repetition.
Code == {"shift", "letter", "unmapped", "syn"}
ASSUME EventAssumption == Event \subseteq [code : Code, value : 0 .. 2]

Slot  == 0 .. VIRTQ_SIZE - 1
Index == 0 .. INDEX - 1
NUL   == "NUL"
Ascii == {NUL, "lower", "upper"}

VARIABLES
    in_events,          \* the buffers
    avail_ring, avail_idx,
    used_ring, used_idx,
    in_last_used_idx,   \* how far the driver has polled the used ring
    shift_active,
    pc,                 \* where virtio_input_poll is
    desc_idx,           \* the buffer it is working on
    ascii,              \* the character it returns
    polling,            \* whether the shell is in its main loop, which polls
    dev_idx,            \* how far the device has taken the available ring
    dev_held,           \* the buffers it has taken and not filled
    key_shift,          \* history: whether shift is held down at the keyboard
    typed,              \* history: what the events not yet polled stand for
    wanted              \* history: what the event polled last stood for

driverVars == <<avail_ring, avail_idx, in_last_used_idx, shift_active, pc, desc_idx, ascii,
                polling>>
deviceVars == <<in_events, used_ring, used_idx, dev_idx, dev_held, key_shift>>
vars == <<driverVars, deviceVars, typed, wanted>>

\* Faulty variant: the index grows beyond 16 bits.
NextUnwrapped(i) == i + 1

Next16(i) == (i + 1) % INDEX

\* The boot makes every buffer available.
Init ==
    /\ in_events \in [Slot -> {[code |-> "syn", value |-> 0]}]
    /\ avail_ring = [s \in Slot |-> s] /\ avail_idx = VIRTQ_SIZE
    /\ used_ring = [s \in Slot |-> 0] /\ used_idx = 0
    /\ in_last_used_idx = 0 /\ shift_active = FALSE
    /\ pc = "idle" /\ desc_idx = 0 /\ ascii = NUL /\ polling = TRUE
    /\ dev_idx = 0 /\ dev_held = {}
    /\ key_shift = FALSE /\ typed = << >> /\ wanted = NUL

(***************************************************************************)
(* virtio_input_poll.                                                      *)
(***************************************************************************)
PollNothing ==
    /\ pc = "idle" /\ polling /\ used_idx = in_last_used_idx
    /\ ascii' = NUL /\ wanted' = NUL
    /\ UNCHANGED <<avail_ring, avail_idx, in_last_used_idx, shift_active, pc, desc_idx,
                   polling, deviceVars, typed>>

\* Faulty variant: the slot the device writes next, not the oldest one.
DeviceSlot == used_idx % VIRTQ_SIZE

UsedSlot == in_last_used_idx % VIRTQ_SIZE

PollUsed ==
    /\ pc = "idle" /\ polling /\ used_idx # in_last_used_idx
    /\ desc_idx' = used_ring[UsedSlot]
    /\ pc' = "parse"
    /\ UNCHANGED <<avail_ring, avail_idx, in_last_used_idx, shift_active, ascii,
                   polling, deviceVars, typed, wanted>>

\* Faulty variant: the release of a shift key is taken for a press.
ShiftAfterAnyway(evt) == shift_active \/ evt.code = "shift"

ShiftAfter(evt) == IF evt.code = "shift" THEN evt.value = 1 ELSE shift_active

Decoded(evt) ==
    IF evt.code = "letter" /\ evt.value \in {1, 2}
    THEN IF shift_active THEN "upper" ELSE "lower"
    ELSE NUL

PollParse ==
    /\ pc = "parse"
    /\ shift_active' = ShiftAfter(in_events[desc_idx])
    /\ ascii' = Decoded(in_events[desc_idx])
    /\ wanted' = Head(typed) /\ typed' = Tail(typed)
    /\ pc' = "give_back"
    /\ UNCHANGED <<avail_ring, avail_idx, in_last_used_idx, desc_idx, polling, deviceVars>>

PollGiveBack ==
    /\ pc = "give_back"
    /\ avail_ring' = [avail_ring EXCEPT ![avail_idx % VIRTQ_SIZE] = desc_idx]
    /\ pc' = "publish"
    /\ UNCHANGED <<avail_idx, in_last_used_idx, shift_active, desc_idx, ascii,
                   polling, deviceVars, typed, wanted>>

\* Faulty variant: the index is not written.
PublishForgotten ==
    /\ pc = "publish"
    /\ pc' = "advance"
    /\ UNCHANGED <<avail_ring, avail_idx, in_last_used_idx, shift_active, desc_idx, ascii,
                   polling, deviceVars, typed, wanted>>

PollPublish ==
    /\ pc = "publish"
    /\ avail_idx' = Next16(avail_idx)
    /\ pc' = "advance"
    /\ UNCHANGED <<avail_ring, in_last_used_idx, shift_active, desc_idx, ascii,
                   polling, deviceVars, typed, wanted>>

PollAdvance ==
    /\ pc = "advance"
    /\ in_last_used_idx' = Next16(in_last_used_idx)
    /\ pc' = "idle"
    /\ UNCHANGED <<avail_ring, avail_idx, shift_active, desc_idx, ascii,
                   polling, deviceVars, typed, wanted>>

Poll == \/ PollNothing \/ PollUsed \/ PollParse
        \/ PollGiveBack \/ PollPublish \/ PollAdvance

\* Only the main loop of the shell polls.  It ends when the user types trade.listen,
\* which reads the serial line for ever, or runs a contract that does not return.
ShellLeaves ==
    /\ pc = "idle" /\ polling
    /\ polling' = FALSE
    /\ UNCHANGED <<avail_ring, avail_idx, in_last_used_idx, shift_active, pc, desc_idx, ascii,
                   deviceVars, typed, wanted>>

(***************************************************************************)
(* The device.  It may hold several buffers and need not fill them in the  *)
(* order in which it took them.                                            *)
(***************************************************************************)
DeviceTakes ==
    /\ dev_idx # avail_idx
    /\ dev_held' = dev_held \cup {avail_ring[dev_idx % VIRTQ_SIZE]}
    /\ dev_idx' = (dev_idx + 1) % INDEX
    /\ UNCHANGED <<driverVars, in_events, used_ring, used_idx, key_shift, typed, wanted>>

\* What an event means to who typed it, while shift is held down or is not.
Meaning(evt) ==
    IF evt.code = "letter" /\ evt.value # 0
    THEN IF key_shift THEN "upper" ELSE "lower"
    ELSE NUL

DeviceFills(d, evt) ==
    /\ d \in dev_held
    /\ in_events' = [in_events EXCEPT ![d] = evt]
    /\ used_ring' = [used_ring EXCEPT ![used_idx % VIRTQ_SIZE] = d]
    /\ used_idx' = (used_idx + 1) % INDEX
    /\ dev_held' = dev_held \ {d}
    /\ key_shift' = IF evt.code = "shift" THEN evt.value # 0 ELSE key_shift
    /\ typed' = Append(typed, Meaning(evt))
    /\ UNCHANGED <<driverVars, dev_idx, wanted>>

Next == Poll \/ ShellLeaves \/ DeviceTakes \/ \E d \in Slot, evt \in Event : DeviceFills(d, evt)

\* The main loop polls in each turn, so polls go on for as long as the shell is in it;
\* nothing is assumed of the device, nor of the user, who may leave the loop or not.
Spec == Init /\ [][Next]_vars /\ WF_vars(Poll)

(***************************************************************************)
(* Properties.                                                             *)
(***************************************************************************)
TypeOK ==
    /\ in_events \in [Slot -> [code : Code, value : 0 .. 2]]
    /\ avail_ring \in [Slot -> Slot] /\ used_ring \in [Slot -> Slot]
    /\ {avail_idx, used_idx, in_last_used_idx, dev_idx} \subseteq Index
    /\ shift_active \in BOOLEAN /\ key_shift \in BOOLEAN /\ polling \in BOOLEAN
    /\ pc \in {"idle", "parse", "give_back", "publish", "advance"}
    /\ desc_idx \in Slot /\ ascii \in Ascii /\ wanted \in Ascii
    /\ dev_held \subseteq Slot
    /\ typed \in Seq(Ascii)

\* How far one index is ahead of another, over the wrap at 2^16.
Ahead(i, j) == (i + INDEX - j) % INDEX

\* The buffers that are named by n entries of a ring, from index i on.
Named(ring, i, n) == [k \in 1 .. n |-> ring[(i + k - 1) % VIRTQ_SIZE]]

\* The entries of either ring that the other side has still to take.
Available == Named(avail_ring, dev_idx, Ahead(avail_idx, dev_idx))
Unpolled ==
    IF pc = "idle" THEN Named(used_ring, in_last_used_idx, Ahead(used_idx, in_last_used_idx))
    ELSE Named(used_ring, in_last_used_idx + 1, Ahead(used_idx, in_last_used_idx) - 1)
InHand == IF pc \in {"parse", "give_back", "publish"} THEN {desc_idx} ELSE {}

InSeq(s) == {s[k] : k \in 1 .. Len(s)}

\* Every buffer is in one place: available, with the device, used and not yet
\* polled, or in the hand of the poll.  So none is parsed while the device may
\* write to it, none is handed out twice, and none is lost.
BuffersHaveOneOwner ==
    /\ Len(Available) + Cardinality(dev_held) + Len(Unpolled) + Cardinality(InHand) = VIRTQ_SIZE
    /\ InSeq(Available) \cup dev_held \cup InSeq(Unpolled) \cup InHand = Slot

\* A poll returns what the event meant when it was typed, in the case of the
\* shift key of that moment, however many events were waiting.  This is for one
\* shift key that sends no repetitions (see ShiftAfter).
CharactersAsTyped ==
    /\ ascii = wanted
    /\ pc = "idle" => Len(typed) = Ahead(used_idx, in_last_used_idx)

\* A keyboard that has run out of buffers gets one back, unless the shell leaves its main
\* loop first: while trade.listen runs, nobody hands the used buffers back.
DeviceGetsBuffers ==
    (dev_held = {} /\ dev_idx = avail_idx) ~> (dev_idx # avail_idx \/ ~polling)
=============================================================================
