------------------------------ MODULE VirtioNet ------------------------------
(***************************************************************************)
(* The receive ring of the network card, kernel/virtio_net.c.  QUEUE_SIZE  *)
(* buffers are handed to the card at boot.  virtio_net_poll_rx takes the   *)
(* oldest packet, looks in it for the volume of a FIX message (the digits  *)
(* behind the first "38="), hands the buffer back and returns the volume.  *)
(* It differs from virtio_input_poll in that it counts the packet as seen  *)
(* before it gives its buffer back.  The card works at any moment.         *)
(*                                                                         *)
(* A buffer is a row of cells: a digit, the three characters 38= as one    *)
(* cell TAG, or any other character.  No buffer is ever cleared.           *)
(***************************************************************************)
EXTENDS Integers, Sequences, FiniteSets

CONSTANTS
    QUEUE_SIZE,     \* buffers, and slots of either ring (8)
    NET_INDEX,      \* how many values an index has (2^16)
    BUFFER_SIZE,    \* cells of a buffer
    Packet,         \* what the network sends
    HALF32,         \* an int is one of -HALF32 .. HALF32 - 1 (2^31)
    MaxPackets      \* bound: packets

TAG   == 10
TEXT == 11
Digit == 0 .. 9
Cell  == Digit \cup {TAG, TEXT}

ASSUME NetAssumption ==
    /\ QUEUE_SIZE \in Nat \ {0} /\ BUFFER_SIZE \in Nat \ {0} /\ MaxPackets \in Nat
    /\ HALF32 \in Nat \ {0}
    /\ NET_INDEX \in Nat /\ NET_INDEX > QUEUE_SIZE /\ NET_INDEX % QUEUE_SIZE = 0
    /\ \A p \in Packet : p \in Seq(Cell) /\ Len(p) <= BUFFER_SIZE

Int32 == -HALF32 .. HALF32 - 1

\* The low half of an integer: `as i32', and what the arithmetic of an int leaves.
Trunc32(x) == ((x + HALF32) % (2 * HALF32)) - HALF32

NetSlot  == 0 .. QUEUE_SIZE - 1
NetIndex == 0 .. NET_INDEX - 1

VARIABLES
    net_base,       \* whether the boot found a card
    rx_buffers, rx_avail, rx_used,
    last_used_idx,  \* how far the driver has polled rx_used
    net_pc,         \* where virtio_net_poll_rx is
    desc_id, pkt_len, \* the buffer it is working on, and the packet's length
    volume,         \* what it found in it
    card_idx,       \* how far the card has taken rx_avail
    card_held,      \* the buffers it has taken and not filled
    arrived,        \* history: the packets, in the order of their arrival
    polled          \* history: the volumes that polls found in them

netDriverVars == <<rx_avail, last_used_idx, net_pc, desc_id, pkt_len, volume, polled>>
netCardVars   == <<rx_buffers, rx_used, card_idx, card_held, arrived>>
netVars == <<net_base, netDriverVars, netCardVars>>

\* virtio_net_init; the buffers are in .bss.
NetInit ==
    /\ net_base \in BOOLEAN
    /\ rx_buffers = [s \in NetSlot |-> [i \in 1 .. BUFFER_SIZE |-> TEXT]]
    /\ rx_avail = [ring |-> [s \in NetSlot |-> s], idx |-> IF net_base THEN QUEUE_SIZE ELSE 0]
    /\ rx_used = [ring |-> [s \in NetSlot |-> [id |-> 0, len |-> 0]], idx |-> 0]
    /\ last_used_idx = 0
    /\ net_pc = "idle" /\ desc_id = 0 /\ pkt_len = 0 /\ volume = 0
    /\ card_idx = 0 /\ card_held = {}
    /\ arrived = << >> /\ polled = << >>

NextIndex(i) == (i + 1) % NET_INDEX

(***************************************************************************)
(* What virtio_net_poll_rx reads in a buffer.  The search for 38= keeps to *)
(* the packet, the loop over the digits to no bound: in the cells behind   *)
(* the packet it finds what an earlier, longer packet has left there.  It  *)
(* ends with the row at the latest, since the next one begins with the     *)
(* zeros of a virtio header.  The volume is an int; one of too many digits *)
(* wraps, which C leaves undefined and the instructions do.                *)
(***************************************************************************)
\* Where the digits behind cell t end.
DigitsEnd(row, t) ==
    CHOOSE e \in t .. Len(row) :
        /\ \A i \in t + 1 .. e : row[i] \in Digit
        /\ e < Len(row) => row[e + 1] \notin Digit

Number(row, t) ==
    LET value[e \in t .. Len(row)] ==
            IF e = t THEN 0 ELSE Trunc32(value[e - 1] * 10 + row[e])
    IN  value[DigitsEnd(row, t)]

\* Faulty variant: the search for 38= goes on behind the packet.
VolumeInRow(row, len) ==
    IF \E t \in 1 .. Len(row) : row[t] = TAG
    THEN Number(row, CHOOSE t \in 1 .. Len(row) :
                        row[t] = TAG /\ \A i \in 1 .. t - 1 : row[i] # TAG)
    ELSE 0

\* The volume in the first len cells of a row.
Volume(row, len) ==
    IF \E t \in 1 .. len : row[t] = TAG
    THEN Number(row, CHOOSE t \in 1 .. len :
                        row[t] = TAG /\ \A i \in 1 .. t - 1 : row[i] # TAG)
    ELSE 0

(***************************************************************************)
(* virtio_net_poll_rx, one step per access to a ring.                      *)
(***************************************************************************)
\* Without a card, or without a packet, it returns 0.
NetPollNothing ==
    /\ net_pc = "idle"
    /\ ~net_base \/ rx_used.idx = last_used_idx
    /\ UNCHANGED netVars

OldestSlot == last_used_idx % QUEUE_SIZE

NetPollUsed ==
    /\ net_pc = "idle" /\ net_base /\ rx_used.idx # last_used_idx
    /\ desc_id' = rx_used.ring[OldestSlot].id
    /\ pkt_len' = rx_used.ring[OldestSlot].len
    /\ net_pc' = "parse"
    /\ UNCHANGED <<net_base, rx_avail, last_used_idx, volume, polled, netCardVars>>

NetParse ==
    /\ net_pc = "parse"
    /\ volume' = Volume(rx_buffers[desc_id], pkt_len)
    /\ polled' = Append(polled, volume')
    /\ last_used_idx' = NextIndex(last_used_idx)
    /\ net_pc' = "give_back"
    /\ UNCHANGED <<net_base, rx_avail, desc_id, pkt_len, netCardVars>>

\* Faulty variant: the buffer of the slot goes back, not the one in it.
GiveBackSlot ==
    /\ net_pc = "give_back"
    /\ rx_avail' = [rx_avail EXCEPT !.ring[rx_avail.idx % QUEUE_SIZE] = rx_avail.idx % QUEUE_SIZE]
    /\ net_pc' = "publish"
    /\ UNCHANGED <<net_base, last_used_idx, desc_id, pkt_len, volume, polled, netCardVars>>

NetGiveBack ==
    /\ net_pc = "give_back"
    /\ rx_avail' = [rx_avail EXCEPT !.ring[rx_avail.idx % QUEUE_SIZE] = desc_id]
    /\ net_pc' = "publish"
    /\ UNCHANGED <<net_base, last_used_idx, desc_id, pkt_len, volume, polled, netCardVars>>

\* The poll returns volume when this is done.
NetPublish ==
    /\ net_pc = "publish"
    /\ rx_avail' = [rx_avail EXCEPT !.idx = NextIndex(@)]
    /\ net_pc' = "idle"
    /\ UNCHANGED <<net_base, last_used_idx, desc_id, pkt_len, volume, polled, netCardVars>>

(***************************************************************************)
(* The card: it may hold several buffers, and fills them in any order.     *)
(***************************************************************************)
CardTakes ==
    /\ card_idx # rx_avail.idx
    /\ card_held' = card_held \cup {rx_avail.ring[card_idx % QUEUE_SIZE]}
    /\ card_idx' = NextIndex(card_idx)
    /\ UNCHANGED <<net_base, netDriverVars, rx_buffers, rx_used, arrived>>

CardFills(d, packet) ==
    /\ d \in card_held /\ Len(arrived) < MaxPackets
    /\ rx_buffers' = [rx_buffers EXCEPT ![d] =
            [i \in 1 .. BUFFER_SIZE |-> IF i <= Len(packet) THEN packet[i] ELSE @[i]]]
    /\ rx_used' = [ring |-> [rx_used.ring EXCEPT ![rx_used.idx % QUEUE_SIZE] =
                                [id |-> d, len |-> Len(packet)]],
                   idx |-> NextIndex(rx_used.idx)]
    /\ card_held' = card_held \ {d}
    /\ arrived' = Append(arrived, packet)
    /\ UNCHANGED <<net_base, netDriverVars, card_idx>>

CardStep == CardTakes \/ \E d \in NetSlot, packet \in Packet : CardFills(d, packet)

(***************************************************************************)
(* Properties.                                                             *)
(***************************************************************************)
NetTypeOK ==
    /\ net_base \in BOOLEAN
    /\ rx_buffers \in [NetSlot -> [1 .. BUFFER_SIZE -> Cell]]
    /\ rx_avail \in [ring : [NetSlot -> NetSlot], idx : NetIndex]
    /\ rx_used \in [ring : [NetSlot -> [id : NetSlot, len : 0 .. BUFFER_SIZE]], idx : NetIndex]
    /\ last_used_idx \in NetIndex /\ card_idx \in NetIndex
    /\ net_pc \in {"idle", "parse", "give_back", "publish"}
    /\ desc_id \in NetSlot /\ pkt_len \in 0 .. BUFFER_SIZE /\ volume \in Int32
    /\ card_held \subseteq NetSlot
    /\ arrived \in Seq(Packet) /\ polled \in Seq(Int32)

\* How far one index is ahead of another, over the wrap at 2^16.
NetAhead(i, j) == (i + NET_INDEX - j) % NET_INDEX

\* The places that the buffers are in, as the rings, the card and the poll know them.
\* The entry a poll works on is in its hand before last_used_idx is past it.
AvailableAt(k) == rx_avail.ring[(card_idx + k) % QUEUE_SIZE]
UnpolledAt(k)  == rx_used.ring[(last_used_idx + k) % QUEUE_SIZE].id
NetInHand  == IF net_pc = "idle" THEN {} ELSE {desc_id}
FirstUnpolled == IF net_pc = "parse" THEN 1 ELSE 0

\* Every buffer is in one place: available, with the card, used and not yet polled,
\* or in the hand of the poll, so that no packet is written over while it is read
\* and the card never runs out of buffers for good.
RxBuffersHaveOneOwner ==
    net_base =>
        LET available == NetAhead(rx_avail.idx, card_idx)
            unpolled  == NetAhead(rx_used.idx, last_used_idx)
        IN  /\ available + Cardinality(card_held) + (unpolled - FirstUnpolled)
                + Cardinality(NetInHand) = QUEUE_SIZE
            /\ {AvailableAt(k) : k \in 0 .. available - 1} \cup card_held \cup NetInHand
                 \cup {UnpolledAt(k) : k \in FirstUnpolled .. unpolled - 1} = NetSlot

\* A packet whose volume is followed by another character, as the fields of a FIX
\* message are.
Terminated(packet) ==
    \A t \in 1 .. Len(packet) :
        packet[t] = TAG => \E i \in t + 1 .. Len(packet) : packet[i] \notin Digit

\* The n-th poll that finds a packet returns the volume of the n-th packet that arrived,
\* read from that packet alone, and none is skipped or seen twice, although buffers
\* return in another order than they were handed out and keep old packets behind new ones.
PolledInOrderOfArrival ==
    /\ Len(polled) <= Len(arrived)
    /\ \A n \in 1 .. Len(polled) :
            Terminated(arrived[n]) => polled[n] = Volume(arrived[n], Len(arrived[n]))
    /\ net_base => Len(arrived) - Len(polled) = NetAhead(rx_used.idx, last_used_idx)
=============================================================================
