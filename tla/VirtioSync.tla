----------------------------- MODULE VirtioSync -----------------------------
(***************************************************************************)
(* The synchronous requests of kernel/virtio.c: sectors of the block       *)
(* device and commands of the GPU.  A request is built in the DMA arena,   *)
(* laid out in a chain of descriptors that both queues number with one     *)
(* 16-bit counter, published in the available ring, and awaited by polling *)
(* the 16-bit index of the used ring.  A call takes a snapshot of the      *)
(* arena and goes back to it.  The arena also is the heap of the evaluator  *)
(* (autarky_vm/src/lib.rs), which takes no snapshot and frees nothing.     *)
(*                                                                         *)
(* The device is an actor of its own.  It sees memory as the driver wrote  *)
(* it, for the arena, where the queues lie, is mapped as device memory     *)
(* (mmu.c, step 6).  It may look at a queue at any moment, before it is    *)
(* notified too, and takes its time to answer.  Addresses are numbers: the *)
(* arena is 0 .. HEAP_SIZE - 1, the callers' buffers are above.            *)
(***************************************************************************)
EXTENDS Naturals, Sequences, FiniteSets

CONSTANTS
    VIRTQ_SIZE,     \* descriptors of a queue (256)
    INDEX,          \* how many values an index has (2^16)
    PAGE,           \* alignment of queues and framebuffer (4096)
    HEAP_SIZE,      \* bytes of the arena that are mapped (4 MB)
    FbSize,         \* the framebuffer sizes a display may report, 0 for none
    DEFAULT_FB,     \* the size of 1280 x 800 pixels
    Sector,         \* sectors that are asked for
    Buffer,         \* addresses of the callers' buffers
    EvalSize,       \* what an evaluation may take from the arena
    MaxCalls        \* bound: calls after the boot

ASSUME QueueAssumption ==
    /\ VIRTQ_SIZE \in Nat /\ VIRTQ_SIZE >= 3
    /\ INDEX \in Nat /\ INDEX > VIRTQ_SIZE /\ INDEX % VIRTQ_SIZE = 0
ASSUME ArenaAssumption ==
    /\ PAGE \in Nat \ {0} /\ HEAP_SIZE \in Nat /\ DEFAULT_FB \in Nat
    /\ FbSize \subseteq Nat /\ EvalSize \subseteq Nat \ {0}
    /\ Buffer \subseteq Nat /\ \A b \in Buffer : b >= HEAP_SIZE
ASSUME BoundAssumption == MaxCalls \in Nat

Queue  == {"blk", "gpu"}
Device == Queue \cup {"input"}
Slot   == 0 .. VIRTQ_SIZE - 1
Index  == 0 .. INDEX - 1

VARIABLES
    heap,           \* dma_heap_curr, from the start of the arena
    heap_save,      \* the snapshot of the running call
    desc_idx,       \* global_desc_idx
    desc,           \* the descriptor table of each queue
    avail,          \* the available ring of each queue, and its index
    used_idx,       \* the index of the used ring of each queue
    last_used_idx,  \* how far the driver has seen that
    dev_idx,        \* how far the device has taken the available ring
    request,        \* the request in the arena: where, and what it asks
    answer,         \* the status byte or response header: where, and its value
    pc,             \* where the driver is
    todo,           \* the devices that the boot has not come to
    found,          \* the devices it has set up
    call,           \* the running call: "boot", "flush", or a transfer
    script,         \* the GPU commands it has still to send
    fb,             \* bytes of the framebuffer, once there is one
    result,         \* what the last transfer returned
    calls,          \* bound counter: calls
    live,           \* history: the blocks of the arena that are in use
    kept_heap,      \* history: dma_heap_curr after the boot or the last evaluation
    served          \* history: the last request a device has carried out

arenaVars  == <<heap, heap_save, live, kept_heap>>
queueVars  == <<desc_idx, desc, avail, last_used_idx>>
deviceVars == <<used_idx, dev_idx, served>>
callVars   == <<todo, found, call, script, fb, result, calls>>
vars == <<arenaVars, queueVars, deviceVars, callVars, request, answer, pc>>

NoDesc == [addr |-> 0, flags |-> {}, next |-> 0]
Nothing == <<"nothing", 0>>

Boot  == [kind |-> "boot", what |-> Nothing, buffer |-> 0]
Flush == [kind |-> "flush", what |-> Nothing, buffer |-> 0]
Execute == [kind |-> "execute", what |-> Nothing, buffer |-> 0]
\* virtio_blk_read_sector and virtio_blk_write_sector.
Transfer(type, sector, buffer) ==
    [kind |-> "transfer", what |-> <<type, sector>>, buffer |-> buffer]

Init ==
    /\ heap = 0 /\ heap_save = 0 /\ live = {} /\ kept_heap = 0
    /\ desc_idx = 0
    /\ desc = [q \in Queue |-> [s \in Slot |-> NoDesc]]
    /\ avail = [q \in Queue |-> [ring |-> [s \in Slot |-> 0], idx |-> 0]]
    /\ used_idx = [q \in Queue |-> 0] /\ last_used_idx = [q \in Queue |-> 0]
    /\ dev_idx = [q \in Queue |-> 0]
    /\ request = [at |-> 0, what |-> Nothing] /\ answer = [at |-> 0, value |-> "zero"]
    /\ pc = "probe"
    /\ todo \in SUBSET Device /\ found = {}
    /\ call = Boot /\ script = << >> /\ fb = 0
    /\ result = "none" /\ calls = 0
    /\ served = [what |-> Nothing, data |-> {}, value |-> "zero"]

(***************************************************************************)
(* The arena.                                                              *)
(***************************************************************************)
\* Faulty variant: the address is aligned downwards.
AlignDown(addr, align) == addr - (addr % align)

AlignUp(addr, align) ==
    IF addr % align = 0 THEN addr ELSE addr + align - (addr % align)

bump_allocate(curr, size, align) == [at |-> AlignUp(curr, align), size |-> size]

\* One block, or a first block and a second behind it.
Allocate(sizes, aligns) ==
    LET first  == bump_allocate(heap, sizes[1], aligns[1])
        second == bump_allocate(first.at + first.size, sizes[2], aligns[2])
    IN  IF Len(sizes) = 1 THEN <<first>> ELSE <<first, second>>

End(blocks) == blocks[Len(blocks)].at + blocks[Len(blocks)].size

\* The blocks are taken, for good or until the call returns.  bump_allocate zeroes
\* them and knows no limit: behind the mapped arena that is a fatal exception.
Take(blocks, owner, next) ==
    /\ heap' = End(blocks)
    /\ live' = live \cup {[at |-> blocks[n].at, size |-> blocks[n].size, owner |-> owner] :
                            n \in 1 .. Len(blocks)}
    /\ pc' = IF End(blocks) <= HEAP_SIZE THEN next ELSE "panic"

QueueBytes ==
    LET rings == 16 * VIRTQ_SIZE + 6 + 2 * VIRTQ_SIZE
    IN  rings + (PAGE - (rings % PAGE)) + 6 + 8 * VIRTQ_SIZE

(***************************************************************************)
(* Boot: virtio_probe_and_init meets the devices in the order of their     *)
(* slots.  It gives each its queue, the keyboard its events, and sets up   *)
(* the GPU with six commands that stay in the arena.                       *)
(***************************************************************************)
InitScript ==
    << [what |-> "info",    size |-> 24, resp |-> 408],
       [what |-> "create",  size |-> 40, resp |-> 24],
       [what |-> "attach",  size |-> 48, resp |-> 24],
       [what |-> "scanout", size |-> 48, resp |-> 24],
       [what |-> "tx",      size |-> 56, resp |-> 24],
       [what |-> "flush",   size |-> 48, resp |-> 24] >>

FlushScript == <<InitScript[5], InitScript[6]>>

ProbeInput ==
    /\ pc = "probe" /\ "input" \in todo
    /\ Take(Allocate(<<QueueBytes, 8 * VIRTQ_SIZE>>, <<PAGE, 8>>), "boot", "probe")
    /\ todo' = todo \ {"input"} /\ found' = found \cup {"input"}
    /\ UNCHANGED <<heap_save, kept_heap, queueVars, deviceVars, call, script, fb,
                   result, calls, request, answer>>

ProbeBlk ==
    /\ pc = "probe" /\ "blk" \in todo
    /\ Take(Allocate(<<QueueBytes>>, <<PAGE>>), "boot", "probe")
    /\ todo' = todo \ {"blk"} /\ found' = found \cup {"blk"}
    /\ UNCHANGED <<heap_save, kept_heap, queueVars, deviceVars, call, script, fb,
                   result, calls, request, answer>>

ProbeGpu ==
    /\ pc = "probe" /\ "gpu" \in todo
    /\ Take(Allocate(<<QueueBytes>>, <<PAGE>>), "boot", "gpu_command")
    /\ todo' = todo \ {"gpu"} /\ found' = found \cup {"gpu"}
    /\ script' = InitScript
    /\ UNCHANGED <<heap_save, kept_heap, queueVars, deviceVars, call, fb,
                   result, calls, request, answer>>

ProbeDone ==
    /\ pc = "probe" /\ todo = {}
    /\ kept_heap' = heap
    /\ pc' = "ready"
    /\ UNCHANGED <<heap, heap_save, live, queueVars, deviceVars, callVars, request, answer>>

(***************************************************************************)
(* Calls of the kernel.                                                    *)
(***************************************************************************)
Idle == pc = "ready" /\ calls < MaxCalls /\ calls' = calls + 1

\* A request and its status byte are allocated; the status is set to 0xFF.
CallTransfer(type, sector, buffer) ==
    LET blocks == Allocate(<<16, 1>>, <<16, 1>>) IN
    /\ Idle /\ "blk" \in found
    /\ call' = Transfer(type, sector, buffer)
    /\ heap_save' = heap
    /\ Take(blocks, "call", "submit")
    /\ request' = [at |-> blocks[1].at, what |-> <<type, sector>>]
    /\ answer' = [at |-> blocks[2].at, value |-> "unset"]
    /\ UNCHANGED <<kept_heap, queueVars, deviceVars, todo, found, script, fb, result>>

\* virtio_gpu_flush, from SYS_GPU_FLUSH.
CallFlush ==
    /\ Idle /\ "gpu" \in found
    /\ call' = Flush
    /\ heap_save' = heap
    /\ script' = FlushScript
    /\ pc' = "gpu_command"
    /\ UNCHANGED <<heap, live, kept_heap, queueVars, deviceVars, todo, found, fb, result,
                   request, answer>>

\* autarky_execute, whose nodes, environments and texts are bump_allocate's for good
\* (BareMetalAllocator::dealloc does nothing).
CallExecute(size) ==
    LET blocks == Allocate(<<size>>, <<8>>) IN
    /\ Idle
    /\ call' = Execute
    /\ Take(blocks, "vm", "ready")
    /\ kept_heap' = End(blocks)
    /\ UNCHANGED <<heap_save, queueVars, deviceVars, todo, found, script, fb, result,
                   request, answer>>

\* Without the device a call returns at once, a transfer with -1.
CallWithoutDevice ==
    /\ Idle
    /\ \/ "blk" \notin found /\ result' = "failed"
       \/ "gpu" \notin found /\ UNCHANGED result
    /\ UNCHANGED <<arenaVars, queueVars, deviceVars, todo, found, call, script, fb,
                   request, answer, pc>>

\* The header of the next command and room for its response, which is zeroed.
GpuCommand ==
    LET c == Head(script)
        blocks == Allocate(<<c.size, c.resp>>, <<8, 8>>)
    IN  /\ pc = "gpu_command"
        /\ Take(blocks, IF call = Boot THEN "boot" ELSE "call", "submit")
        /\ request' = [at |-> blocks[1].at, what |-> <<c.what, 0>>]
        /\ answer' = [at |-> blocks[2].at, value |-> "zero"]
        /\ UNCHANGED <<heap_save, kept_heap, queueVars, deviceVars, callVars>>

\* gpu_init takes the framebuffer before it attaches it.
Framebuffer ==
    /\ pc = "framebuffer"
    /\ Take(Allocate(<<fb>>, <<PAGE>>), "boot", "gpu_command")
    /\ UNCHANGED <<heap_save, kept_heap, queueVars, deviceVars, callVars, request, answer>>

(***************************************************************************)
(* A request goes to the device.                                           *)
(***************************************************************************)
Target == IF call.kind = "transfer" THEN "blk" ELSE "gpu"

\* What the chain points at, and which parts the device is to write.
Parts ==
    IF call.kind = "transfer"
    THEN << [addr |-> request.at, flags |-> {"NEXT"}],
            [addr |-> call.buffer,
             flags |-> {"NEXT"} \cup IF call.what[1] = "in" THEN {"WRITE"} ELSE {}],
            [addr |-> answer.at, flags |-> {"WRITE"}] >>
    ELSE << [addr |-> request.at, flags |-> {"NEXT"}],
            [addr |-> answer.at, flags |-> {"WRITE"}] >>

\* Faulty variant: one descriptor number for the whole chain.
SameSlot(k) == desc_idx % VIRTQ_SIZE

\* d0, d1 and d2: global_desc_idx++ % VIRTQ_SIZE.
DescSlot(k) == ((desc_idx + k) % INDEX) % VIRTQ_SIZE

\* Faulty variant: the counter is not 16 bits wide.
AdvanceUnwrapped(i, n) == i + n

Advance(i, n) == (i + n) % INDEX

\* The k-th descriptor of a chain of n.
Filled(k, n) == [addr |-> Parts[k].addr, flags |-> Parts[k].flags,
                 next |-> IF k < n THEN DescSlot(k) ELSE 0]

Submit ==
    LET n == Len(Parts) IN
        /\ pc = "submit"
        /\ desc' = [desc EXCEPT ![Target] =
                IF n = 2 THEN [@ EXCEPT ![DescSlot(0)] = Filled(1, n), ![DescSlot(1)] = Filled(2, n)]
                ELSE [@ EXCEPT ![DescSlot(0)] = Filled(1, n), ![DescSlot(1)] = Filled(2, n),
                               ![DescSlot(2)] = Filled(3, n)]]
        /\ avail' = [avail EXCEPT ![Target].ring[avail[Target].idx % VIRTQ_SIZE] = DescSlot(0)]
        /\ desc_idx' = Advance(desc_idx, n)
        /\ pc' = "publish"
        /\ UNCHANGED <<arenaVars, last_used_idx, deviceVars, callVars, request, answer>>

\* Faulty variant: the index of the available ring stays.
PublishNothing ==
    /\ pc = "publish"
    /\ pc' = "await"
    /\ UNCHANGED <<arenaVars, queueVars, deviceVars, callVars, request, answer>>

Publish ==
    /\ pc = "publish"
    /\ avail' = [avail EXCEPT ![Target].idx = Advance(@, 1)]
    /\ pc' = "await"
    /\ UNCHANGED <<arenaVars, desc_idx, desc, last_used_idx, deviceVars, callVars,
                   request, answer>>

(***************************************************************************)
(* while (used->idx == last_used_idx), and what follows the answer.        *)
(***************************************************************************)
\* Faulty variant: the index is compared the wrong way round.
AnsweredAtOnce == used_idx[Target] = last_used_idx[Target]

Answered == used_idx[Target] # last_used_idx[Target]

Await ==
    /\ pc = "await"
    /\ Answered
    /\ last_used_idx' = [last_used_idx EXCEPT ![Target] = Advance(@, 1)]
    /\ UNCHANGED <<kept_heap, heap_save, desc_idx, desc, avail, deviceVars, todo, found, call,
                   calls, request, answer>>

\* Faulty variant: the arena is not reset.
KeepArena == UNCHANGED <<heap, live>>

ResetArena ==
    /\ heap' = heap_save
    /\ live' = {b \in live : b.owner # "call"}

TransferReturns ==
    /\ Await
    /\ call.kind = "transfer"
    /\ result' = IF answer.value = "ok" THEN "ok" ELSE "failed"
    /\ ResetArena
    /\ pc' = "ready"
    /\ UNCHANGED <<script, fb>>

\* The first command of the boot asks for the size of the display.
CommandAnswered ==
    /\ Await
    /\ call.kind # "transfer" /\ Len(script) > 1
    /\ IF Head(script).what = "info"
       THEN \E size \in FbSize : fb' = IF size = 0 THEN DEFAULT_FB ELSE size
       ELSE UNCHANGED fb
    /\ script' = Tail(script)
    /\ pc' = IF Head(script).what = "create" THEN "framebuffer" ELSE "gpu_command"
    /\ UNCHANGED <<heap, live, result>>

InitDone ==
    /\ Await
    /\ call = Boot /\ Len(script) = 1
    /\ script' = << >>
    /\ pc' = "probe"
    /\ UNCHANGED <<heap, live, fb, result>>

FlushReturns ==
    /\ Await
    /\ call = Flush /\ Len(script) = 1
    /\ script' = << >>
    /\ ResetArena
    /\ pc' = "ready"
    /\ UNCHANGED <<fb, result>>

(***************************************************************************)
(* The device: it takes the next chain of a queue, reads the request,      *)
(* moves the data, writes its answer, and only then counts it as used.     *)
(***************************************************************************)
Pending(k) == dev_idx[k] # avail[k].idx

\* The descriptors of the chain the device comes to, as far as the third.
Chain(k) ==
    LET d0 == desc[k][avail[k].ring[dev_idx[k] % VIRTQ_SIZE]]
        d1 == desc[k][d0.next]
        d2 == desc[k][d1.next]
    IN  IF "NEXT" \notin d0.flags THEN <<d0>>
        ELSE IF "NEXT" \notin d1.flags THEN <<d0, d1>> ELSE <<d0, d1, d2>>

ReadsAt(addr) == IF addr = request.at THEN request.what ELSE Nothing

DeviceServes(k) ==
    LET chain == Chain(k)
        last  == chain[Len(chain)]
    IN  /\ k \in found /\ Pending(k) /\ dev_idx[k] = used_idx[k]
        /\ \E value \in {"ok", "error"} :
              /\ served' = [what |-> ReadsAt(chain[1].addr), value |-> value,
                            data |-> {<<chain[i].addr, chain[i].flags>> :
                                            i \in 2 .. Len(chain) - 1}]
              /\ answer' = IF last.addr = answer.at /\ "WRITE" \in last.flags
                           THEN [answer EXCEPT !.value = value] ELSE answer
        /\ dev_idx' = [dev_idx EXCEPT ![k] = (@ + 1) % INDEX]
        /\ UNCHANGED <<arenaVars, queueVars, used_idx, callVars, request, pc>>

DeviceReports(k) ==
    /\ dev_idx[k] # used_idx[k]
    /\ used_idx' = [used_idx EXCEPT ![k] = (@ + 1) % INDEX]
    /\ UNCHANGED <<arenaVars, queueVars, dev_idx, served, callVars, request, answer, pc>>

DriverStep ==
    \/ ProbeInput \/ ProbeBlk \/ ProbeGpu \/ ProbeDone
    \/ GpuCommand \/ Framebuffer \/ Submit \/ Publish
    \/ TransferReturns \/ CommandAnswered \/ InitDone \/ FlushReturns

DeviceStep == \E k \in Queue : DeviceServes(k) \/ DeviceReports(k)

Call ==
    \/ \E type \in {"in", "out"}, sector \in Sector, buffer \in Buffer :
            CallTransfer(type, sector, buffer)
    \/ CallFlush \/ CallWithoutDevice
    \/ \E size \in EvalSize : CallExecute(size)

Next == DriverStep \/ DeviceStep \/ Call

\* The driver polls without a pause, and a device answers what it is asked.
Spec == Init /\ [][Next]_vars /\ WF_vars(DriverStep) /\ WF_vars(DeviceStep)

(***************************************************************************)
(* Properties.                                                             *)
(***************************************************************************)
Desc  == [addr : Nat, flags : SUBSET {"NEXT", "WRITE"}, next : Slot]
Block == [at : Nat, size : Nat, owner : {"boot", "call", "vm"}]

TypeOK ==
    /\ heap \in Nat /\ heap_save \in Nat /\ kept_heap \in Nat
    /\ live \subseteq Block
    /\ desc_idx \in Index
    /\ desc \in [Queue -> [Slot -> Desc]]
    /\ avail \in [Queue -> [ring : [Slot -> Slot], idx : Index]]
    /\ used_idx \in [Queue -> Index] /\ last_used_idx \in [Queue -> Index]
    /\ dev_idx \in [Queue -> Index]
    /\ request.at \in Nat /\ answer.at \in Nat
    /\ answer.value \in {"zero", "unset", "ok", "error"}
    /\ pc \in {"probe", "gpu_command", "framebuffer", "submit", "publish", "await",
               "ready", "panic"}
    /\ todo \subseteq Device /\ found \subseteq Device
    /\ call.kind \in {"boot", "flush", "transfer", "execute"}
    /\ fb \in Nat /\ result \in {"none", "ok", "failed"} /\ calls \in 0 .. MaxCalls

\* bump_allocate hands out every byte once: queues, framebuffer, requests and
\* responses that are in use at the same time lie apart and in the mapped arena.
BlocksAreApart ==
    pc # "panic" =>
        /\ heap <= HEAP_SIZE /\ \A b \in live : b.at + b.size <= heap
        /\ \A b, c \in live : b # c => b.at + b.size <= c.at \/ c.at + c.size <= b.at

\* "snaps the pointer back to the snapshot": between calls the arena is as the boot
\* and the evaluations have left it, after any number of transfers and flushes, and
\* what an evaluation took is still there.
ArenaIsRestored ==
    pc = "ready" =>
        /\ heap = kept_heap
        /\ \A b \in live : b.owner \in {"boot", "vm"} /\ b.at + b.size <= kept_heap

\* What a device finds in a queue is the request being made now, whole and in
\* order, on descriptors of its own, in memory that is still allocated: no
\* descriptor or address of an earlier request is left in the chain.
DeviceFindsRequest ==
    \A k \in found \cap Queue :
        (Pending(k) /\ pc # "panic") =>
            /\ pc = "await" /\ k = Target
            /\ [i \in 1 .. Len(Chain(k)) |-> [addr |-> Chain(k)[i].addr,
                                               flags |-> Chain(k)[i].flags]] = Parts
            /\ \E b \in live : b.at = request.at
            /\ \E b \in live : b.at = answer.at

\* A transfer returns the device's word on this very sector, buffer and direction,
\* never that on an earlier one, and returns only when the device is done.
ResultIsOfThisTransfer ==
    (pc = "ready" /\ call.kind = "transfer") =>
        /\ served.what = call.what
        /\ served.data = {<<call.buffer, IF call.what[1] = "in" THEN {"NEXT", "WRITE"} ELSE {"NEXT"}>>}
        /\ result = (IF served.value = "ok" THEN "ok" ELSE "failed")
        /\ \A k \in Queue : dev_idx[k] = avail[k].idx /\ used_idx[k] = avail[k].idx

\* How the block driver appears to its callers.  A transfer is asked for until the
\* device has taken its chain, which is when it carries it out, and then served.
Busy == {"submit", "publish", "await"}

Stage ==
    IF call.kind # "transfer" \/ pc \notin Busy THEN "idle"
    ELSE IF pc = "await" /\ dev_idx["blk"] # last_used_idx["blk"] THEN "served" ELSE "asked"

Direction(flags) == IF "WRITE" \in flags THEN "in" ELSE "out"

NoOrder == [what |-> Nothing, moves |-> {}]
Ordered ==
    IF Stage = "idle" THEN NoOrder
    ELSE [what |-> call.what, moves |-> {<<call.buffer, call.what[1]>>}]
CarriedOut == [what |-> served.what, moves |-> {<<m[1], Direction(m[2])>> : m \in served.data}]
DeviceWord ==
    IF Stage = "served" THEN [order |-> CarriedOut, value |-> served.value]
    ELSE [order |-> NoOrder, value |-> "none"]

Disk == INSTANCE DiskService WITH
            present <- "blk" \in found, stage <- Stage, order <- Ordered, word <- DeviceWord

\* Seen from fat32.c the queue is not there: each transfer is carried out by the
\* device once, from the sector and on the buffer of the call and in its direction,
\* while the call runs, and the call returns the device's word.
ServesTransfers == Disk!Spec

\* No call and no boot waits forever for an index that has been missed.
CallsReturn == pc \in {"submit", "await", "gpu_command"} ~> pc \in {"ready", "probe", "panic"}

\* "Two L3 tables to support up to 4MB of framebuffer" (mmu.c): with such a
\* framebuffer, as large as the arena it is taken from, the machine comes up.
LargeFramebufferFits == pc # "panic"
=============================================================================
