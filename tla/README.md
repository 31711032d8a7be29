# AI-OS Exchange: formal models

AI-OS Exchange is a bare-metal AArch64 system: a C kernel at EL1, one C program
at EL0 (the terminal shell), and a Rust expression evaluator linked into the
kernel. This directory holds TLA+ models of its core, the configurations that
check them with TLC, and proofs that TLAPS checks. `PROJECT.json` maps each
definition to the lines it translates and lists the runs, hazards, findings and
theorems.

To check one model: `tlc -config MCWatcher.cfg MCWatcher`. To check one module of
proofs: `tlapm Watcher_proofs.tla`.

## 1. The system

### Components

| component | state it keeps | operations | model |
|---|---|---|---|
| IPC mailbox, `kernel/syscall.c` 10-22, 231-248 | ring of 256 messages, `ipc_head`, `ipc_tail` | `ipc_kernel_send`, `SYS_IPC_RECV` | `Mailbox`, `MailboxFifo` |
| system call handler, `kernel/syscall.c` | none of its own | `SYS_HW_DRAIN`, `SYS_UART_RECV`, `SYS_GPU_FLUSH`, `SYS_IPC_SEND`, `SYS_IPC_RECV` | in `Shell` |
| terminal shell, `modules/shell_gui/main.c` | command line, trade line, terminal cursor | polling loop, six requests, `trade.listen` | `Shell` |
| watcher, `kernel/watcher.c` | ring of 64 events, head, tail, count, sync cursor | `watcher_init`, `watcher_log_event`, `watcher_dump_history`, `watcher_sync_to_disk` | `Watcher` |
| FAT32 driver, `modules/fs/fat32.c` | the disk, two sector buffers, the mounted geometry | `fs_fat32_init`, `fs_list_root`, `fs_get_dir_list`, `fs_read_file_content`, `fs_write_file_content`, `fs_append_file_content` | `Fat32` |
| PL011 UART, `kernel/uart.c` | device FIFO | `uart_poll_rx`, output | an input of `Shell` |
| VirtIO keyboard, `kernel/virtio.c` 198-333 | ring of event buffers, shift state | `virtio_input_init`, `virtio_input_poll` | `VirtioRx`; an input of `Shell` |
| VirtIO block and GPU, `kernel/virtio.c` | virtqueues, one descriptor counter for all of them, DMA arena | sector read and write, GPU set-up and flush | `VirtioSync`; failures of transfers in `Fat32` |
| VirtIO network, `kernel/virtio_net.c` | receive ring | `virtio_net_init`, `virtio_net_poll_rx` | `VirtioNet`, in `Autarky` |
| Autarky VM, `autarky_vm/src/` | environments and values of a contract; its heap is the DMA arena | parse, compile, `evaluate`, `autarky_execute` | `Autarky`, `AutarkyRules`; its heap in `VirtioSync` |
| MMU, `kernel/mmu.c`, `linker.ld` | three levels of tables | `mmu_init_tables` | not modelled, see section 7 |
| boot and vectors, `kernel/main.c`, `boot.S`, `vectors.S` | none | boot, trap, panic | the effect of a boot, in `Watcher` and `Fat32` |
| loader, dispatcher, GIC | tables nobody uses after the boot | | not modelled, see section 7 |

### How they interact

Everything runs on one core. The kernel never schedules and never takes an
interrupt: it polls. A system call runs in the kernel to its end and returns to
the shell, the only program. So what happens "at the same time" is only this:

* **The host** types commands and sends trades over the UART whenever it likes,
  and the user types on the VirtIO keyboard. The kernel sees either through its
  polls only, so the order of input and polls is arbitrary.
* **Devices** complete requests, or fail them, on their own. The keyboard and the
  network card fill buffers while one is being polled.
* **Power** may go away between any two writes to the disk. All but the disk
  starts afresh.

A request of the shell is `SYS_IPC_SEND`: `syscall_handler` does the work at
once (file system, evaluator, watcher) and puts its response into the mailbox. The
evaluator polls the network card when a contract reads the variable `POLL`, and
allocates from the arena that the block and GPU requests use.
The same mailbox takes key presses from `SYS_HW_DRAIN`. The shell then spins on
`SYS_IPC_RECV` until the response comes, without a timeout.

### What is hard, and what correctness is

* *Mailbox.* A ring without a counter, in which full and empty are told apart by
  leaving one slot free. It must be a FIFO. It drops silently when it is full.
* *Shell.* Key presses and responses share a queue that may be full. No response
  may be dropped (the shell would hang), none may be left over (responses have no
  request number). `trade.listen` reads the UART itself, with a timeout, after
  `SYS_HW_DRAIN` has read from the same UART: no two trades may be spliced, none
  may be duplicated or reordered.
* *Watcher.* Four indices move around one ring, and eviction may overtake the sync
  cursor. The dump must be the newest events; the ledger must hold no event twice
  and none out of order; a sync must end.
* *VirtIO block and GPU.* Two queues number their descriptors with one 16-bit
  counter, requests use the same addresses of the arena again and again, and the end
  of a request is an index that has changed. A device must find the request it is
  asked, whole; an answer must be that to this request; the arena must come back.
* *VirtIO keyboard.* The device fills buffers while one is being polled. Each must
  have one owner, and characters must come out as they were typed.
* *Network card and evaluator.* A packet counts as seen before its buffer goes back, buffers
  are never cleared, and the loop over the digits does not stop at the end of the packet: a
  poll must return the volume of the oldest packet, read from that packet alone. The
  evaluator recurses on the kernel stack, finds recursive functions through a tag, and
  computes in 64 bits what the ledger keeps in 32: its result must be what the text of the
  contract means.
* *FAT32.* One buffer serves for the FAT and for the directory; three writes make
  a file, two extend one, any may fail unnoticed, and power may fail between them;
  chains may be damaged. Files must not share clusters, must not lose bytes, and
  the operations must end.

`PROJECT.json` lists each hazard at its line, the properties that watch it, and
why the ones without a property have none yet.

## 2. Modules

```
MailboxFifo   what the mailbox promises          Watcher           Fat32
  ^        ^                                       ^  ^             ^  ^
  |        |                                       |  MCWatcher     |  MCFat32
 Mailbox  Shell  (composes with the FIFO)         Watcher_proofs   Fat32_proofs
  ^  ^     ^  ^
  |  |     |  MCShell
  |  |    Shell_proofs
  |  MCMailbox
 Mailbox_proofs

DiskService   what the block queue promises
  ^
VirtioSync          VirtioRx           VirtioNet
  ^  ^               ^  ^               ^
  |  MCVirtioSync    |  MCVirtioRx     Autarky  (composes with the network card)
  |                  |                  ^  ^
  |                  |                  |  MCAutarky
  |                  |                 AutarkyRules
  |                  |                  ^
VirtioSync_proofs   VirtioRx_proofs    Autarky_proofs
        \                  |                 /
         +--------- RingArithmetic ---------+
```

**MailboxFifo** is the abstract mailbox: a bounded sequence, a send that drops
when it is full, a receive that takes the oldest message or marks the caller's
buffer as empty.

**Mailbox** is the ring as the code has it. `SendStored`/`SendDropped` are the
two branches of `ipc_kernel_send`, `ReceiveMessage`/`ReceiveNothing` those of
`SYS_IPC_RECV`. The refinement reads the slots from head to tail as the queue.

**Shell** composes the shell, the system calls it makes, both input devices and
the FIFO (which the ring has been shown to implement). `pc` says where the shell
is: draining the keyboard, draining the UART, receiving, sending, in a wait
loop, or in one of the states of `trade.listen`. Every system call is a step;
`SYS_HW_DRAIN`, which polls in a loop, is a step per character, and it may end
early because `virtio_input_poll` returns 0 for a key release too. A command is
abstracted to its namespace, verb and whether it has arguments, and
`RequestOf` is the dispatch on them. Since the text of the line decides nothing
else, `Enter*` may pick any command. Characters of the host are numbered by
their position in `uart`, so that a captured line says which characters it
consists of. What is typed ahead while a response is awaited is thrown away by
the wait loop of the code, hence by `WaitResponse`. Not every request comes back: a contract may
panic, and the panic handler loops (`lib.rs:46`), it may run over the kernel stack, and what
contracts have taken of the arena is missing later, also to the transfers of the disk.
`MayNotReturn` says which requests these are; for them `RequestNeverReturns` and
`TradeNeverReturns` are alternatives to the response, and `Halted` is all that follows. When exactly
it happens is the matter of `Autarky` and `VirtioSync`.

**Watcher** keeps the ring and its four indices as `watcher_state_t` does. Events
are numbered in `history` in the order of logging. `LogIntoFree` and
`LogOverOldest` are the two cases of `watcher_log_event` (with and without
eviction). A sync is `SyncUpToDate`, or `SyncStart` followed by a step per slot:
`SyncSkip` for other events, `SyncEntry` and `SyncNewLine` for the two appends
of a commit. `sector` and `size` are `LEDGER.LOG`, character by character, as
`fs_append_file_content` makes it: `Appended` copies what fits behind the offset `size % SECTOR`,
cuts the rest and starts at the front of the sector when the file ends on its edge. `AppendFails`
has what a failed transfer leaves: nothing, data that no size counts, or a size that counts text
which was not written. Nobody is told. `Reboot` clears all but the ledger.

**Fat32** has one action per transfer of a sector, with the computation up to the
next transfer: `pc` names the transfer that comes next. `disk` holds what each
sector holds: the FAT, the directory, or bytes. `disk_buffer` and
`write_buffer` are the two static buffers. A failed read ends the operation; a
failed write changes nothing and nobody looks, which `missed` remembers for
the properties. `Reboot` keeps the disk.

**VirtioSync** has the driver and the device as two actors. The driver probes the devices in any
order, sets up the GPU with six commands (`InitScript`, with the framebuffer between
the second and the third) and then serves transfers and flushes. A request is
allocated (`CallTransfer`, `GpuCommand`), laid out in descriptors (`Submit`), published
(`Publish`) and awaited (`Await` with its four endings). The device takes the chain it
finds and answers it (`DeviceServes`), then counts it as used (`DeviceReports`). The
arena is a number and the blocks that are in use, with the sizes of the code. An evaluation
(`CallExecute`) takes from the same arena and gives nothing back. Caches are not modelled:
queues and requests lie in device memory.

**DiskService** is the disk as `fat32.c` sees it through `virtio_blk_read_sector` and
`virtio_blk_write_sector`: a transfer is asked for, carried out, and returns. It has no queue
and no arena, and nothing of the GPU. In `VirtioSync` a transfer is `asked` while `pc` is between
`submit` and the end of the wait, and `served` once the device's index is past
the chain (`Stage`); what the device read in the chain and in the request
(`served`) is the order that it has carried out (`CarriedOut`).

**VirtioRx** is `virtio_input_poll`, one step per access to the rings, against a device
that takes and fills buffers at any moment and in any order. An event is its class of key
and its value. The polls come from the shell's main loop, and `polling` says whether it is there:
after `ShellLeaves` (`trade.listen`, or a wait for a response that does not come) nobody
polls the keyboard, while its device goes on.

**VirtioNet** is `virtio_net_poll_rx`, again one step per access to the rings, against a card
that works at any moment. A buffer is a row of cells (a digit, the characters `38=`, or
anything else) and keeps what earlier packets left in it. `Volume` is the scan of the code:
the search for `38=` keeps to the packet, the loop over the digits does not.

**Autarky** is `autarky_execute` on a contract that has been parsed. `evaluate` is recursive,
so the model has a stack of frames: `mode` says whether the innermost activation has just been
called or an activation returns `Ok` or `Err`. There is one action for each
way an activation goes on: a literal, a variable, a first or further operand, the operators,
`Apply`, `Match`, `Let`, `LetRec`, `Unpack`, a returning body. The variable `POLL` runs the
steps of `VirtioNet`, between which the card goes on working. `Fault` and `Commit`
are the two ends of an execution, `ArithmeticPanics` and a full kernel stack the two ways it
has none. **MCAutarky** adds the contracts of the runs and a second semantics, by
substitution in the text, which has no environments, closures or tags.

**AutarkyRules** is `evaluate` in the shape it has in `vm.rs`, recursive: one rule for each kind of
arm. A judgement says of a call (environment, tree, polls answered so far) what it comes to and how
many polls have been answered by then; each rule says from which judgements, those of the calls
that the arm makes, it follows. Its property `EndsAsDerived` says that an execution of the machine
of `Autarky` ends in what the rules derive for the contract. A derivation may have any length, so TLC
cannot evaluate this property; it is proved. The two references are apart on purpose:
`ResultIsMeaning` asks TLC whether environments and closures are what substitution would
do, `EndsAsDerived` whether the machine, with its stack, its modes and the card in between, is
the function in the source.

**RingArithmetic** has no state. It has what the three VirtIO proofs need about rings and about
indices that wrap: `Window`, the buffers between two indices; `Owners`, the places of buffers
that together hold each buffer once, and the moves from one place to another that preserve
this; `Distance` between two indices modulo 2^16.

Some definitions are followed or preceded by a variant named for a mistake
(`SendStoredUnchecked`, `LogOverOldestTailKept`, `WriteFatForgotten`...), marked as
faulty in their comment. No action uses them. Each stands for a bug this code could
plausibly have, and putting it in the place of the definition makes TLC violate the
property that `PROJECT.json` names under `mutants`: they show that the properties
depend on the code.

## 3. Runs

| run | states | what it checks |
|---|---|---|
| `mailbox` | 8.5 k | `ImplementsFifo`: the ring of four slots is a FIFO of three messages, steps and initial states |
| `shell` | 737 k | the mailbox and `trade.listen`, see below |
| `watcher` | 709 k | the event ring and the ledger's sector, see below |
| `watcher_uptodate` | | finding 1, a violation |
| `fat32` | 86 k | the disk under failed transfers, power failures and damaged chains |
| `virtio_sync` | 120 k | requests, answers and the arena over boot, transfers, flushes and evaluations |
| `virtio_framebuffer` | | finding 4, a violation |
| `virtio_rx` | 53 k | the rings of the keyboard |
| `autarky` | 111 k | contracts and what they mean, with the network card they poll |
| `autarky_recursion` | | finding 5, a violation |
| `fat32_committed` | | finding 2, a violation |
| `fat32_persisted` | | finding 3, a violation |

**shell.** `AwaitedResponseIsQueued`: while the shell waits, the awaited response
is in the mailbox, once, behind key presses only. `NoStaleResponse`: outside the
wait loops there are key presses only. The silent drop in `ipc_kernel_send` never hits
a response, because a request is sent only when the mailbox has room: every drain is
followed by a receive (`RoomForResponse`, proved with the others).
`CapturedTradesAreUnspliced` and `TradesKeepHostOrder`: a captured trade is an
unbroken stretch of one line of the host, whatever the timeout, the buffer limits
and the change of modes do, and trades neither repeat nor overtake each other.
`EveryRequestIsAnswered`: once the kernel is back from a request, the wait for its answer ends; and
the kernel does come back from each request but a contract's and, after contracts, the disk's.

**watcher.** `DumpIsLatestEvents`, `RingShape`. `LedgerInOrderWithoutDuplicates`: the texts in
`LEDGER.LOG` are in the order of their commits, none twice, none with another one in between, while
the ledger fits its sector and no write of its data has failed unnoticed. Both conditions are
needed: at the edge of the sector the next text is cut or lands in front of the oldest one
(finding 3). `CompleteSyncCoversRing`: when a sync has reported success, each commit in the ring
stands in the ledger with all of its text, or its append has failed, while the ledger fits its
sector. `UpToDateBeforeWrap`: so it is when a sync reports that nothing is new, before the ring has been
full. `WedgedUntilBoot` (section 6), `SyncEnds`.

**fat32.** `SectorsKeepTheirKind`: the FAT is never written over the directory nor
the reverse, although both go through one buffer. `FilesOwnTheirClusters`: used
clusters are marked in the FAT and belong to one file, after a power
failure between any two writes too, provided no write of the FAT has failed
unnoticed. `FilesOnlyGrow`: a file that ends within its last sector keeps its entry
and its bytes. `TextsGoInWhole`: a new entry appears with all of its text, and such a file
is as before or has got all of what an append copies, after a power failure between any two
transfers too, unless a write of the data or of the FAT fails unnoticed. `DoneMeansOnDisk` is what
findings 2 and 3 leave of the driver's messages: an operation that runs to its end while no write has
failed has made a file of that name with that text, or the file that it found ends in the
text as far as the sector had room.
`OperationsAdvance`: each step of an operation leaves it fewer transfers and links to follow
(`Left`), so the guard is counted on every link of a damaged chain.
`OperationsEnd`: every operation ends.

**virtio_sync.** `BlocksAreApart`: what is in use at the same time in the arena lies apart
and inside the mapping. `ArenaIsRestored`: between calls the arena is as the boot
and the evaluations left it.
`DeviceFindsRequest`: what a device finds in a queue is the request being made now,
whole, on its own descriptors, in memory still allocated. `ServesTransfers`: the block queue
implements `DiskService`. Each transfer is carried out once, with the sector, buffer and direction
of the call and while the call runs, and it returns the device's word on it; a call fails without a
device's word only where there is no disk. `CallsReturn`: no index is missed.

**virtio_rx.** `BuffersHaveOneOwner`: each buffer is available, with the device, used and
unpolled, or in the hand of the poll. `CharactersAsTyped`: a poll returns the
character of the oldest event, in the case of shift when it was typed, for one
shift key that sends no repetitions (the code clears `shift_active` on a repetition, and has
one flag for two keys). `DeviceGetsBuffers`: a keyboard without buffers gets one back, unless the
shell leaves its main loop first.

**autarky.** `RxBuffersHaveOneOwner`: as for the keyboard, although the buffer is handed back
after the packet was counted. `PolledInOrderOfArrival`: the n-th poll that finds a packet
returns the volume of the n-th packet, and nothing that an older packet left behind it in the
buffer, when some other character follows the volume, as in a FIX message. `ResultIsMeaning`: the
value that goes to the response and the volume that goes to the ledger are those of the
contract's text, by the substitution semantics, given what the polls returned; faults and
the panic of Rust on the smallest integer divided by -1 happen where they must. It is for
contracts in which each `let rec` names a function of its own (`Conventional`).
`EvaluationAdvances`: with each of its steps an execution gets further in an order of the places it
can be at (`Progress`, the operands that each activation has, from the bottom of the stack to the
top), and the card never moves it: no arm is run again in its activation, and no call takes the
place of another, as a body evaluated in the frame of its caller would.
`EvaluationEnds`: `autarky_execute` returns from every contract whose recursion its text bounds and
whose arithmetic has a result (`Returning`). An overrun of the stack and a panic are no returns. The two
contracts left out come to these: one calls itself for each poll without a packet, the
other divides the smallest integer by -1.

### Bounds, and why they are enough

* Mailbox: four slots, two types, two payloads. The state space is finite without a
  bound on behaviours, so full, empty and every wrap occur.
* Shell: a mailbox of two messages is filled by two keys, so a drain does meet a full
  mailbox. `CMD_MAX_LEN` and `LINE_MAX` of 3, `DATA_MAX` of 2: both
  limits are reached, in an order that keeps the code's relation (242 < 255).
  `TIMEOUT_MAX` of 1 lets the timeout fire with and without a partial line. `MaxKeys`
  of 2 and `MaxUart` of 5 characters allow two trades, or one behind a command. The
  write request is the one both modes use, and it returns for certain only before the first
  contract; the contract is the other, which shows that types are not confused. The other
  four requests have the same wait loop and return as the write does.
* Watcher: a ring of 3 and 6 events, so that it is evicted over a whole turn, at every
  position of cursor and running sync; one reboot at any step and two failed appends. Texts of one
  and two characters and a sector of 6, so that two entries fit with their newlines, and the third is
  cut, ends on the edge, or begins at the front of the sector, in each place of the text. The
  code's texts have up to 63 characters, so a sector of 512 takes eight or more.
* Fat32: sectors of 3 bytes, four data clusters (one of them the root directory's),
  three directory entries, two names, texts of one and two bytes. Four disks: freshly
  formatted; a file of two clusters behind a deleted entry; an empty file, which
  has no cluster; a file whose chain is a circle. Three operations and one fault
  (failed transfer or power failure) at any transfer. Two faults pass too, in a longer
  run. Clusters, entries and the room in a sector run out within three operations.

* VirtioSync: queues of four descriptors and indices that wrap at eight, so chains of
  two and three wrap at every position, in descriptors and in indices; four calls,
  with and without each device; displays without a size, with one that fits and with
  one that does not. `virtio_framebuffer` has the sizes of the code.
* VirtioRx: two buffers, indices that wrap at four. There is no bound on the number of
  events. The device gets three entries ahead of the driver, which is why an index needs
  more values than the ring has slots (`RingAssumption`).
* Autarky: two buffers of three cells, indices that wrap at four and four packets, so that each
  buffer is used twice, by packets shorter and longer than the one before: with a volume
  in front, with a volume at the end, without one. Contracts for each kind of node, for
  scopes, closures, recursion inside recursion, each fault, and numbers at the limits;
  integers of 12 bits and volumes of 3 wrap as those of 64 and 32 bits do. `MAX_DEPTH`
  of 13 activations is more than all contracts need but the one that waits for a packet by
  recursion, which thereby reaches the end of the stack. `autarky_recursion` has 40, and a contract
  that needs no packet. One execution: nothing but the card's
  rings is kept from one to the next, and polls of one contract follow each other.

The bounds on input, events, boots, operations and faults (`Max...`) are guards of
the actions that consume them and change nothing else. The sizes of rings and
buffers are parameters, and the proofs hold for all of them.

### Fairness

* `Shell`: `WF_vars(Next)`. The shell is a loop that never blocks, on a core that
  nothing else uses; the action that is enabled is taken. A poll may find nothing for
  ever: no property needs the host to send.
* `Watcher`: `WF_vars(SyncStep)`, `Fat32`: `WF_vars(Step)`. A sync and a file
  operation run in the kernel to their ends. Beginning one is not fair, and neither is
  a reboot or a failed transfer.

* `VirtioSync`: `WF_vars(DriverStep)` and `WF_vars(DeviceStep)`: the driver polls without
  a pause, and a device answers what it is asked. This is an assumption about the
  device; without it the code, which has no timeout, hangs.
* `VirtioRx`: `WF_vars(Poll)`, for the shell's main loop polls in each turn. No poll begins once
  the shell has left that loop (`polling`), so the fairness asks nothing of `trade.listen`, which
  never polls the keyboard; a poll that has begun goes on in the kernel. The device is not
  fair: nobody needs to type. The system may stop when the shell has left and all buffers are filled,
  so this run does not look for deadlocks.
* `Autarky`: `WF_vars(MachineStep)`. An evaluation runs in the kernel to its end. Neither the
  card nor the network is fair.

`Fat32` takes a transfer for one step that ends with or without an error. `CallsReturn` shows that
a transfer ends, and `ServesTransfers` that its caller sees one step of the device.

## 4. Proofs

TLAPS checks the following for every value of the constants, under the assumptions
named in the modules: sizes are positive numbers, `NONE` is no type of a queued message,
the shell uses the requests the code knows, an index has more values than its ring has slots
(two more for the keyboard, `RingAssumption`), and a disk that is mounted has its sectors in their
places, no chain that leads into the directory, first two FAT entries that are no links (they
hold the media type and the end mark), and no two files in one chain (`ImageAssumption`).

* `Mailbox_proofs`: `MailboxTypeCorrect`, `MailboxImplementsFifo`. The refinement
  splits on whether `ipc_tail` has wrapped; `CountRange` and `SlotAtRange` turn the
  modulo into a case distinction, and `StoredIsAppended` and `ReceivedIsHead` map the
  two actions that change the ring to those of the FIFO.
* `Shell_proofs`: `ShellTypeCorrect`, and `ResponseNeverDropped`,
  `NoResponseLeftOver`, `ResponseHasRoom`. None of the last three is inductive by
  itself. The invariant `MailInv` is their conjunction: a response fits because of
  `RoomForResponse`, is unique because of `NoStaleResponse`, and stays last because
  nothing is sent while the shell waits. A request that does not return sends nothing, so it
  disturbs none of them. `TradesAreUnspliced` and `TradesAreInOrder` come
  from `TradeInv`: the characters of the line being captured are a `Stretch` of the UART's
  input that ends at the last one read and lies behind all trades captured so far. `WaitsGetOn`
  needs only that the mailbox of a waiting shell is not empty; it speaks of the steps that there are,
  and from a request that never returns there are none that go on. `ShellUsesMailbox` closes the chain to
  the ring: all that the shell, its devices and its requests do to `mailbox` and `rx` is a behaviour
  of `MailboxFifo`, which `MailboxImplementsFifo` is about.
* `Watcher_proofs`: `WatcherTypeCorrect`, `DumpShowsLatest`, `RingKeepsShape`,
  `LedgerIsIdempotent`, `WedgedForGood`. The invariant `IInv` adds what connects the
  ring with the ledger. `Pos(s)` is the distance of slot `s` from the tail, where the
  head counts as the end also when the ring is full, as in `watcher_sync_to_disk`;
  `Number(p)` is the event in that place. `LedgerBound` says that the ledger, while it fits its
  sector and no write was missed, holds only characters of events before the cursor, or before the
  slot a running sync is at. Order and
  uniqueness follow, since every text appended is of the event in that slot, and goes behind the
  offset, which is then the size, so it touches no character that counts. An
  eviction advances tail and cursor together, hence moves every distance by one; the
  arithmetic of that is stated as lemmas about numbers (`Place`, `Wrap`) before
  it is used. `WedgedForGood` is an action property and follows from `IInv` step by step.
  `CompleteIsComplete` and `UpToDateWithRoom` need the other direction, `Cover`: while the ledger
  fits its sector, each commit in the ring before the cursor, or before the slot of a running sync,
  stands in it with its whole text or its append has failed. A later append keeps it there, because
  sizes only grow and the sector changes only behind them. `SyncsGetOn` counts with `Pos` again.
* `VirtioSync_proofs`: `VirtioTypeCorrect`, `AllocationsLieApart`, `SnapshotRestoresArena`,
  `ChainsAreRequests`, `AnswersAreNotStale` (between calls the result is the device's word on the last
  transfer, and nothing is in flight), from one invariant. `Shapes` and `Phases` are types
  and what goes with each `pc`; `Kept` says what of the arena outlives the
  running call; `OneChain` that at most one request is on its way, in one queue, and the
  other queue is quiet; `Requested`, `Served` and `Returned` follow this request from its
  descriptors to the device's answer and to the result. A chain has at most three descriptors
  of consecutive numbers, which are different slots over every wrap (`SlotsAreDistinct`).
  `TransfersAreServed` is the refinement of `DiskService`, step by step: a call asks unless the arena
  is full, the device's step on the block queue is `Serve` by `ChainAtDevice` and `Served`, the end
  of a wait is `Return` by `Awaits`, and every other step of the boot, the GPU, the evaluations and
  the device leaves the service as it is, but for the one that finds the disk.
* `VirtioRx_proofs`: `KeyboardTypeCorrect`, `KeyboardBuffersHaveOneOwner`, `PollsReturnWhatWasTyped`.
  `Circulate` states the ownership of buffers by the `Owners` of `RingArithmetic`; each step is one
  of the moves proved there. `Counted` and `Characters` connect the unpolled entries with the
  history of events, the last under `NoShiftRepeats`, as `CharactersAsTyped` has it.
* `Autarky_proofs`: `NetBuffersHaveOneOwner` and `PollsAnswerInOrder`, for whatever
  contracts do. `Circulate` is as above; `Waiting` says that the k-th unpolled entry
  holds the k-th unpolled packet in the front of its buffer, and `Answered` what the
  polls have returned. `DryCardGetsOn`: when the card has no buffer, all of them wait to be polled, since
  each has one owner; so the next `POLL` finds a packet and hands its buffer out. The volume of a buffer is that of the packet in front of it
  (`VolumeOfPacket`), which needs `Number`, a recursive function, to depend on the digits of the
  packet only. `ContractsTypeCorrect` is about the evaluator, under every set of contracts that
  are trees with the fields of `IrNode` (`ContractAssumption`). A closure holds an environment of
  values, so no set known beforehand holds all values of a run; the invariant `MachineInv` says
  that in each state some set of values, closed under taking parts (`Values`), holds what
  the machine holds, and each step enlarges it by at most a value (`AddValue`).
  `ContractsEndAsDerived` is about what the evaluator computes. Its invariant `Derives` is the
  correspondence of the stack with calls of `evaluate` (`Track`): the bottom frame is in
  the call that `autarky_execute` made, each frame waits (`Awaits`) for the call
  that the frame above it is in, with judgements already derived for its operands, and the
  innermost call is about to begin, has been derived to return, or the failure of the whole contract
  has been derived. A returning activation adds one judgement (`TrackOk`); an `Err` adds one
  for each frame from the top to the bottom (`FailureFalls`), which is why the machine may
  drop them all in a step. More answers to `POLL` invalidate no earlier judgement
  (`FollowsLonger`). `EvaluationIsDeterministic` compares two derivations, judgement by judgement, so
  the two theorems together determine the end of an execution by the contract and the
  answers to its polls. `EvaluationsAdvance` and `NoEndlessEvaluation` are why there is an end: a step
  either raises the number of operands of the frame that goes on, or returns to a frame, or
  pushes one on an activation that had just been called (`CallAdvances`, `OkAdvances`). `Progress`
  compares as in a dictionary. The order of all sequences of numbers is not well-founded, and
  the argument needs the limits on both: a place has at most `MAX_DEPTH + 2` numbers up to 4
  (`ExecutionsHavePositions`, from `MachineInv`). In an endless sequence the first number would settle,
  then the second (`OneMoreSettles`), then one beyond the limit.
* `Fat32_proofs`: `DiskTypeCorrect`, `SectorsStayWhatTheyAre`, `FilesDoNotShareClusters`,
  `FilesKeepTheirBytes`, `TextsAreWhole`, `DoneIsOnDisk`, `OperationsGetOn`. The invariant says what each sector holds (`Kinds`)
  and what each buffer holds at each `pc` (`Underway`). Ownership (`Owning`) is a function from clusters to entries:
  a cluster that has been taken is nobody's until its entry is written, and says so in the FAT
  already. `Laid` says that this cluster holds the text when the entry is written. `Extending`
  says where a running append stands: its offset is the size of the entry, its cluster belongs to
  the entry, and once the walk is over it is the last of its chain. A file that ends within
  its last sector has as many clusters as its chain (`ChainOfFile`), and its bytes in the last
  one lie in front of the offset (`PlaceOfByte`), so the append touches none of them, and ownership keeps every
  other file out of its way.
  `Appending` follows the text: the walk of an append stays on the chain of the file it found
  (`NextInChain`) and can only end at its last cluster (`LastOfChain`); there the text is behind the
  offset before the entry grows, by as much as was copied. So the new bytes of the file are those of the
  text, one by one (`SectorBehind`, `OffsetBehind`, `GrowsByText`), and no other step changes a size.
  `OperationsGetOn` is about time: what an operation has left, at most
  `max_valid_clusters + 7` transfers and links (`OperationsAreBounded`), gets less with each of its
  steps; in the walk, because the guard is below its limit whenever a link is followed (`Counters`).

What recursive functions compute (`Nth`, the chain of a file; `Number`, the value of digits) is
proved from the existence of such a function, which follows from that of a least counterexample
(`ChainExists`, `SumExists`).

### What comes to an end

The prover has no ENABLED and no fairness, so the six liveness properties stay with TLC. What their
counterexamples would be made of is proved: what is left is a natural number (for the
evaluator, a place in an order without endless ways up), and each step, whoever takes it, lowers it.

| checked by TLC | proved | what is left |
|---|---|---|
| `EveryRequestIsAnswered` | `WaitsGetOn` | the messages in the mailbox, of which the last is the response |
| `SyncEnds` | `SyncsGetOn` | two appends for each slot between `current` and `head` |
| `OperationsEnd` | `OperationsGetOn` | transfers, and links that the cycle guard still allows |
| `CallsReturn` | `CallsGetOn`, `AwaitedAnswersComing` | steps of driver and device for the request, seven for each command behind it |
| `DeviceGetsBuffers` | `DryKeyboardGetsOn` | while the shell is in its main loop, steps of the poll, which alone can move and finds an event (`DryIsFilled`) |
| `EvaluationEnds` | `EvaluationsAdvance`, `NoEndlessEvaluation` | the way up in the order of `Progress`, at whose end is a return, a panic or the overrun of the stack |

`AwaitedAnswersComing` is the absence of a lost wakeup: while the driver polls, the answer is in the
used ring, or the device has still to report it, or the request is in the available ring and
its device was found at boot (`GpuIsThere`). `CallsGetOn` rests on `OneChain`: an index that is one
ahead differs, because it has more than one value (`AdvanceValue`), over the wrap too.
For the others, that some step is possible until the end is left to TLC. The measures `Unanswered`,
`ToWrite`, `Remaining` and `ToPublish` are in the proof modules; `Left` and `Progress` are in the
modules, where the runs `fat32` and `autarky` check them as well.

Only model-checked, then: fairness and what follows from it; and `ResultIsMeaning` of
`MCAutarky`, because its reference semantics is a recursive operator.

## 5. Abstractions

* **Texts.** A message is its type and a payload of a small set. Texts of a write are
  at most 255 bytes, for a payload has no more (`Len(d) < SECTOR`).
* **Chains.** A cluster is one sector, as `mkfs.fat` formats a small image. The driver
  looks at one FAT sector (128 entries) and one directory sector (16 entries);
  `FAT_ENTRIES` and `DIR_ENTRIES` are those. Chains that lead out of the first FAT
  sector are not modelled.
* **Reads.** `fs_read_file_content` is modelled by its walk and how it ends, not by the bytes it
  copies: those may come from behind the sector or, after a failed transfer, be
  uninitialised. `PROJECT.json` lists both as hazards.
* **Cluster 0.** An append to an empty file computes a sector in front of the data
  area, which is the last sector of the FAT copies; the model has it as `FatTail`.
* **The mount** is not an action: the geometry is fixed and a boot succeeds. After a failed
  mount the code goes on with a geometry of zeros, and the first write overwrites the boot
  sector; `PROJECT.json` lists this as a hazard.
* **Contracts.** The input of `Autarky` is the tree that the parser and `erase_proofs` make of
  a text. A float is a literal without a value: no operator takes one. The hash of a
  receipt is left out. A kernel stack is a number of activations, all of one size.
* **Packets** are rows of cells; what is tested of them is where `38=` is and where digits end.
  Rows do not run into each other, since each buffer begins with the zeros of a virtio header.
  The characters `38=` are one cell, so the model has no packet that ends within them, in `3` or
  `38`, and finds the rest of the tag in what an older packet left behind it in the buffer.
  A volume of too many digits overflows an `int`, which C leaves undefined; the model wraps, as
  the instructions of the build do.

## 6. Findings

1. *A full ring is "up to date"* (`watcher_uptodate`, `watcher.c:155`). The cursor equals
   the head both when nothing is new and when 64 events, commits among them, were logged
   without a sync. The second case reports "Ledger is up to date" over an empty ledger. `WedgedUntilBoot`,
   checked and proved, says what follows: the same state is reached after a sync
   of a full ring, from then on each event pushes the cursor along with the head, and
   nothing reaches `LEDGER.LOG` until the next boot.
2. *"Write committed to disk."* (`fat32_committed`, `syscall.c:149`) is the answer to every write. A
   write of an existing name makes a second entry of that name; after 16 entries,
   or 126 clusters, writes change no file, and each one takes a cluster that is
   lost. `trade.listen` writes one `TRADES.LOG` per trade.
3. *"new entries persisted."* (`fat32_persisted`, `watcher.c:183`). An append copies only what fits into the last
   sector and adds no cluster; at the edge of a sector it overwrites the
   sector from its start, the oldest entries of the ledger first. `LEDGER.LOG` then has later commits
   in front of earlier ones, and what is left of a text that was cut or half overwritten. `FilesOnlyGrow`
   of `Fat32` therefore speaks of files that end within their last sector, and the properties of
   `Watcher` of a ledger that fits its sector.

4. *"Up to 4MB of framebuffer"* (`virtio_framebuffer`, `virtio.c:145`). `mmu.c:26` has tables for so
   much, but `gpu_init` takes the framebuffer from the arena of 4 MB that also holds the
   queues, and `bump_allocate` has no limit: the boot ends in a fatal exception. With
   the default of 1280 x 800 the boot fits, in every order of the devices.

5. *"Re-inject self for infinite recursion without stack overflow"* (`autarky_recursion`,
   `vm.rs:106`, the comment at line 102). The closure is re-injected, but `evaluate` calls
   itself for the body, and its activation stays on the stack. `let rec f = \n. f n in f 0` goes on
   until the kernel stack runs into the data below it. Nothing else would end it: `os_autarky.h`
   declares a "Gas Limit to prevent EL1 kernel lockup", `ATK_GAS_LIMIT`, which nothing reads, and
   `autarky_execute` returns 1500 for each contract that is evaluated.

## 7. Not modelled, and why

* Drawing, fonts and screen layout: output only, no state that another part reads.
* `kernel/loader.c`, `include/os_dispatcher.h`, `kernel/gic.c`: the boot does not call
  the loader or the dispatcher, and no interrupt is used once the GIC is set up.
* `kernel/mmu.c`, `linker.ld`: tables that straight-line code fills once, before anything
  else runs. The end of the mapped arena is in `VirtioSync`, the order of stack and data in finding 5.
* The parser (`parser.rs`, `ast.rs`): a function from texts to trees without state; `abi.rs` has no
  caller.
* `u64_to_hex_str`, `i32_to_dec_str`, `format_fat_name`: what a receipt or a name looks like decides
  nothing else. The smallest volume, which `i32_to_dec_str` cannot negate, is a hazard in
  `PROJECT.json`.
* `SYS_GPU_FLUSH` and the requests' way through `syscall_handler` to disk and watcher are in
  `VirtioSync`, `Fat32` and `Watcher` by themselves. They are not composed into one module: a call
  runs to its end in the kernel, so nothing of the shell happens during it, and each part leaves
  all state of the others alone. Where one depends on another, it has the other's effect: `Watcher`
  has the append of the driver, one step for each outcome of its transfers, with its cut and its
  return to the front of the sector; `Shell` has requests that do not return. So the order of the
  ledger is shown for a ledger within its sector and for no other, as no other keeps it. What stays
  apart: a write of the name `LEDGER.LOG` by the user, and an append that finds its directory
  entry damaged.
* Handshakes of the devices (feature bits, queue addresses): straight-line code of the boot.
* `virtio.c` in the root, `kernel/syscall_matrix.c`, `kernel/mmu_snippet.c`,
  `kernel/autarky.c.deleteme`: earlier versions that the Makefile does not build.
* `director.py`, `phase9_daemon.py`, `push_trades.sh`, `tools/`: programs of the host.
  What they send is the input of `Shell`.

## 8. Possible extensions

* The module loader, once the boot calls it.
* A ledger of several sectors, once `fs_append_file_content` adds clusters.
* Caches, for a board whose device memory is not coherent: `cache_flush` of `virtio_input_poll`
  cleans the wrong address (a hazard in `PROJECT.json`).
