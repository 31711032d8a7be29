-------------------------- MODULE VirtioSync_proofs --------------------------
(***************************************************************************)
(* For every size of queue, index and arena, and any number of calls: what *)
(* is allocated lies apart, the arena is restored, a device finds the      *)
(* request that is being made, and a transfer returns the answer to it.    *)
(* With that the block queue implements DiskService.                       *)
(***************************************************************************)
EXTENDS VirtioSync, RingArithmetic

(***************************************************************************)
(* The inductive invariant.                                                *)
(***************************************************************************)
Command == [what : {"info", "create", "attach", "scanout", "tx", "flush"}, size : Nat, resp : Nat]

\* What TypeOK leaves open: the fields of a call, a script and an answer.
Shapes ==
    /\ \/ call = Boot \/ call = Flush \/ call = Execute
       \/ \E type \in {"in", "out"}, sector \in Sector, buffer \in Buffer :
                call = Transfer(type, sector, buffer)
    /\ script \in Seq(Command)
    /\ call = Flush => \A i \in 1 .. Len(script) : script[i].what # "create"
    /\ answer \in [at : Nat, value : {"zero", "unset", "ok", "error"}]

\* Which call the driver can be in where.
Phases ==
    /\ pc \in {"probe", "framebuffer"} => call = Boot
    /\ pc = "gpu_command" => call = Boot \/ call = Flush
    /\ pc \in Busy => call # Execute
    /\ pc \in {"gpu_command", "framebuffer"} => script # << >>
    /\ (pc \in Busy /\ call.kind # "transfer") => script # << >>
    /\ call.kind = "transfer" => "blk" \in found

\* What is kept lies below kept_heap, and a call goes back to it.
Kept ==
    /\ (pc = "ready" \/ call # Boot) =>
            \A b \in live : b.owner # "call" => b.at + b.size <= kept_heap
    /\ (pc # "ready" /\ call = Boot) => \A b \in live : b.owner # "call"
    /\ pc = "ready" => heap = kept_heap /\ \A b \in live : b.owner # "call"
    /\ call.kind \in {"transfer", "flush"} => heap_save = kept_heap
    /\ kept_heap <= heap

Quiet(k) ==
    /\ dev_idx[k] = avail[k].idx /\ used_idx[k] = avail[k].idx
    /\ last_used_idx[k] = avail[k].idx

\* At most one chain is under way, in the queue of the running call.
OneChain ==
    /\ \A k \in Queue : (pc # "await" \/ k # Target) => Quiet(k)
    /\ pc = "await" =>
            /\ avail[Target].idx = Advance(last_used_idx[Target], 1)
            /\ used_idx[Target] \in {last_used_idx[Target], dev_idx[Target]}
            /\ dev_idx[Target] \in {last_used_idx[Target], avail[Target].idx}

ChainIsRequest(k) ==
    /\ Len(Chain(k)) = Len(Parts)
    /\ \A i \in 1 .. Len(Parts) : /\ Chain(k)[i].addr = Parts[i].addr
                                  /\ Chain(k)[i].flags = Parts[i].flags

\* The request is in the arena, and in the queue until the device has taken it.
Requested ==
    /\ pc \in Busy => /\ \E b \in live : b.at = request.at
                      /\ \E b \in live : b.at = answer.at
                      /\ call.kind = "transfer" => request.what = call.what
    /\ (pc = "publish" \/ (pc = "await" /\ dev_idx[Target] = last_used_idx[Target]))
            => ChainIsRequest(Target)

Served ==
    (pc = "await" /\ dev_idx[Target] # last_used_idx[Target] /\ call.kind = "transfer") =>
        /\ served.what = call.what
        /\ served.data = {<<call.buffer,
                            IF call.what[1] = "in" THEN {"NEXT", "WRITE"} ELSE {"NEXT"}>>}
        /\ answer.value = served.value

Returned ==
    (pc = "ready" /\ call.kind = "transfer") =>
        /\ served.what = call.what
        /\ served.data = {<<call.buffer,
                            IF call.what[1] = "in" THEN {"NEXT", "WRITE"} ELSE {"NEXT"}>>}
        /\ result = (IF served.value = "ok" THEN "ok" ELSE "failed")

IInv ==
    /\ TypeOK /\ Shapes /\ Phases
    /\ BlocksAreApart /\ Kept
    /\ OneChain /\ Requested /\ Served /\ Returned

(***************************************************************************)
(* The arena.                                                              *)
(***************************************************************************)
\* One or two blocks, one behind the other, above what is taken.
Placed(blocks) ==
    /\ Len(blocks) \in {1, 2}
    /\ \A n \in 1 .. Len(blocks) : blocks[n] \in [at : Nat, size : Nat]
    /\ heap <= blocks[1].at
    /\ Len(blocks) = 2 => blocks[1].at + blocks[1].size <= blocks[2].at

LEMMA AlignUpValue ==
    ASSUME NEW addr \in Nat, NEW align \in Nat \ {0}
    PROVE  AlignUp(addr, align) \in Nat /\ addr <= AlignUp(addr, align)
<1>1. addr % align \in 0 .. align - 1
  BY ModRange
<1>2. QED
  BY <1>1 DEF AlignUp

LEMMA BumpValue ==
    ASSUME NEW curr \in Nat, NEW size \in Nat, NEW align \in Nat \ {0}
    PROVE  /\ bump_allocate(curr, size, align) \in [at : Nat, size : Nat]
           /\ curr <= bump_allocate(curr, size, align).at
  BY AlignUpValue DEF bump_allocate

LEMMA OneBlock ==
    ASSUME heap \in Nat, NEW size \in Nat, NEW align \in Nat \ {0}
    PROVE  Placed(Allocate(<<size>>, <<align>>)) /\ Len(Allocate(<<size>>, <<align>>)) = 1
<1> DEFINE first == bump_allocate(heap, size, align)
<1>1. first \in [at : Nat, size : Nat] /\ heap <= first.at
  BY BumpValue
<1>2. Allocate(<<size>>, <<align>>) = <<first>>
  BY DEF Allocate
<1> HIDE DEF first
<1>3. Len(<<first>>) = 1 /\ <<first>>[1] = first
  OBVIOUS
<1>4. Placed(<<first>>)
  BY <1>1, <1>3 DEF Placed
<1>5. QED
  BY <1>2, <1>3, <1>4, Zenon

LEMMA TwoBlocks ==
    ASSUME heap \in Nat, NEW s1 \in Nat, NEW s2 \in Nat,
           NEW a1 \in Nat \ {0}, NEW a2 \in Nat \ {0}
    PROVE  /\ Placed(Allocate(<<s1, s2>>, <<a1, a2>>))
           /\ Len(Allocate(<<s1, s2>>, <<a1, a2>>)) = 2
<1> DEFINE first  == bump_allocate(heap, s1, a1)
           second == bump_allocate(first.at + first.size, s2, a2)
<1>1. first \in [at : Nat, size : Nat] /\ heap <= first.at
  BY BumpValue
<1>2. second \in [at : Nat, size : Nat] /\ first.at + first.size <= second.at
  <2>1. first.at + first.size \in Nat
    BY <1>1
  <2> HIDE DEF first
  <2>2. QED
    BY <2>1, BumpValue
<1>3. Allocate(<<s1, s2>>, <<a1, a2>>) = <<first, second>>
  BY DEF Allocate
<1> HIDE DEF first, second
<1>4. /\ Len(<<first, second>>) = 2
      /\ <<first, second>>[1] = first /\ <<first, second>>[2] = second
  OBVIOUS
<1>5. Placed(<<first, second>>)
  BY <1>1, <1>2, <1>4 DEF Placed
<1>6. QED
  BY <1>3, <1>4, <1>5, Zenon

\* What is new lies apart from what is there, and nothing that is there goes.
LEMMA TakeApart ==
    ASSUME TypeOK, BlocksAreApart, pc # "panic",
           NEW blocks, Placed(blocks), NEW owner \in {"boot", "call", "vm"}, NEW next,
           Take(blocks, owner, next)
    PROVE  /\ heap' \in Nat /\ live' \subseteq Block /\ pc' \in {next, "panic"}
           /\ BlocksAreApart'
           /\ \A b \in live' : b \in live \/ b.owner = owner
           /\ \A b \in live' : b.at + b.size <= heap'
           /\ heap' = End(blocks) /\ heap <= heap'
           /\ \E b \in live' : b.at = blocks[1].at
           /\ Len(blocks) = 2 => \E b \in live' : b.at = blocks[2].at
<1> DEFINE new(n) == [at |-> blocks[n].at, size |-> blocks[n].size, owner |-> owner]
<1>1. heap \in Nat /\ live \subseteq Block /\ HEAP_SIZE \in Nat
  BY ArenaAssumption DEF TypeOK
<1>2. /\ Len(blocks) = 1 \/ Len(blocks) = 2
      /\ \A n \in 1 .. Len(blocks) : blocks[n] \in [at : Nat, size : Nat]
      /\ heap <= blocks[1].at
      /\ Len(blocks) = 2 => blocks[1].at + blocks[1].size <= blocks[2].at
  BY DEF Placed
<1>3. \A b : b \in live' <=> b \in live \/ \E n \in 1 .. Len(blocks) : b = new(n)
  <2>1. live' = live \cup {new(n) : n \in 1 .. Len(blocks)}
    BY DEF Take
  <2> HIDE DEF new
  <2>2. QED
    BY <2>1
<1>4. /\ heap' = End(blocks) /\ End(blocks) \in Nat
      /\ \A n \in 1 .. Len(blocks) : blocks[n].at + blocks[n].size <= End(blocks)
      /\ heap <= End(blocks)
  <2>1. CASE Len(blocks) = 1
    <3>1. blocks[1].at \in Nat /\ blocks[1].size \in Nat /\ 1 .. Len(blocks) = {1}
      BY <1>2, <2>1
    <3>2. End(blocks) = blocks[1].at + blocks[1].size
      BY <2>1 DEF End
    <3>3. QED
      BY <1>1, <1>2, <3>1, <3>2 DEF Take
  <2>2. CASE Len(blocks) = 2
    <3>1. /\ blocks[1].at \in Nat /\ blocks[1].size \in Nat /\ 1 .. Len(blocks) = {1, 2}
          /\ blocks[2].at \in Nat /\ blocks[2].size \in Nat
      BY <1>2, <2>2
    <3>2. End(blocks) = blocks[2].at + blocks[2].size
      BY <2>2 DEF End
    <3>3. QED
      BY <1>1, <1>2, <2>2, <3>1, <3>2 DEF Take
  <2>3. QED
    BY <1>2, <2>1, <2>2
<1>5. \A n \in 1 .. Len(blocks) :
            /\ new(n) \in Block /\ new(n).owner = owner
            /\ new(n).at = blocks[n].at /\ new(n).size = blocks[n].size
  BY <1>2 DEF Block
<1> HIDE DEF new
<1>6. live' \subseteq Block
  BY <1>1, <1>3, <1>5
<1>7. \A b \in live : b.at + b.size <= heap /\ b.at \in Nat /\ b.size \in Nat
  BY <1>1 DEF BlocksAreApart, Block
<1>8. \A b \in live' : b.at + b.size <= heap'
  <2> SUFFICES ASSUME NEW b \in live'
               PROVE  b.at + b.size <= heap'
    OBVIOUS
  <2>1. CASE b \in live
    BY <1>1, <1>4, <1>7, <2>1
  <2>2. CASE b \notin live
    <3>1. PICK n \in 1 .. Len(blocks) : b = new(n)
      BY <1>3, <2>2
    <3>2. QED
      BY <1>4, <1>5, <3>1
  <2>3. QED
    BY <2>1, <2>2
<1>9. \A b, c \in live' : b # c => b.at + b.size <= c.at \/ c.at + c.size <= b.at
  <2> SUFFICES ASSUME NEW b \in live', NEW c \in live', b # c
               PROVE  b.at + b.size <= c.at \/ c.at + c.size <= b.at
    OBVIOUS
  <2>1. CASE b \in live /\ c \in live
    BY <2>1 DEF BlocksAreApart
  <2>2. ASSUME NEW n \in 1 .. Len(blocks)
        PROVE  heap <= blocks[n].at
    BY <1>1, <1>2
  <2>3. CASE b \in live /\ c \notin live
    <3>1. PICK n \in 1 .. Len(blocks) : c = new(n)
      BY <1>3, <2>3
    <3>2. b.at + b.size <= c.at
      <4>1. heap <= c.at /\ c.at \in Nat
        BY <1>2, <1>5, <2>2, <3>1
      <4>2. QED
        BY <1>1, <1>7, <2>3, <4>1
    <3>3. QED
      BY <3>2
  <2>4. CASE c \in live /\ b \notin live
    <3>1. PICK n \in 1 .. Len(blocks) : b = new(n)
      BY <1>3, <2>4
    <3>2. c.at + c.size <= b.at
      <4>1. heap <= b.at /\ b.at \in Nat
        BY <1>2, <1>5, <2>2, <3>1
      <4>2. QED
        BY <1>1, <1>7, <2>4, <4>1
    <3>3. QED
      BY <3>2
  <2>5. CASE b \notin live /\ c \notin live
    <3>1. PICK n, m \in 1 .. Len(blocks) : b = new(n) /\ c = new(m)
      BY <1>3, <2>5
    <3>2. n # m /\ Len(blocks) = 2
      BY <1>2, <3>1
    <3>3. QED
      BY <1>2, <1>5, <3>1, <3>2
  <2>6. QED
    BY <2>1, <2>3, <2>4, <2>5
<1>10. pc' \in {next, "panic"} /\ (pc' # "panic" => heap' <= HEAP_SIZE)
  BY DEF Take
<1>11. BlocksAreApart'
  BY <1>8, <1>9, <1>10 DEF BlocksAreApart
<1>12. /\ \E b \in live' : b.at = blocks[1].at
       /\ Len(blocks) = 2 => \E b \in live' : b.at = blocks[2].at
  BY <1>2, <1>3, <1>5
<1>13. QED
  BY <1>3, <1>4, <1>5, <1>6, <1>8, <1>10, <1>11, <1>12

(***************************************************************************)
(* The rings.                                                              *)
(***************************************************************************)
LEMMA SizeFacts ==
    /\ VIRTQ_SIZE \in Nat \ {0} /\ VIRTQ_SIZE >= 3 /\ VIRTQ_SIZE \in Nat
    /\ INDEX \in Nat \ {0} /\ INDEX > VIRTQ_SIZE /\ INDEX % VIRTQ_SIZE = 0 /\ INDEX \in Nat
    /\ PAGE \in Nat \ {0} /\ HEAP_SIZE \in Nat /\ DEFAULT_FB \in Nat
    /\ MaxCalls \in Nat
  BY QueueAssumption, ArenaAssumption, BoundAssumption

LEMMA QueueBytesValue == QueueBytes \in Nat
<1> DEFINE rings == 16 * VIRTQ_SIZE + 6 + 2 * VIRTQ_SIZE
<1>1. rings \in Nat /\ 8 * VIRTQ_SIZE \in Nat
  BY SizeFacts
<1> HIDE DEF rings
<1>2. rings % PAGE \in 0 .. PAGE - 1
  BY <1>1, SizeFacts, ModRange
<1>3. rings + (PAGE - (rings % PAGE)) + 6 \in Nat
  BY <1>1, <1>2, SizeFacts
<1>4. QueueBytes = rings + (PAGE - (rings % PAGE)) + 6 + 8 * VIRTQ_SIZE
  BY DEF QueueBytes, rings
<1>5. QED
  BY <1>1, <1>3, <1>4

LEMMA AdvanceValue ==
    ASSUME NEW i \in Index, NEW n \in Nat
    PROVE  Advance(i, n) \in Index /\ Advance(i, 1) \in Index /\ Advance(i, 1) # i
<1>1. i \in Nat /\ i < INDEX /\ i + n \in Nat
  BY SizeFacts DEF Index
<1>2. i % INDEX = i
  BY <1>1, SizeFacts, ModSmall
<1>3. (i + 1) % INDEX = IF i % INDEX = INDEX - 1 THEN 0 ELSE (i % INDEX) + 1
  BY <1>1, SizeFacts, ModSucc
<1>4. (i + n) % INDEX \in 0 .. INDEX - 1
  BY <1>1, SizeFacts, ModRange
<1>5. QED
  BY <1>1, <1>2, <1>3, <1>4, SizeFacts DEF Advance, Index

\* A chain has descriptors of its own, also where the counter wraps.
LEMMA SlotsAreDistinct ==
    ASSUME desc_idx \in Index
    PROVE  /\ DescSlot(0) \in Slot /\ DescSlot(1) \in Slot /\ DescSlot(2) \in Slot
           /\ DescSlot(0) # DescSlot(1) /\ DescSlot(0) # DescSlot(2)
           /\ DescSlot(1) # DescSlot(2)
<1> DEFINE at(k) == (desc_idx + k) % VIRTQ_SIZE
<1>1. desc_idx \in Nat
  BY SizeFacts DEF Index
<1>2. \A k \in Nat : DescSlot(k) = at(k) /\ at(k) \in 0 .. VIRTQ_SIZE - 1
  <2> SUFFICES ASSUME NEW k \in Nat
               PROVE  DescSlot(k) = at(k) /\ at(k) \in 0 .. VIRTQ_SIZE - 1
    OBVIOUS
  <2>1. desc_idx + k \in Nat
    BY <1>1
  <2>2. ((desc_idx + k) % INDEX) % VIRTQ_SIZE = (desc_idx + k) % VIRTQ_SIZE
    BY <2>1, SizeFacts, ModOfMod
  <2>3. (desc_idx + k) % VIRTQ_SIZE \in 0 .. VIRTQ_SIZE - 1
    BY <2>1, SizeFacts, ModRange
  <2>4. QED
    BY <2>2, <2>3 DEF DescSlot
<1>3. at(1) = IF at(0) = VIRTQ_SIZE - 1 THEN 0 ELSE at(0) + 1
  <2> DEFINE i == desc_idx + 0
  <2>1. i \in Nat /\ i + 1 = desc_idx + 1
    BY <1>1
  <2> HIDE DEF i
  <2>2. (i + 1) % VIRTQ_SIZE = IF i % VIRTQ_SIZE = VIRTQ_SIZE - 1 THEN 0
                               ELSE (i % VIRTQ_SIZE) + 1
    BY <2>1, SizeFacts, ModSucc
  <2>3. QED
    BY <2>1, <2>2 DEF i
<1>4. at(2) = IF at(1) = VIRTQ_SIZE - 1 THEN 0 ELSE at(1) + 1
  <2> DEFINE i == desc_idx + 1
  <2>1. i \in Nat /\ i + 1 = desc_idx + 2
    BY <1>1
  <2> HIDE DEF i
  <2>2. (i + 1) % VIRTQ_SIZE = IF i % VIRTQ_SIZE = VIRTQ_SIZE - 1 THEN 0
                               ELSE (i % VIRTQ_SIZE) + 1
    BY <2>1, SizeFacts, ModSucc
  <2>3. QED
    BY <2>1, <2>2 DEF i
<1>5. /\ DescSlot(0) = at(0) /\ DescSlot(1) = at(1) /\ DescSlot(2) = at(2)
      /\ at(0) \in 0 .. VIRTQ_SIZE - 1 /\ at(1) \in 0 .. VIRTQ_SIZE - 1
      /\ at(2) \in 0 .. VIRTQ_SIZE - 1
  BY <1>2
<1> HIDE DEF at
<1>6. QED
  BY <1>3, <1>4, <1>5, SizeFacts DEF Slot

(***************************************************************************)
(* Initially, and where no chain is under way.                             *)
(***************************************************************************)
LEMMA InitHolds == Init => IInv
<1> SUFFICES ASSUME Init
             PROVE  IInv
  OBVIOUS
<1>1. TypeOK
  <2>1. 0 \in Index /\ 0 \in Slot
    BY SizeFacts DEF Index, Slot
  <2>2. NoDesc \in Desc
    BY <2>1 DEF NoDesc, Desc
  <2>3. desc \in [Queue -> [Slot -> Desc]]
    BY <2>2 DEF Init
  <2>4. QED
    BY <2>1, <2>3, SizeFacts DEF Init, TypeOK, Boot
<1>2. Shapes /\ Phases
  BY DEF Init, Shapes, Phases, Busy, Boot, Command
<1>3. BlocksAreApart /\ Kept
  BY SizeFacts DEF Init, BlocksAreApart, Kept, Boot
<1>4. OneChain
  BY DEF Init, OneChain, Quiet
<1>5. Requested /\ Served /\ Returned
  BY DEF Init, Requested, Served, Returned, Busy
<1>6. QED
  BY <1>1, <1>2, <1>3, <1>4, <1>5 DEF IInv

LEMMA NoChain ==
    ASSUME IInv, pc \notin {"publish", "await"}, pc' \notin {"publish", "await"},
           UNCHANGED <<queueVars, deviceVars>>
    PROVE  OneChain' /\ Served' /\ (pc' \notin Busy => Requested')
<1>1. \A k \in Queue : Quiet(k)
  BY DEF IInv, OneChain
<1>2. \A k \in Queue : Quiet(k)'
  BY <1>1 DEF Quiet, queueVars, deviceVars
<1>3. OneChain' /\ Served'
  BY <1>2 DEF OneChain, Served
<1>4. QED
  BY <1>3 DEF Requested, Busy

(***************************************************************************)
(* The boot.                                                               *)
(***************************************************************************)
LEMMA BootTakes ==
    ASSUME IInv, call = Boot, pc \in {"probe", "gpu_command", "framebuffer"},
           NEW blocks, Placed(blocks),
           NEW next \in {"probe", "gpu_command", "submit"}, Take(blocks, "boot", next),
           UNCHANGED <<heap_save, kept_heap, queueVars, deviceVars, call>>
    PROVE  /\ heap' \in Nat /\ live' \subseteq Block /\ pc' \in {next, "panic"}
           /\ BlocksAreApart' /\ Kept' /\ OneChain' /\ Served' /\ Returned'
           /\ pc' \notin Busy => Requested'
           /\ \E b \in live' : b.at = blocks[1].at
           /\ Len(blocks) = 2 => \E b \in live' : b.at = blocks[2].at
<1>1. /\ heap' \in Nat /\ live' \subseteq Block /\ pc' \in {next, "panic"}
      /\ BlocksAreApart' /\ heap <= heap' /\ heap \in Nat /\ kept_heap \in Nat
      /\ \A b \in live' : b \in live \/ b.owner = "boot"
      /\ \E b \in live' : b.at = blocks[1].at
      /\ Len(blocks) = 2 => \E b \in live' : b.at = blocks[2].at
  BY TakeApart DEF IInv, TypeOK
<1>2. Kept'
  BY <1>1 DEF IInv, Kept, Boot
<1>3. OneChain' /\ Served' /\ (pc' \notin Busy => Requested')
  BY <1>1, NoChain
<1>4. Returned'
  BY <1>1 DEF Returned
<1>5. QED
  BY <1>1, <1>2, <1>3, <1>4

LEMMA TwoCommands ==
    ASSUME NEW S, NEW a \in S, NEW b \in S
    PROVE  /\ <<a, b>> \in Seq(S) /\ <<a, b>> # << >>
           /\ \A i \in 1 .. Len(<<a, b>>) : <<a, b>>[i] \in {a, b}
  OBVIOUS

LEMMA SixCommands ==
    ASSUME NEW S, NEW a \in S, NEW b \in S, NEW c \in S, NEW d \in S, NEW e \in S, NEW f \in S
    PROVE  /\ <<a, b, c, d, e, f>> \in Seq(S) /\ <<a, b, c, d, e, f>> # << >>
           /\ <<a, b, c, d, e, f>>[5] = e /\ <<a, b, c, d, e, f>>[6] = f
  OBVIOUS

LEMMA InitScriptValue ==
    /\ InitScript \in Seq(Command) /\ FlushScript \in Seq(Command)
    /\ InitScript # << >> /\ FlushScript # << >>
    /\ \A i \in 1 .. Len(FlushScript) : FlushScript[i].what # "create"
<1> DEFINE a == [what |-> "info", size |-> 24, resp |-> 408]
           b == [what |-> "create", size |-> 40, resp |-> 24]
           c == [what |-> "attach", size |-> 48, resp |-> 24]
           d == [what |-> "scanout", size |-> 48, resp |-> 24]
           e == [what |-> "tx", size |-> 56, resp |-> 24]
           f == [what |-> "flush", size |-> 48, resp |-> 24]
<1>1. /\ a \in Command /\ b \in Command /\ c \in Command
      /\ d \in Command /\ e \in Command /\ f \in Command
  BY DEF Command
<1>2. InitScript = <<a, b, c, d, e, f>>
  BY DEF InitScript
<1>3. e.what # "create" /\ f.what # "create"
  OBVIOUS
<1> HIDE DEF a, b, c, d, e, f
<1>4. /\ InitScript \in Seq(Command) /\ InitScript # << >>
      /\ InitScript[5] = e /\ InitScript[6] = f
  BY <1>1, <1>2, SixCommands
<1>5. /\ FlushScript \in Seq(Command) /\ FlushScript # << >>
      /\ \A i \in 1 .. Len(FlushScript) : FlushScript[i] \in {e, f}
  <2>1. FlushScript = <<e, f>>
    BY <1>4 DEF FlushScript
  <2>2. QED
    BY <1>1, <2>1, TwoCommands
<1>6. QED
  BY <1>3, <1>4, <1>5

LEMMA TailValue ==
    ASSUME NEW S, NEW s \in Seq(S), Len(s) > 1
    PROVE  /\ Tail(s) \in Seq(S) /\ Tail(s) # << >> /\ Head(s) = s[1]
           /\ \A i \in 1 .. Len(Tail(s)) : Tail(s)[i] = s[i + 1] /\ i + 1 \in 1 .. Len(s)
<1>1. Len(Tail(s)) = Len(s) - 1 /\ Len(s) \in Nat /\ Tail(s) \in Seq(S) /\ Head(s) = s[1]
  OBVIOUS
<1>2. Tail(s) # << >>
  <2>1. Len(<< >>) = 0 /\ Len(Tail(s)) # 0
    BY <1>1
  <2>2. QED
    BY <2>1, Zenon
<1>3. ASSUME NEW i \in 1 .. Len(Tail(s))
      PROVE  Tail(s)[i] = s[i + 1] /\ i + 1 \in 1 .. Len(s)
  BY <1>1
<1>4. QED
  BY <1>1, <1>2, <1>3

LEMMA ProbeTakes ==
    ASSUME IInv, pc = "probe", NEW blocks, Placed(blocks),
           NEW next \in {"probe", "gpu_command"}, Take(blocks, "boot", next),
           script' = IF next = "gpu_command" THEN InitScript ELSE script,
           todo' \subseteq todo, found' \subseteq Device, found \subseteq found',
           UNCHANGED <<heap_save, kept_heap, queueVars, deviceVars, call, fb, result, calls,
                       request, answer>>
    PROVE  IInv'
<1>1. call = Boot
  BY DEF IInv, Phases
<1>2. /\ heap' \in Nat /\ live' \subseteq Block /\ pc' \in {next, "panic"}
      /\ BlocksAreApart' /\ Kept' /\ OneChain' /\ Served' /\ Returned'
      /\ pc' \notin Busy => Requested'
  BY <1>1, BootTakes
<1>3. script' \in Seq(Command) /\ (next = "gpu_command" => script' # << >>)
  BY InitScriptValue DEF IInv, Shapes
<1>4. TypeOK'
  BY <1>2 DEF IInv, TypeOK, queueVars, deviceVars
<1>5. Shapes' /\ Phases' /\ Requested'
  BY <1>1, <1>2, <1>3 DEF IInv, Shapes, Phases, Busy, Boot, Flush
<1>6. QED
  BY <1>2, <1>4, <1>5 DEF IInv

LEMMA Probes == IInv /\ (ProbeInput \/ ProbeBlk \/ ProbeGpu) => IInv'
<1> SUFFICES ASSUME IInv, ProbeInput \/ ProbeBlk \/ ProbeGpu
             PROVE  IInv'
  OBVIOUS
<1>1. heap \in Nat /\ found \subseteq Device /\ {"input", "blk", "gpu"} \subseteq Device
  BY DEF IInv, TypeOK, Device, Queue
<1>2. Placed(Allocate(<<QueueBytes, 8 * VIRTQ_SIZE>>, <<PAGE, 8>>))
  BY <1>1, TwoBlocks, QueueBytesValue, SizeFacts
<1>3. Placed(Allocate(<<QueueBytes>>, <<PAGE>>))
  BY <1>1, OneBlock, QueueBytesValue, SizeFacts
<1>4. CASE ProbeInput
  <2> DEFINE blocks == Allocate(<<QueueBytes, 8 * VIRTQ_SIZE>>, <<PAGE, 8>>)
  <2>1. /\ pc = "probe" /\ Take(blocks, "boot", "probe") /\ script' = script
        /\ todo' \subseteq todo /\ found' \subseteq Device /\ found \subseteq found'
        /\ UNCHANGED <<heap_save, kept_heap, queueVars, deviceVars, call, fb, result, calls,
                       request, answer>>
    BY <1>1, <1>4 DEF ProbeInput
  <2> HIDE DEF blocks
  <2>2. QED
    BY <1>2, <2>1, ProbeTakes DEF blocks
<1>5. CASE ProbeBlk
  <2> DEFINE blocks == Allocate(<<QueueBytes>>, <<PAGE>>)
  <2>1. /\ pc = "probe" /\ Take(blocks, "boot", "probe") /\ script' = script
        /\ todo' \subseteq todo /\ found' \subseteq Device /\ found \subseteq found'
        /\ UNCHANGED <<heap_save, kept_heap, queueVars, deviceVars, call, fb, result, calls,
                       request, answer>>
    BY <1>1, <1>5 DEF ProbeBlk
  <2> HIDE DEF blocks
  <2>2. QED
    BY <1>3, <2>1, ProbeTakes DEF blocks
<1>6. CASE ProbeGpu
  <2> DEFINE blocks == Allocate(<<QueueBytes>>, <<PAGE>>)
  <2>1. /\ pc = "probe" /\ Take(blocks, "boot", "gpu_command") /\ script' = InitScript
        /\ todo' \subseteq todo /\ found' \subseteq Device /\ found \subseteq found'
        /\ UNCHANGED <<heap_save, kept_heap, queueVars, deviceVars, call, fb, result, calls,
                       request, answer>>
    BY <1>1, <1>6 DEF ProbeGpu
  <2> HIDE DEF blocks
  <2>2. QED
    BY <1>3, <2>1, ProbeTakes DEF blocks
<1>7. QED
  BY <1>4, <1>5, <1>6

LEMMA ProbeEnds == IInv /\ ProbeDone => IInv'
<1> SUFFICES ASSUME IInv, ProbeDone
             PROVE  IInv'
  OBVIOUS
<1>1. /\ call = Boot /\ pc = "probe" /\ pc' = "ready" /\ kept_heap' = heap
      /\ UNCHANGED <<heap, heap_save, live, queueVars, deviceVars, callVars, request, answer>>
  BY DEF IInv, Phases, ProbeDone
<1>2. OneChain' /\ Served' /\ Requested'
  BY <1>1, NoChain DEF Busy
<1>3. TypeOK' /\ Shapes' /\ Phases'
  BY <1>1 DEF IInv, TypeOK, Shapes, Phases, Busy, callVars, queueVars, deviceVars
<1>4. BlocksAreApart' /\ Kept' /\ Returned'
  <2>1. heap \in Nat /\ live \subseteq Block /\ call' = call
    BY <1>1 DEF IInv, TypeOK, callVars
  <2>2. QED
    BY <1>1, <2>1 DEF IInv, BlocksAreApart, Kept, Returned, Boot
<1>5. QED
  BY <1>2, <1>3, <1>4 DEF IInv

LEMMA Frames == IInv /\ Framebuffer => IInv'
<1> SUFFICES ASSUME IInv, Framebuffer
             PROVE  IInv'
  OBVIOUS
<1> DEFINE blocks == Allocate(<<fb>>, <<PAGE>>)
<1>1. /\ call = Boot /\ pc = "framebuffer" /\ script # << >>
      /\ Take(blocks, "boot", "gpu_command")
      /\ UNCHANGED <<heap_save, kept_heap, queueVars, deviceVars, callVars, request, answer>>
  BY DEF IInv, Phases, Framebuffer
<1>2. Placed(blocks)
  BY OneBlock, SizeFacts DEF IInv, TypeOK
<1>3. UNCHANGED <<todo, found, call, script, fb, result, calls>>
  BY <1>1 DEF callVars
<1> HIDE DEF blocks
<1>4. /\ heap' \in Nat /\ live' \subseteq Block /\ pc' \in {"gpu_command", "panic"}
      /\ BlocksAreApart' /\ Kept' /\ OneChain' /\ Served' /\ Returned'
      /\ pc' \notin Busy => Requested'
  BY <1>1, <1>2, <1>3, BootTakes
<1>5. TypeOK' /\ Shapes' /\ Phases' /\ Requested'
  BY <1>1, <1>3, <1>4 DEF IInv, TypeOK, Shapes, Phases, Busy, queueVars, deviceVars
<1>6. QED
  BY <1>4, <1>5 DEF IInv

LEMMA Commands == IInv /\ GpuCommand => IInv'
<1> SUFFICES ASSUME IInv, GpuCommand
             PROVE  IInv'
  OBVIOUS
<1> DEFINE c == Head(script)
           blocks == Allocate(<<c.size, c.resp>>, <<8, 8>>)
           owner == IF call = Boot THEN "boot" ELSE "call"
<1>1. /\ pc = "gpu_command" /\ Take(blocks, owner, "submit")
      /\ request' = [at |-> blocks[1].at, what |-> <<c.what, 0>>]
      /\ answer' = [at |-> blocks[2].at, value |-> "zero"]
      /\ UNCHANGED <<heap_save, kept_heap, queueVars, deviceVars, callVars>>
  BY DEF GpuCommand
<1>2. UNCHANGED <<todo, found, call, script, fb, result, calls>>
  BY <1>1 DEF callVars
<1>3. script # << >> /\ (call = Boot \/ call = Flush) /\ call.kind # "transfer"
  BY <1>1 DEF IInv, Phases, Boot, Flush
<1>4. Placed(blocks) /\ Len(blocks) = 2
  <2>1. c \in Command
    BY <1>3 DEF IInv, Shapes
  <2>2. c.size \in Nat /\ c.resp \in Nat /\ heap \in Nat
    BY <2>1 DEF IInv, TypeOK, Command
  <2> HIDE DEF c
  <2>3. QED
    BY <2>2, TwoBlocks
<1> HIDE DEF c, blocks
<1>5. /\ heap' \in Nat /\ live' \subseteq Block /\ pc' \in {"submit", "panic"}
      /\ BlocksAreApart' /\ heap <= heap' /\ heap \in Nat /\ kept_heap \in Nat
      /\ \A b \in live' : b \in live \/ b.owner = owner
      /\ \E b \in live' : b.at = blocks[1].at
      /\ \E b \in live' : b.at = blocks[2].at
  BY <1>1, <1>4, TakeApart DEF IInv, TypeOK
<1>6. blocks[1].at \in Nat /\ blocks[2].at \in Nat
  BY <1>4 DEF Placed
<1>7. OneChain' /\ Served' /\ (pc' \notin Busy => Requested')
  BY <1>1, <1>5, NoChain
<1>8. Returned'
  BY <1>5 DEF Returned
<1>9. Kept'
  BY <1>1, <1>2, <1>3, <1>5 DEF IInv, Kept, Boot, Flush
<1>10. TypeOK'
  <2>1. request'.at \in Nat /\ answer'.at \in Nat /\ answer'.value = "zero"
    BY <1>1, <1>6
  <2>2. QED
    BY <1>1, <1>2, <1>5, <2>1 DEF IInv, TypeOK, queueVars, deviceVars
<1>11. Shapes' /\ Phases'
  BY <1>1, <1>2, <1>3, <1>5, <1>6 DEF IInv, Shapes, Phases, Busy, Boot, Flush, Execute
<1>12. Requested'
  BY <1>1, <1>2, <1>3, <1>5 DEF Requested, Busy
<1>13. QED
  BY <1>5, <1>7, <1>8, <1>9, <1>10, <1>11, <1>12 DEF IInv

(***************************************************************************)
(* The calls.                                                              *)
(***************************************************************************)
LEMMA IdleFacts ==
    ASSUME IInv, Idle
    PROVE  /\ pc = "ready" /\ calls' \in 0 .. MaxCalls
           /\ heap = kept_heap /\ heap \in Nat
           /\ \A b \in live : b.owner # "call" /\ b.at + b.size <= kept_heap
  BY SizeFacts DEF IInv, TypeOK, Kept, Idle

LEMMA Transfers ==
    ASSUME IInv, NEW type \in {"in", "out"}, NEW sector \in Sector, NEW buffer \in Buffer,
           CallTransfer(type, sector, buffer)
    PROVE  IInv'
<1> DEFINE blocks == Allocate(<<16, 1>>, <<16, 1>>)
<1>1. /\ Idle /\ "blk" \in found /\ Take(blocks, "call", "submit")
      /\ call' = Transfer(type, sector, buffer) /\ heap_save' = heap
      /\ request' = [at |-> blocks[1].at, what |-> <<type, sector>>]
      /\ answer' = [at |-> blocks[2].at, value |-> "unset"]
      /\ UNCHANGED <<kept_heap, queueVars, deviceVars, todo, found, script, fb, result>>
  BY DEF CallTransfer
<1>2. /\ pc = "ready" /\ calls' \in 0 .. MaxCalls /\ heap = kept_heap /\ heap \in Nat
      /\ \A b \in live : b.owner # "call" /\ b.at + b.size <= kept_heap
  BY <1>1, IdleFacts
<1>3. Placed(blocks) /\ Len(blocks) = 2
  BY <1>2, TwoBlocks
<1> HIDE DEF blocks
<1>4. /\ heap' \in Nat /\ live' \subseteq Block /\ pc' \in {"submit", "panic"}
      /\ BlocksAreApart' /\ heap <= heap' /\ heap \in Nat /\ kept_heap \in Nat
      /\ \A b \in live' : b \in live \/ b.owner = "call"
      /\ \E b \in live' : b.at = blocks[1].at
      /\ \E b \in live' : b.at = blocks[2].at
  BY <1>1, <1>2, <1>3, TakeApart DEF IInv, TypeOK
<1>5. blocks[1].at \in Nat /\ blocks[2].at \in Nat
  BY <1>3 DEF Placed
<1>6. /\ call'.kind = "transfer" /\ call'.what = <<type, sector>>
      /\ call' # Boot /\ call' # Flush /\ call' # Execute
  BY <1>1 DEF Transfer, Boot, Flush, Execute
<1>7. OneChain' /\ Served' /\ (pc' \notin Busy => Requested')
  BY <1>1, <1>2, <1>4, NoChain
<1>8. Returned'
  BY <1>4 DEF Returned
<1>9. Kept'
  BY <1>1, <1>2, <1>4, <1>6 DEF Kept
<1>10. TypeOK'
  <2>1. request'.at \in Nat /\ answer'.at \in Nat /\ answer'.value = "unset"
    BY <1>1, <1>5
  <2>2. QED
    BY <1>1, <1>2, <1>4, <1>6, <2>1 DEF IInv, TypeOK, queueVars, deviceVars
<1>11. Shapes' /\ Phases'
  BY <1>1, <1>2, <1>4, <1>5, <1>6 DEF IInv, Shapes, Phases, Busy
<1>12. Requested'
  BY <1>1, <1>4, <1>6 DEF Requested, Busy
<1>13. QED
  BY <1>4, <1>7, <1>8, <1>9, <1>10, <1>11, <1>12 DEF IInv

LEMMA Flushes == IInv /\ CallFlush => IInv'
<1> SUFFICES ASSUME IInv, CallFlush
             PROVE  IInv'
  OBVIOUS
<1>1. /\ Idle /\ call' = Flush /\ heap_save' = heap /\ script' = FlushScript
      /\ pc' = "gpu_command"
      /\ UNCHANGED <<heap, live, kept_heap, queueVars, deviceVars, todo, found, fb, result,
                     request, answer>>
  BY DEF CallFlush
<1>2. /\ pc = "ready" /\ calls' \in 0 .. MaxCalls /\ heap = kept_heap /\ heap \in Nat
      /\ \A b \in live : b.owner # "call" /\ b.at + b.size <= kept_heap
  BY <1>1, IdleFacts
<1>3. call'.kind = "flush" /\ call' # Boot
  BY <1>1 DEF Flush, Boot
<1>4. OneChain' /\ Served' /\ Requested'
  BY <1>1, <1>2, NoChain DEF Busy
<1>5. BlocksAreApart' /\ Kept' /\ Returned'
  BY <1>1, <1>2, <1>3 DEF IInv, BlocksAreApart, Kept, Returned
<1>6. TypeOK'
  BY <1>1, <1>2, <1>3 DEF IInv, TypeOK, queueVars, deviceVars
<1>7. Shapes' /\ Phases'
  BY <1>1, <1>3, InitScriptValue DEF IInv, Shapes, Phases, Busy
<1>8. QED
  BY <1>4, <1>5, <1>6, <1>7 DEF IInv

LEMMA Executes ==
    ASSUME IInv, NEW size \in EvalSize, CallExecute(size)
    PROVE  IInv'
<1> DEFINE blocks == Allocate(<<size>>, <<8>>)
<1>1. /\ Idle /\ call' = Execute /\ Take(blocks, "vm", "ready") /\ kept_heap' = End(blocks)
      /\ UNCHANGED <<heap_save, queueVars, deviceVars, todo, found, script, fb, result,
                     request, answer>>
  BY DEF CallExecute
<1>2. /\ pc = "ready" /\ calls' \in 0 .. MaxCalls /\ heap = kept_heap /\ heap \in Nat
      /\ \A b \in live : b.owner # "call" /\ b.at + b.size <= kept_heap
  BY <1>1, IdleFacts
<1>3. Placed(blocks)
  BY <1>2, OneBlock, ArenaAssumption
<1> HIDE DEF blocks
<1>4. /\ heap' \in Nat /\ live' \subseteq Block /\ pc' \in {"ready", "panic"}
      /\ BlocksAreApart' /\ heap' = End(blocks)
      /\ \A b \in live' : b \in live \/ b.owner = "vm"
      /\ \A b \in live' : b.at + b.size <= heap'
  BY <1>1, <1>2, <1>3, TakeApart DEF IInv, TypeOK
<1>5. call'.kind = "execute" /\ call' # Boot /\ call' # Flush
  BY <1>1 DEF Execute, Boot, Flush
<1>6. OneChain' /\ Served' /\ Requested'
  BY <1>1, <1>2, <1>4, NoChain DEF Busy
<1>7. Kept' /\ Returned'
  BY <1>1, <1>2, <1>4, <1>5 DEF Kept, Returned
<1>8. TypeOK'
  BY <1>1, <1>2, <1>4, <1>5 DEF IInv, TypeOK, queueVars, deviceVars
<1>9. Shapes' /\ Phases'
  BY <1>1, <1>4, <1>5 DEF IInv, Shapes, Phases, Busy
<1>10. QED
  BY <1>4, <1>6, <1>7, <1>8, <1>9 DEF IInv

LEMMA CallsFail == IInv /\ CallWithoutDevice => IInv'
<1> SUFFICES ASSUME IInv, CallWithoutDevice
             PROVE  IInv'
  OBVIOUS
<1>1. /\ Idle /\ (result' = "failed" \/ result' = result)
      /\ ("blk" \notin found \/ result' = result)
      /\ UNCHANGED <<arenaVars, queueVars, deviceVars, todo, found, call, script, fb,
                     request, answer, pc>>
  BY DEF CallWithoutDevice
<1>2. pc = "ready" /\ calls' \in 0 .. MaxCalls
  BY <1>1, IdleFacts
<1>3. OneChain' /\ Served' /\ Requested'
  BY <1>1, <1>2, NoChain DEF Busy
<1>4. BlocksAreApart' /\ Kept'
  BY <1>1 DEF IInv, BlocksAreApart, Kept, arenaVars
<1>5. Returned'
  BY <1>1, <1>2 DEF IInv, Returned, Phases, deviceVars
<1>6. TypeOK' /\ Shapes' /\ Phases'
  BY <1>1, <1>2 DEF IInv, TypeOK, Shapes, Phases, arenaVars, queueVars, deviceVars
<1>7. QED
  BY <1>3, <1>4, <1>5, <1>6 DEF IInv

(***************************************************************************)
(* A request on its way.                                                   *)
(***************************************************************************)
LEMMA CallKinds ==
    ASSUME Shapes
    PROVE  /\ call.kind \in {"boot", "flush", "transfer", "execute"}
           /\ call = Boot <=> call.kind = "boot"
           /\ call = Flush <=> call.kind = "flush"
           /\ call = Execute <=> call.kind = "execute"
           /\ call.kind = "transfer" =>
                  call.buffer \in Nat /\ call.what[1] \in {"in", "out"}
  BY ArenaAssumption DEF Shapes, Boot, Flush, Execute, Transfer

LEMMA PartsValue ==
    ASSUME IInv
    PROVE  /\ Target \in Queue
           /\ Len(Parts) = IF call.kind = "transfer" THEN 3 ELSE 2
           /\ Parts \in Seq([addr : Nat, flags : SUBSET {"NEXT", "WRITE"}])
           /\ \A i \in 1 .. Len(Parts) :
                  /\ Parts[i].addr \in Nat /\ Parts[i].flags \in SUBSET {"NEXT", "WRITE"}
                  /\ "NEXT" \in Parts[i].flags <=> i < Len(Parts)
           /\ Parts[1].addr = request.at
           /\ Parts[Len(Parts)].addr = answer.at /\ "WRITE" \in Parts[Len(Parts)].flags
           /\ call.kind = "transfer" =>
                  /\ Parts[2].addr = call.buffer
                  /\ Parts[2].flags = IF call.what[1] = "in" THEN {"NEXT", "WRITE"} ELSE {"NEXT"}
<1>1. request.at \in Nat /\ answer.at \in Nat
  BY DEF IInv, TypeOK
<1>2. Target \in Queue
  BY DEF Target, Queue
<1>3. CASE call.kind = "transfer"
  <2>1. call.buffer \in Nat
    BY <1>3, CallKinds DEF IInv
  <2> DEFINE fl == {"NEXT"} \cup IF call.what[1] = "in" THEN {"WRITE"} ELSE {}
             p1 == [addr |-> request.at, flags |-> {"NEXT"}]
             p2 == [addr |-> call.buffer, flags |-> fl]
             p3 == [addr |-> answer.at, flags |-> {"WRITE"}]
  <2>2. Parts = <<p1, p2, p3>>
    BY <1>3 DEF Parts
  <2>3. /\ fl = IF call.what[1] = "in" THEN {"NEXT", "WRITE"} ELSE {"NEXT"}
        /\ fl \in SUBSET {"NEXT", "WRITE"} /\ "NEXT" \in fl
    OBVIOUS
  <2>4. /\ p1.addr = request.at /\ p1.flags = {"NEXT"}
        /\ p2.addr = call.buffer /\ p2.flags = fl
        /\ p3.addr = answer.at /\ p3.flags = {"WRITE"}
    OBVIOUS
  <2> DEFINE S == [addr : Nat, flags : SUBSET {"NEXT", "WRITE"}]
  <2>8. p1 \in S /\ p2 \in S /\ p3 \in S
    BY <1>1, <2>1, <2>3
  <2> HIDE DEF fl, p1, p2, p3, S
  <2>9. Parts \in Seq(S)
    BY <2>2, <2>8
  <2>5. Len(Parts) = 3 /\ Parts[1] = p1 /\ Parts[2] = p2 /\ Parts[3] = p3
    BY <2>2
  <2>6. \A i \in 1 .. Len(Parts) : i = 1 \/ i = 2 \/ i = 3
    BY <2>5
  <2>7. QED
    BY <1>1, <1>2, <1>3, <2>1, <2>3, <2>4, <2>5, <2>6, <2>9 DEF S
<1>4. CASE call.kind # "transfer"
  <2> DEFINE p1 == [addr |-> request.at, flags |-> {"NEXT"}]
             p2 == [addr |-> answer.at, flags |-> {"WRITE"}]
  <2>1. Parts = <<p1, p2>>
    BY <1>4 DEF Parts
  <2>2. /\ p1.addr = request.at /\ p1.flags = {"NEXT"}
        /\ p2.addr = answer.at /\ p2.flags = {"WRITE"}
    OBVIOUS
  <2> DEFINE S == [addr : Nat, flags : SUBSET {"NEXT", "WRITE"}]
  <2>6. p1 \in S /\ p2 \in S
    BY <1>1
  <2> HIDE DEF p1, p2, S
  <2>7. Parts \in Seq(S)
    BY <2>1, <2>6
  <2>3. Len(Parts) = 2 /\ Parts[1] = p1 /\ Parts[2] = p2
    BY <2>1
  <2>4. \A i \in 1 .. Len(Parts) : i = 1 \/ i = 2
    BY <2>3
  <2>5. QED
    BY <1>1, <1>2, <1>4, <2>2, <2>3, <2>4, <2>7 DEF S
<1>5. QED
  BY <1>3, <1>4

LEMMA Submits == IInv /\ Submit => IInv'
<1> SUFFICES ASSUME IInv, Submit
             PROVE  IInv'
  OBVIOUS
<1> DEFINE t == Target
           n == Len(Parts)
           a == avail[t].idx
           s0 == DescSlot(0)
           s1 == DescSlot(1)
           s2 == DescSlot(2)
<1>1. /\ pc = "submit" /\ pc' = "publish" /\ desc_idx' = Advance(desc_idx, n)
      /\ avail' = [avail EXCEPT ![t].ring[a % VIRTQ_SIZE] = s0]
      /\ UNCHANGED <<arenaVars, last_used_idx, deviceVars, callVars, request, answer>>
      /\ desc' = [desc EXCEPT ![t] =
            IF n = 2 THEN [@ EXCEPT ![s0] = Filled(1, n), ![s1] = Filled(2, n)]
            ELSE [@ EXCEPT ![s0] = Filled(1, n), ![s1] = Filled(2, n), ![s2] = Filled(3, n)]]
  BY DEF Submit
<1>2. /\ t \in Queue /\ n \in {2, 3}
      /\ \A i \in 1 .. n : /\ Parts[i].addr \in Nat /\ Parts[i].flags \in SUBSET {"NEXT", "WRITE"}
                           /\ "NEXT" \in Parts[i].flags <=> i < n
  BY PartsValue
<1>3. /\ s0 \in Slot /\ s1 \in Slot /\ s2 \in Slot /\ s0 # s1 /\ s0 # s2 /\ s1 # s2
  BY SlotsAreDistinct DEF IInv, TypeOK
<1>4. /\ desc \in [Queue -> [Slot -> Desc]] /\ desc_idx \in Index
      /\ avail \in [Queue -> [ring : [Slot -> Slot], idx : Index]]
  BY DEF IInv, TypeOK
<1>5. a \in Index /\ a % VIRTQ_SIZE \in Slot
  <2>1. a \in Index
    BY <1>2, <1>4
  <2>2. a \in Nat
    BY <2>1 DEF Index
  <2> HIDE DEF a
  <2>3. a % VIRTQ_SIZE \in 0 .. VIRTQ_SIZE - 1
    BY <2>2, SizeFacts, ModRange
  <2>4. QED
    BY <2>1, <2>3 DEF Slot
<1>6. \A i \in 1 .. n :
        /\ Filled(i, n) \in Desc
        /\ Filled(i, n).addr = Parts[i].addr /\ Filled(i, n).flags = Parts[i].flags
        /\ i = 1 => Filled(i, n).next = s1
        /\ (i = 2 /\ n = 3) => Filled(i, n).next = s2
  <2>1. 0 \in Slot
    BY SizeFacts DEF Slot
  <2>2. \A i \in 1 .. n : i = 1 \/ i = 2 \/ (i = 3 /\ n = 3)
    BY <1>2
  <2> HIDE DEF n, t, a
  <2>3. QED
    BY <1>2, <1>3, <2>1, <2>2 DEF Filled, Desc
<1>7. UNCHANGED <<used_idx, dev_idx, served, todo, found, call, script, fb, result, calls,
                  heap, heap_save, live, kept_heap>> /\ Target' = t /\ Parts' = Parts
  BY <1>1 DEF deviceVars, callVars, arenaVars, Target, Parts
<1>8. /\ desc' \in [Queue -> [Slot -> Desc]]
      /\ desc'[t][s0] = Filled(1, n) /\ desc'[t][s1] = Filled(2, n)
      /\ n = 3 => desc'[t][s2] = Filled(3, n)
  <2> HIDE DEF n, t, a, s0, s1, s2
  <2>1. /\ Filled(1, n) \in Desc /\ Filled(2, n) \in Desc
        /\ n = 3 => Filled(3, n) \in Desc
    <3>1. 1 \in 1 .. n /\ 2 \in 1 .. n /\ (n = 3 => 3 \in 1 .. n)
      BY <1>2
    <3>2. QED
      BY <1>6, <3>1
  <2>2. CASE n = 2
    BY <1>1, <1>2, <1>3, <1>4, <2>1, <2>2
  <2>3. CASE n = 3
    BY <1>1, <1>2, <1>3, <1>4, <2>1, <2>3
  <2>4. QED
    BY <1>2, <2>2, <2>3
<1>9. /\ avail' \in [Queue -> [ring : [Slot -> Slot], idx : Index]]
      /\ avail'[t].ring[a % VIRTQ_SIZE] = s0
      /\ \A k \in Queue : avail'[k].idx = avail[k].idx
  <2> DEFINE slot == a % VIRTQ_SIZE
  <2> HIDE DEF n, t, a, s0, slot
  <2>1. slot \in Slot /\ avail' = [avail EXCEPT ![t].ring[slot] = s0]
    BY <1>1, <1>5 DEF slot
  <2>2. QED
    BY <1>2, <1>3, <1>4, <2>1 DEF slot
<1>10. \A k \in Queue : Quiet(k) /\ Quiet(k)'
  BY <1>1, <1>7, <1>9 DEF IInv, OneChain, Quiet
<1>11. OneChain' /\ Served' /\ Returned'
  BY <1>1, <1>10 DEF OneChain, Served, Returned
<1>12. ChainIsRequest(t)'
  <2>1. dev_idx'[t] = a
    BY <1>2, <1>7, <1>10 DEF Quiet
  <2>2. /\ Filled(1, n).next = s1 /\ "NEXT" \in Filled(1, n).flags
        /\ n = 3 => Filled(2, n).next = s2
        /\ "NEXT" \in Filled(2, n).flags <=> n = 3
    <3> HIDE DEF n, t, a, s0, s1, s2
    <3>1. 1 \in 1 .. n /\ 2 \in 1 .. n /\ 1 < n /\ (2 < n <=> n = 3)
      BY <1>2
    <3>2. QED
      BY <1>2, <1>6, <3>1
  <2>3. Chain(t)' = IF n = 2 THEN <<Filled(1, n), Filled(2, n)>>
                    ELSE <<Filled(1, n), Filled(2, n), Filled(3, n)>>
    <3>1. Chain(t)' = LET d0 == desc'[t][avail'[t].ring[dev_idx'[t] % VIRTQ_SIZE]]
                          d1 == desc'[t][d0.next]
                          d2 == desc'[t][d1.next]
                      IN  IF "NEXT" \notin d0.flags THEN <<d0>>
                          ELSE IF "NEXT" \notin d1.flags THEN <<d0, d1>> ELSE <<d0, d1, d2>>
      BY <1>7 DEF Chain
    <3>2. desc'[t][avail'[t].ring[dev_idx'[t] % VIRTQ_SIZE]] = Filled(1, n)
      <4> HIDE DEF n, t, a, s0, s1, s2
      <4>1. QED
        BY <1>8, <1>9, <2>1
    <3>3. /\ desc'[t][Filled(1, n).next] = Filled(2, n)
          /\ n = 3 => desc'[t][Filled(2, n).next] = Filled(3, n)
      <4> HIDE DEF n, t, a, s0, s1, s2
      <4>1. QED
        BY <1>8, <2>2
    <3> HIDE DEF n, t, a, s0, s1, s2
    <3>4. CASE n = 2
      BY <2>2, <3>1, <3>2, <3>3, <3>4
    <3>5. CASE n = 3
      BY <2>2, <3>1, <3>2, <3>3, <3>5
    <3>6. QED
      BY <1>2, <3>4, <3>5
  <2>4. \A i \in 1 .. n : Chain(t)'[i] = Filled(i, n)
    <3> HIDE DEF n, t, a, s0, s1, s2
    <3>1. \A i \in 1 .. n : i = 1 \/ i = 2 \/ (i = 3 /\ n = 3)
      BY <1>2
    <3>2. QED
      BY <1>2, <2>3, <3>1
  <2>5. Len(Chain(t)') = n
    <3> HIDE DEF n, t, a, s0, s1, s2
    <3>1. QED
      BY <1>2, <2>3
  <2>6. QED
    BY <1>6, <1>7, <2>4, <2>5 DEF ChainIsRequest
<1>13. Requested'
  BY <1>1, <1>7, <1>12 DEF IInv, Requested, Busy
<1>14. Shapes' /\ Phases' /\ BlocksAreApart' /\ Kept'
  BY <1>1, <1>7 DEF IInv, Shapes, Phases, BlocksAreApart, Kept, Busy
<1>15. TypeOK'
  <2>1. desc_idx' \in Index
    BY <1>1, <1>2, <1>4, AdvanceValue
  <2>2. QED
    BY <1>1, <1>7, <1>8, <1>9, <2>1 DEF IInv, TypeOK
<1>16. QED
  BY <1>11, <1>13, <1>14, <1>15 DEF IInv

LEMMA Publishes == IInv /\ Publish => IInv'
<1> SUFFICES ASSUME IInv, Publish
             PROVE  IInv'
  OBVIOUS
<1> DEFINE t == Target
           a == avail[t].idx
<1>1. /\ pc = "publish" /\ pc' = "await"
      /\ avail' = [avail EXCEPT ![t].idx = Advance(a, 1)]
      /\ UNCHANGED <<arenaVars, desc_idx, desc, last_used_idx, deviceVars, callVars,
                     request, answer>>
  BY DEF Publish
<1>2. UNCHANGED <<used_idx, dev_idx, served, todo, found, call, script, fb, result, calls,
                  heap, heap_save, live, kept_heap>> /\ Target' = t /\ Parts' = Parts
  BY <1>1 DEF deviceVars, callVars, arenaVars, Target, Parts
<1>3. t \in Queue /\ avail \in [Queue -> [ring : [Slot -> Slot], idx : Index]]
  BY PartsValue DEF IInv, TypeOK
<1>4. Advance(a, 1) \in Index
  <2>1. a \in Index
    BY <1>3
  <2> HIDE DEF a
  <2>2. QED
    BY <2>1, AdvanceValue
<1>5. /\ avail' \in [Queue -> [ring : [Slot -> Slot], idx : Index]]
      /\ avail'[t].idx = Advance(a, 1) /\ avail'[t].ring = avail[t].ring
      /\ \A k \in Queue : k # t => avail'[k] = avail[k]
  BY <1>1, <1>3, <1>4
<1>6. \A k \in Queue : Quiet(k)
  BY <1>1 DEF IInv, OneChain
<1>7. OneChain'
  <2>1. \A k \in Queue : k # t => Quiet(k)'
    BY <1>1, <1>2, <1>5, <1>6 DEF Quiet
  <2>2. /\ last_used_idx'[t] = a /\ used_idx'[t] = a /\ dev_idx'[t] = a
    BY <1>1, <1>2, <1>3, <1>6 DEF Quiet
  <2>3. QED
    BY <1>1, <1>2, <1>5, <2>1, <2>2 DEF OneChain
<1>8. ChainIsRequest(t)'
  <2>1. ChainIsRequest(t)
    BY <1>1 DEF IInv, Requested
  <2>2. Chain(t)' = Chain(t)
    <3>1. desc' = desc /\ dev_idx' = dev_idx /\ Target' = Target
          /\ avail'[Target].ring = avail[Target].ring
      BY <1>1, <1>2, <1>5
    <3>2. QED
      BY <3>1 DEF Chain
  <2>3. QED
    BY <1>2, <2>1, <2>2 DEF ChainIsRequest
<1>9. Requested'
  BY <1>1, <1>2, <1>8 DEF IInv, Requested, Busy
<1>10. Served' /\ Returned'
  <2>1. dev_idx'[t] = last_used_idx'[t]
    BY <1>1, <1>2, <1>3, <1>6 DEF Quiet
  <2>2. QED
    BY <1>1, <1>2, <2>1 DEF Served, Returned
<1>11. Shapes' /\ Phases' /\ BlocksAreApart' /\ Kept'
  BY <1>1, <1>2 DEF IInv, Shapes, Phases, BlocksAreApart, Kept, Busy
<1>12. TypeOK'
  BY <1>1, <1>2, <1>5 DEF IInv, TypeOK
<1>13. QED
  BY <1>7, <1>9, <1>10, <1>11, <1>12 DEF IInv

(***************************************************************************)
(* The device.                                                             *)
(***************************************************************************)
LEMMA ChainAtDevice ==
    ASSUME IInv, NEW k \in Queue, Pending(k)
    PROVE  /\ pc = "await" /\ k = Target /\ dev_idx[k] = last_used_idx[k]
           /\ ChainIsRequest(k)
<1>1. pc = "await" /\ k = Target
  BY DEF IInv, OneChain, Quiet, Pending
<1>2. dev_idx[k] = last_used_idx[k]
  BY <1>1 DEF IInv, OneChain, Pending
<1>3. QED
  BY <1>1, <1>2 DEF IInv, Requested

LEMMA Serves ==
    ASSUME IInv, NEW k \in Queue, DeviceServes(k)
    PROVE  IInv'
<1>1. /\ Pending(k) /\ dev_idx[k] = used_idx[k]
      /\ dev_idx' = [dev_idx EXCEPT ![k] = (@ + 1) % INDEX]
      /\ UNCHANGED <<arenaVars, queueVars, used_idx, callVars, request, pc>>
  BY DEF DeviceServes
<1>2. pc = "await" /\ k = Target /\ dev_idx[k] = last_used_idx[k] /\ ChainIsRequest(k)
  BY <1>1, ChainAtDevice
<1>3. /\ Len(Chain(k)) = Len(Parts) /\ Len(Parts) = IF call.kind = "transfer" THEN 3 ELSE 2
      /\ \A i \in 1 .. Len(Parts) : /\ Chain(k)[i].addr = Parts[i].addr
                                    /\ Chain(k)[i].flags = Parts[i].flags
  BY <1>2, PartsValue DEF ChainIsRequest
<1>4. /\ Chain(k)[1].addr = request.at
      /\ Chain(k)[Len(Chain(k))].addr = answer.at
      /\ "WRITE" \in Chain(k)[Len(Chain(k))].flags
      /\ call.kind = "transfer" =>
            /\ Chain(k)[2].addr = call.buffer
            /\ Chain(k)[2].flags = IF call.what[1] = "in" THEN {"NEXT", "WRITE"} ELSE {"NEXT"}
  <2>1. 1 \in 1 .. Len(Parts) /\ 2 \in 1 .. Len(Parts) /\ Len(Parts) \in 1 .. Len(Parts)
    BY <1>3
  <2>2. QED
    BY <1>3, <2>1, PartsValue
<1>5. PICK value \in {"ok", "error"} :
        /\ served' = [what |-> ReadsAt(Chain(k)[1].addr), value |-> value,
                      data |-> {<<Chain(k)[i].addr, Chain(k)[i].flags>> :
                                     i \in 2 .. Len(Chain(k)) - 1}]
        /\ answer' = [answer EXCEPT !.value = value]
  BY <1>4 DEF DeviceServes
<1>6. UNCHANGED <<heap, heap_save, live, kept_heap, desc_idx, desc, avail, last_used_idx,
                  todo, found, call, script, fb, result, calls>> /\ Target' = Target
  BY <1>1 DEF arenaVars, queueVars, callVars, Target
<1>7. /\ answer' \in [at : Nat, value : {"zero", "unset", "ok", "error"}]
      /\ answer'.at = answer.at /\ answer'.value = value
  BY <1>5 DEF IInv, Shapes
<1>8. dev_idx \in [Queue -> Index] /\ last_used_idx \in [Queue -> Index]
  BY DEF IInv, TypeOK
<1>9. /\ dev_idx' \in [Queue -> Index] /\ dev_idx'[k] = Advance(dev_idx[k], 1)
      /\ Advance(dev_idx[k], 1) # dev_idx[k]
      /\ \A j \in Queue : j # k => dev_idx'[j] = dev_idx[j]
  <2>1. dev_idx[k] \in Index
    BY <1>8
  <2>2. Advance(dev_idx[k], 1) \in Index /\ Advance(dev_idx[k], 1) # dev_idx[k]
    BY <2>1, AdvanceValue
  <2>3. dev_idx' = [dev_idx EXCEPT ![k] = Advance(dev_idx[k], 1)]
    BY <1>1 DEF Advance
  <2>4. QED
    BY <1>8, <2>2, <2>3
<1>10. OneChain'
  <2>1. \A j \in Queue : j # k => Quiet(j)'
    BY <1>1, <1>2, <1>6, <1>9 DEF IInv, OneChain, Quiet
  <2>2. dev_idx'[k] = avail[k].idx /\ used_idx[k] = last_used_idx[k]
    BY <1>1, <1>2, <1>9 DEF IInv, OneChain
  <2>3. QED
    BY <1>1, <1>2, <1>6, <2>1, <2>2 DEF IInv, OneChain
<1>11. Requested'
  <2>1. dev_idx'[Target'] # last_used_idx'[Target'] /\ pc' = "await"
    BY <1>1, <1>2, <1>6, <1>9
  <2>2. QED
    BY <1>1, <1>2, <1>6, <1>7, <2>1 DEF IInv, Requested, Busy
<1>12. Served'
  <2>1. CASE call.kind = "transfer"
    <3>1. served'.what = call.what
      <4>1. request.what = call.what
        BY <1>2, <2>1 DEF IInv, Requested, Busy
      <4>2. QED
        BY <1>4, <1>5, <4>1 DEF ReadsAt
    <3>2. served'.data = {<<Chain(k)[2].addr, Chain(k)[2].flags>>}
      <4>1. 2 .. Len(Chain(k)) - 1 = {2}
        BY <1>3, <2>1
      <4>2. served'.data = {<<Chain(k)[i].addr, Chain(k)[i].flags>> : i \in {2}}
        BY <1>5, <4>1
      <4>3. QED
        BY <4>2
    <3>3. served'.value = value
      BY <1>5
    <3>4. QED
      BY <1>4, <1>6, <1>7, <2>1, <3>1, <3>2, <3>3 DEF Served
  <2>2. CASE call.kind # "transfer"
    BY <1>6, <2>2 DEF Served
  <2>3. QED
    BY <2>1, <2>2
<1>13. Returned'
  BY <1>1, <1>2 DEF Returned
<1>14. Shapes' /\ Phases' /\ BlocksAreApart' /\ Kept'
  BY <1>1, <1>6, <1>7 DEF IInv, Shapes, Phases, BlocksAreApart, Kept, Busy
<1>15. TypeOK'
  BY <1>1, <1>6, <1>7, <1>9 DEF IInv, TypeOK
<1>16. QED
  BY <1>10, <1>11, <1>12, <1>13, <1>14, <1>15 DEF IInv

LEMMA Reports ==
    ASSUME IInv, NEW k \in Queue, DeviceReports(k)
    PROVE  IInv'
<1>1. /\ dev_idx[k] # used_idx[k]
      /\ used_idx' = [used_idx EXCEPT ![k] = (@ + 1) % INDEX]
      /\ UNCHANGED <<arenaVars, queueVars, dev_idx, served, callVars, request, answer, pc>>
  BY DEF DeviceReports
<1>2. pc = "await" /\ k = Target
  BY <1>1 DEF IInv, OneChain, Quiet
<1>3. UNCHANGED <<heap, heap_save, live, kept_heap, desc_idx, desc, avail, last_used_idx,
                  todo, found, call, script, fb, result, calls>>
      /\ Target' = Target /\ Parts' = Parts
  BY <1>1 DEF arenaVars, queueVars, callVars, Target, Parts
<1>4. used_idx \in [Queue -> Index]
  BY DEF IInv, TypeOK
<1>5. /\ used_idx' \in [Queue -> Index] /\ used_idx'[k] = Advance(used_idx[k], 1)
      /\ \A j \in Queue : j # k => used_idx'[j] = used_idx[j]
  <2>1. used_idx[k] \in Index
    BY <1>4
  <2>2. Advance(used_idx[k], 1) \in Index
    BY <2>1, AdvanceValue
  <2>3. used_idx' = [used_idx EXCEPT ![k] = Advance(used_idx[k], 1)]
    BY <1>1 DEF Advance
  <2>4. QED
    BY <1>4, <2>2, <2>3
<1>6. OneChain'
  <2>1. \A j \in Queue : j # k => Quiet(j)'
    BY <1>1, <1>2, <1>3, <1>5 DEF IInv, OneChain, Quiet
  <2>2. used_idx[k] = last_used_idx[k] /\ dev_idx[k] = avail[k].idx
        /\ avail[k].idx = Advance(last_used_idx[k], 1)
    BY <1>1, <1>2 DEF IInv, OneChain
  <2>3. QED
    BY <1>1, <1>2, <1>3, <1>5, <2>1, <2>2 DEF OneChain
<1>7. Requested'
  <2>1. Chain(Target)' = Chain(Target)
    BY <1>1, <1>3 DEF Chain
  <2>2. ChainIsRequest(Target)' <=> ChainIsRequest(Target)
    BY <1>3, <2>1 DEF ChainIsRequest
  <2>3. QED
    BY <1>1, <1>3, <2>2 DEF IInv, Requested, Busy
<1>8. Served' /\ Returned'
  BY <1>1, <1>3 DEF IInv, Served, Returned
<1>9. Shapes' /\ Phases' /\ BlocksAreApart' /\ Kept'
  BY <1>1, <1>3 DEF IInv, Shapes, Phases, BlocksAreApart, Kept, Busy
<1>10. TypeOK'
  BY <1>1, <1>3, <1>5 DEF IInv, TypeOK
<1>11. QED
  BY <1>6, <1>7, <1>8, <1>9, <1>10 DEF IInv

(***************************************************************************)
(* The answer.                                                             *)
(***************************************************************************)
LEMMA Awaits ==
    ASSUME IInv, Await, pc' # "await", pc' # "publish"
    PROVE  /\ pc = "await" /\ dev_idx[Target] # last_used_idx[Target]
           /\ OneChain' /\ Served' /\ (pc' \notin Busy => Requested')
           /\ last_used_idx' \in [Queue -> Index]
<1> DEFINE t == Target
           l == last_used_idx[t]
<1>1. /\ pc = "await" /\ used_idx[t] # l
      /\ last_used_idx' = [last_used_idx EXCEPT ![t] = Advance(l, 1)]
      /\ UNCHANGED <<desc, avail, deviceVars, call>>
  BY DEF Await, Answered
<1>2. t \in Queue /\ last_used_idx \in [Queue -> Index]
  BY PartsValue DEF IInv, TypeOK
<1>3. /\ used_idx[t] = dev_idx[t] /\ dev_idx[t] = avail[t].idx
      /\ avail[t].idx = Advance(l, 1)
      /\ \A k \in Queue : k # t => Quiet(k)
  BY <1>1 DEF IInv, OneChain
<1>4. l \in Index /\ Advance(l, 1) \in Index
  <2>1. l \in Index
    BY <1>2
  <2> HIDE DEF l
  <2>2. QED
    BY <2>1, AdvanceValue
<1>5. /\ last_used_idx' \in [Queue -> Index] /\ last_used_idx'[t] = Advance(l, 1)
      /\ \A k \in Queue : k # t => last_used_idx'[k] = last_used_idx[k]
  BY <1>1, <1>2, <1>4
<1>6. \A k \in Queue : Quiet(k)'
  BY <1>1, <1>3, <1>5 DEF Quiet, deviceVars
<1>7. QED
  BY <1>1, <1>3, <1>5, <1>6 DEF OneChain, Served, Requested, Busy

LEMMA TransferEnds == IInv /\ TransferReturns => IInv'
<1> SUFFICES ASSUME IInv, TransferReturns
             PROVE  IInv'
  OBVIOUS
<1>1. /\ Await /\ call.kind = "transfer" /\ pc' = "ready"
      /\ result' = IF answer.value = "ok" THEN "ok" ELSE "failed"
      /\ heap' = heap_save /\ live' = {b \in live : b.owner # "call"}
      /\ UNCHANGED <<script, fb>>
  BY DEF TransferReturns, ResetArena
<1>2. UNCHANGED <<kept_heap, heap_save, desc_idx, desc, avail, deviceVars, todo, found, call,
                  calls, request, answer>>
  BY <1>1 DEF Await
<1>3. /\ pc = "await" /\ dev_idx[Target] # last_used_idx[Target]
      /\ OneChain' /\ Served' /\ Requested' /\ last_used_idx' \in [Queue -> Index]
  BY <1>1, Awaits DEF Busy
<1>4. call # Boot /\ heap \in Nat /\ kept_heap \in Nat /\ live \subseteq Block
  BY <1>1 DEF Boot, IInv, TypeOK
<1>5. BlocksAreApart' /\ Kept'
  <2>1. /\ heap' = kept_heap /\ kept_heap <= heap /\ heap <= HEAP_SIZE
        /\ \A b \in live' : b \in live /\ b.owner # "call" /\ b.at + b.size <= kept_heap
    BY <1>1, <1>3, <1>4 DEF IInv, Kept, BlocksAreApart
  <2>2. BlocksAreApart'
    BY <1>3, <1>4, <2>1, SizeFacts DEF IInv, BlocksAreApart
  <2>3. QED
    BY <1>1, <1>2, <1>4, <2>1, <2>2 DEF IInv, Kept
<1>6. Returned'
  BY <1>1, <1>2, <1>3 DEF IInv, Served, Returned, deviceVars
<1>7. TypeOK' /\ Shapes' /\ Phases'
  BY <1>1, <1>2, <1>3 DEF IInv, TypeOK, Shapes, Phases, Busy, deviceVars
<1>8. QED
  BY <1>3, <1>5, <1>6, <1>7 DEF IInv

LEMMA FlushEnds == IInv /\ FlushReturns => IInv'
<1> SUFFICES ASSUME IInv, FlushReturns
             PROVE  IInv'
  OBVIOUS
<1>1. /\ Await /\ call = Flush /\ pc' = "ready" /\ script' = << >>
      /\ heap' = heap_save /\ live' = {b \in live : b.owner # "call"}
      /\ UNCHANGED <<fb, result>>
  BY DEF FlushReturns, ResetArena
<1>2. UNCHANGED <<kept_heap, heap_save, desc_idx, desc, avail, deviceVars, todo, found, call,
                  calls, request, answer>>
  BY <1>1 DEF Await
<1>3. /\ pc = "await"
      /\ OneChain' /\ Served' /\ Requested' /\ last_used_idx' \in [Queue -> Index]
  BY <1>1, Awaits DEF Busy
<1>4. /\ call # Boot /\ call.kind = "flush"
      /\ heap \in Nat /\ kept_heap \in Nat /\ live \subseteq Block
  BY <1>1 DEF Boot, Flush, IInv, TypeOK
<1>5. BlocksAreApart' /\ Kept'
  <2>1. /\ heap' = kept_heap /\ kept_heap <= heap /\ heap <= HEAP_SIZE
        /\ \A b \in live' : b \in live /\ b.owner # "call" /\ b.at + b.size <= kept_heap
    BY <1>1, <1>3, <1>4 DEF IInv, Kept, BlocksAreApart
  <2>2. BlocksAreApart'
    BY <1>3, <1>4, <2>1, SizeFacts DEF IInv, BlocksAreApart
  <2>3. QED
    BY <1>1, <1>2, <1>4, <2>1, <2>2 DEF IInv, Kept
<1>6. Returned'
  BY <1>2, <1>4 DEF Returned
<1>7. TypeOK' /\ Shapes' /\ Phases'
  BY <1>1, <1>2, <1>3, <1>4 DEF IInv, TypeOK, Shapes, Phases, Busy, deviceVars
<1>8. QED
  BY <1>3, <1>5, <1>6, <1>7 DEF IInv

LEMMA CommandEnds == IInv /\ (CommandAnswered \/ InitDone) => IInv'
<1> SUFFICES ASSUME IInv, CommandAnswered \/ InitDone
             PROVE  IInv'
  OBVIOUS
<1>1. /\ Await /\ call.kind # "transfer"
      /\ UNCHANGED <<heap, live, result>>
  BY DEF CommandAnswered, InitDone, Boot
<1>2. UNCHANGED <<kept_heap, heap_save, desc_idx, desc, avail, deviceVars, todo, found, call,
                  calls, request, answer>> /\ pc = "await"
  BY <1>1 DEF Await
<1>3. call = Boot \/ call = Flush
  BY <1>1, <1>2, CallKinds DEF IInv, Phases, Shapes, Busy, Execute, Transfer
<1>4. /\ pc' \in {"probe", "framebuffer"} => call = Boot
      /\ pc' \in {"probe", "framebuffer", "gpu_command"}
      /\ pc' # "probe" => script' # << >>
      /\ script' \in Seq(Command) /\ fb' \in Nat
      /\ call = Flush => \A i \in 1 .. Len(script') : script'[i].what # "create"
  <2>1. /\ script \in Seq(Command) /\ fb \in Nat /\ DEFAULT_FB \in Nat
        /\ FbSize \subseteq Nat
        /\ call = Flush => \A i \in 1 .. Len(script) : script[i].what # "create"
    BY ArenaAssumption DEF IInv, Shapes, TypeOK
  <2>2. CASE CommandAnswered
    <3>1. Len(script) > 1 /\ script' = Tail(script)
      BY <2>2 DEF CommandAnswered
    <3>2. /\ script' \in Seq(Command) /\ script' # << >> /\ Head(script) = script[1]
          /\ \A i \in 1 .. Len(script') : script'[i] = script[i + 1] /\ i + 1 \in 1 .. Len(script)
      BY <2>1, <3>1, TailValue
    <3>3. fb' \in Nat
      BY <2>1, <2>2 DEF CommandAnswered
    <3>4. pc' = IF Head(script).what = "create" THEN "framebuffer" ELSE "gpu_command"
      BY <2>2 DEF CommandAnswered
    <3>5. pc' = "framebuffer" => call = Boot
      <4>1. 1 \in 1 .. Len(script)
        BY <2>1, <3>1
      <4>2. call = Flush => Head(script).what # "create"
        BY <2>1, <3>2, <4>1
      <4>3. QED
        BY <1>3, <3>4, <4>2
    <3>6. call = Flush => \A i \in 1 .. Len(script') : script'[i].what # "create"
      BY <2>1, <3>2
    <3>7. QED
      BY <3>2, <3>3, <3>4, <3>5, <3>6
  <2>3. CASE InitDone
    <3>1. call = Boot /\ script' = << >> /\ pc' = "probe" /\ fb' = fb /\ Boot # Flush
      BY <2>3 DEF InitDone, Boot, Flush
    <3>2. QED
      BY <2>1, <3>1
  <2>4. QED
    BY <2>2, <2>3
<1>5. OneChain' /\ Served' /\ Requested' /\ last_used_idx' \in [Queue -> Index]
  BY <1>1, <1>4, Awaits DEF Busy
<1>6. BlocksAreApart' /\ Kept' /\ Returned'
  BY <1>1, <1>2, <1>3, <1>4 DEF IInv, BlocksAreApart, Kept, Returned, Boot, Flush
<1>7. TypeOK' /\ Shapes' /\ Phases'
  BY <1>1, <1>2, <1>3, <1>4, <1>5 DEF IInv, TypeOK, Shapes, Phases, Busy, deviceVars
<1>8. QED
  BY <1>5, <1>6, <1>7 DEF IInv

(***************************************************************************)
(* The theorems.                                                           *)
(***************************************************************************)
LEMMA StepKeeps == IInv /\ [Next]_vars => IInv'
<1> SUFFICES ASSUME IInv, [Next]_vars
             PROVE  IInv'
  OBVIOUS
<1>1. CASE DriverStep
  BY <1>1, Probes, ProbeEnds, Commands, Frames, Submits, Publishes, TransferEnds,
     FlushEnds, CommandEnds DEF DriverStep
<1>2. CASE DeviceStep
  BY <1>2, Serves, Reports DEF DeviceStep
<1>3. CASE Call
  BY <1>3, Transfers, Flushes, CallsFail, Executes DEF Call
<1>4. CASE UNCHANGED vars
  <2>1. UNCHANGED <<heap, heap_save, live, kept_heap, desc_idx, desc, avail, last_used_idx,
                    used_idx, dev_idx, served, todo, found, call, script, fb, result, calls,
                    request, answer, pc>>
    BY <1>4 DEF vars, arenaVars, queueVars, deviceVars, callVars
  <2>2. /\ Parts' = Parts /\ Target' = Target
        /\ \A k \in Queue : Chain(k)' = Chain(k) /\ (Quiet(k)' <=> Quiet(k))
    BY <2>1 DEF Parts, Target, Chain, Quiet
  <2>3. ChainIsRequest(Target)' <=> ChainIsRequest(Target)
    BY <2>2, PartsValue DEF ChainIsRequest
  <2>4. TypeOK' /\ Shapes' /\ Phases' /\ BlocksAreApart' /\ Kept'
    BY <2>1 DEF IInv, TypeOK, Shapes, Phases, BlocksAreApart, Kept
  <2>5. OneChain' /\ Requested' /\ Served' /\ Returned'
    BY <2>1, <2>2, <2>3 DEF IInv, OneChain, Requested, Served, Returned
  <2>6. QED
    BY <2>4, <2>5 DEF IInv
<1>5. QED
  BY <1>1, <1>2, <1>3, <1>4 DEF Next

LEMMA Invariance == Spec => []IInv
  BY InitHolds, StepKeeps, PTL DEF Spec

\* The types of arena, rings and driver, for every size of queue, index and arena.
THEOREM VirtioTypeCorrect == Spec => []TypeOK
  BY Invariance, PTL DEF IInv

\* bump_allocate never hands out a byte twice, as long as the mapped arena lasts.
THEOREM AllocationsLieApart == Spec => []BlocksAreApart
  BY Invariance, PTL DEF IInv

\* The snapshot of a call takes back what the call has taken, and nothing else.
THEOREM SnapshotRestoresArena == Spec => []ArenaIsRestored
<1>1. IInv => ArenaIsRestored
  <2> SUFFICES ASSUME IInv, pc = "ready"
               PROVE  heap = kept_heap /\ \A b \in live : b.owner \in {"boot", "vm"}
                                                /\ b.at + b.size <= kept_heap
    BY DEF ArenaIsRestored
  <2>1. \A b \in live : b.owner \in {"boot", "call", "vm"}
    BY DEF IInv, TypeOK, Block
  <2>2. QED
    BY <2>1 DEF IInv, Kept
<1>2. QED
  BY <1>1, Invariance, PTL

\* A device never comes to a chain that is not the request being made, with the
\* counter of descriptors and the indices wrapping anywhere.
THEOREM ChainsAreRequests == Spec => []DeviceFindsRequest
<1>1. IInv => DeviceFindsRequest
  <2> SUFFICES ASSUME IInv, NEW k \in found \cap Queue, Pending(k), pc # "panic"
               PROVE  /\ pc = "await" /\ k = Target
                      /\ [i \in 1 .. Len(Chain(k)) |-> [addr |-> Chain(k)[i].addr,
                                 flags |-> Chain(k)[i].flags]] = Parts
                      /\ \E b \in live : b.at = request.at
                      /\ \E b \in live : b.at = answer.at
    BY DEF DeviceFindsRequest
  <2>1. pc = "await" /\ k = Target /\ ChainIsRequest(k)
    BY ChainAtDevice
  <2>2. [i \in 1 .. Len(Chain(k)) |-> [addr |-> Chain(k)[i].addr,
                                      flags |-> Chain(k)[i].flags]] = Parts
    <3>1. Parts \in Seq([addr : Nat, flags : SUBSET {"NEXT", "WRITE"}])
      BY PartsValue
    <3>2. \A i \in 1 .. Len(Parts) :
              [addr |-> Chain(k)[i].addr, flags |-> Chain(k)[i].flags] = Parts[i]
      <4> SUFFICES ASSUME NEW i \in 1 .. Len(Parts)
                   PROVE  [addr |-> Chain(k)[i].addr, flags |-> Chain(k)[i].flags] = Parts[i]
        OBVIOUS
      <4> DEFINE S == [addr : Nat, flags : SUBSET {"NEXT", "WRITE"}]
      <4>1. Parts[i] \in S
        <5> HIDE DEF S
        <5>1. Parts \in Seq(S)
          BY <3>1 DEF S
        <5>2. QED
          BY <5>1
      <4>2. QED
        BY <2>1, <4>1 DEF ChainIsRequest
    <3>3. Len(Chain(k)) = Len(Parts)
      BY <2>1 DEF ChainIsRequest
    <3>4. [i \in 1 .. Len(Chain(k)) |-> [addr |-> Chain(k)[i].addr,
                flags |-> Chain(k)[i].flags]] = [i \in 1 .. Len(Parts) |-> Parts[i]]
      BY <3>2, <3>3
    <3>5. Parts = [i \in 1 .. Len(Parts) |-> Parts[i]]
      BY <3>1
    <3>6. QED
      BY <3>4, <3>5
  <2>3. QED
    BY <2>1, <2>2 DEF IInv, Requested, Busy
<1>2. QED
  BY <1>1, Invariance, PTL

\* A transfer returns the device's answer to this very transfer.
THEOREM AnswersAreNotStale == Spec => []ResultIsOfThisTransfer
<1>1. IInv => ResultIsOfThisTransfer
  BY DEF IInv, Returned, OneChain, Quiet, ResultIsOfThisTransfer
<1>2. QED
  BY <1>1, Invariance, PTL

(***************************************************************************)
(* Calls come to an end.                                                   *)
(***************************************************************************)
AtRest == pc \in {"ready", "probe", "panic"}

\* How far the running request is from its answer.
ToAnswer ==
    CASE pc = "framebuffer" -> 7 [] pc = "gpu_command" -> 6
      [] pc = "submit" -> 5 [] pc = "publish" -> 4
      [] pc = "await" ->
            IF dev_idx[Target] = last_used_idx[Target] THEN 3
            ELSE IF used_idx[Target] = last_used_idx[Target] THEN 2 ELSE 1

\* And the call, or the setup of the GPU, with the commands that are still to be sent.
Remaining ==
    IF AtRest THEN 0
    ELSE IF call.kind = "transfer" THEN ToAnswer
    ELSE 7 * (Len(script) - 1) + ToAnswer

LEMMA RemainingValue ==
    ASSUME IInv, ~AtRest
    PROVE  /\ ToAnswer \in 1 .. 7 /\ Target \in Queue
           /\ call.kind # "transfer" => Len(script) \in Nat /\ Len(script) >= 1
<1>1. pc \in {"gpu_command", "framebuffer", "submit", "publish", "await"}
  BY DEF IInv, TypeOK, AtRest
<1>2. ToAnswer \in 1 .. 7
  BY <1>1 DEF ToAnswer
<1>3. call.kind # "transfer" => Len(script) \in Nat /\ Len(script) >= 1
  <2>1. SUFFICES ASSUME call.kind # "transfer"
                 PROVE  Len(script) \in Nat /\ Len(script) >= 1
    OBVIOUS
  <2>2. script \in Seq(Command) /\ script # << >>
    BY <1>1, <2>1 DEF IInv, Shapes, Phases, Busy
  <2> HIDE DEF Command
  <2>3. QED
    BY <2>2
<1>4. QED
  BY <1>2, <1>3, PartsValue

\* A step within a request, or one that ends the call.
LEMMA RequestGetsOn ==
    ASSUME IInv, ~AtRest,
           AtRest' \/ (ToAnswer' < ToAnswer /\ ToAnswer' \in 1 .. 7 /\ UNCHANGED <<call, script>>)
    PROVE  Remaining' < Remaining
<1>1. Remaining \in Nat /\ Remaining >= 1
  <2>1. CASE call.kind = "transfer"
    BY <2>1, RemainingValue DEF Remaining
  <2>2. CASE call.kind # "transfer"
    <3>1. Remaining = 7 * (Len(script) - 1) + ToAnswer
      BY <2>2 DEF Remaining
    <3>2. QED
      BY <2>2, <3>1, RemainingValue
  <2>3. QED
    BY <2>1, <2>2
<1>2. CASE AtRest'
  BY <1>1, <1>2 DEF Remaining
<1>3. CASE ~AtRest'
  <2>1. ToAnswer' < ToAnswer /\ ToAnswer' \in 1 .. 7 /\ UNCHANGED <<call, script>>
    BY <1>3
  <2>2. CASE call.kind = "transfer"
    BY <1>3, <2>1, <2>2 DEF Remaining
  <2>3. CASE call.kind # "transfer"
    <3>1. /\ Remaining = 7 * (Len(script) - 1) + ToAnswer
          /\ Remaining' = 7 * (Len(script) - 1) + ToAnswer'
      BY <1>3, <2>1, <2>3 DEF Remaining
    <3>2. Len(script) \in Nat /\ ToAnswer \in 1 .. 7
      BY <2>3, RemainingValue
    <3>3. QED
      BY <2>1, <3>1, <3>2
  <2>4. QED
    BY <2>2, <2>3
<1>4. QED
  BY <1>2, <1>3

\* A command that has been answered is off the script.
LEMMA CommandGetsOn ==
    ASSUME IInv, CommandAnswered
    PROVE  Remaining' < Remaining
<1>1. /\ pc = "await" /\ call' = call /\ call.kind # "transfer" /\ Len(script) > 1
      /\ script' = Tail(script) /\ pc' \in {"framebuffer", "gpu_command"}
  BY DEF CommandAnswered, Await
<1>2. script \in Seq(Command)
  BY DEF IInv, Shapes
<1>3. Len(script) \in Nat /\ Len(script') = Len(script) - 1
  <2> HIDE DEF Command
  <2>1. QED
    BY <1>1, <1>2
<1>4. ~AtRest /\ ~AtRest' /\ ToAnswer \in 1 .. 7
  BY <1>1, RemainingValue DEF AtRest
<1>5. ToAnswer' \in {6, 7}
  BY <1>1 DEF ToAnswer
<1>6. /\ Remaining = 7 * (Len(script) - 1) + ToAnswer
      /\ Remaining' = 7 * (Len(script') - 1) + ToAnswer'
  BY <1>1, <1>4 DEF Remaining
<1>7. QED
  BY <1>1, <1>3, <1>4, <1>5, <1>6

LEMMA DriverGetsOn ==
    ASSUME IInv, DriverStep, ~AtRest
    PROVE  Remaining' < Remaining
<1>1. CASE GpuCommand \/ Framebuffer \/ Publish
  <2>1. /\ UNCHANGED <<call, script, dev_idx, last_used_idx, used_idx>> /\ Target' = Target
        /\ \/ pc = "gpu_command" /\ pc' \in {"submit", "panic"}
           \/ pc = "framebuffer" /\ pc' \in {"gpu_command", "panic"}
           \/ pc = "publish" /\ pc' = "await"
    BY <1>1 DEF GpuCommand, Framebuffer, Publish, Take, callVars, queueVars, deviceVars, Target
  <2>2. AtRest' \/ (ToAnswer' < ToAnswer /\ ToAnswer' \in 1 .. 7)
    BY <2>1 DEF ToAnswer, AtRest
  <2>3. QED
    BY <2>1, <2>2, RequestGetsOn
<1>2. CASE Submit
  <2>1. UNCHANGED <<call, script>> /\ pc = "submit" /\ pc' = "publish"
    BY <1>2 DEF Submit, callVars
  <2>2. ToAnswer' = 4 /\ ToAnswer = 5
    BY <2>1 DEF ToAnswer
  <2>3. QED
    BY <2>1, <2>2, RequestGetsOn
<1>3. CASE TransferReturns \/ InitDone \/ FlushReturns
  <2>1. AtRest'
    BY <1>3 DEF TransferReturns, InitDone, FlushReturns, AtRest
  <2>2. QED
    BY <2>1, RequestGetsOn
<1>4. CASE CommandAnswered
  BY <1>4, CommandGetsOn
<1>5. QED
  BY <1>1, <1>2, <1>3, <1>4 DEF DriverStep, ProbeInput, ProbeBlk, ProbeGpu, ProbeDone, AtRest

LEMMA DeviceGetsOn ==
    ASSUME IInv, DeviceStep, ~AtRest
    PROVE  Remaining' < Remaining
<1>1. PICK k \in Queue : DeviceServes(k) \/ DeviceReports(k)
  BY DEF DeviceStep
<1>2. /\ UNCHANGED <<call, script, pc, last_used_idx>> /\ Target' = Target
  BY <1>1 DEF DeviceServes, DeviceReports, callVars, queueVars, Target
<1>3. /\ last_used_idx[k] \in Index /\ dev_idx \in [Queue -> Index]
      /\ used_idx \in [Queue -> Index]
  BY DEF IInv, TypeOK
<1>4. CASE DeviceServes(k)
  <2>1. /\ Pending(k) /\ dev_idx[k] = used_idx[k] /\ used_idx' = used_idx
        /\ dev_idx' = [dev_idx EXCEPT ![k] = Advance(@, 1)]
    BY <1>4 DEF DeviceServes, Advance
  <2>2. pc = "await" /\ k = Target /\ dev_idx[k] = last_used_idx[k]
    BY <2>1, ChainAtDevice
  <2>3. dev_idx'[k] # last_used_idx[k]
    <3>1. dev_idx'[k] = Advance(last_used_idx[k], 1)
      BY <1>3, <2>1, <2>2
    <3>2. QED
      BY <1>3, <3>1, AdvanceValue
  <2>4. ToAnswer = 3 /\ ToAnswer' = 2
    BY <1>2, <2>1, <2>2, <2>3 DEF ToAnswer
  <2>5. QED
    BY <1>2, <2>4, RequestGetsOn
<1>5. CASE DeviceReports(k)
  <2>1. /\ dev_idx[k] # used_idx[k] /\ dev_idx' = dev_idx
        /\ used_idx' = [used_idx EXCEPT ![k] = Advance(@, 1)]
    BY <1>5 DEF DeviceReports, Advance
  <2>2. pc = "await" /\ k = Target /\ used_idx[k] = last_used_idx[k]
    BY <2>1 DEF IInv, OneChain, Quiet
  <2>3. used_idx'[k] # last_used_idx[k]
    <3>1. used_idx'[k] = Advance(last_used_idx[k], 1)
      BY <1>3, <2>1, <2>2
    <3>2. QED
      BY <1>3, <3>1, AdvanceValue
  <2>4. ToAnswer = 2 /\ ToAnswer' = 1
    BY <1>2, <2>1, <2>2, <2>3 DEF ToAnswer
  <2>5. QED
    BY <1>2, <2>4, RequestGetsOn
<1>6. QED
  BY <1>1, <1>4, <1>5

\* Whoever moves, the driver or a device, a call and the setup of the GPU get closer to
\* their end, with the indices wrapping anywhere: no answer is taken twice, none is
\* waited for twice, and nobody else's is counted.
THEOREM CallsGetOn == Spec => [][~AtRest => Remaining' < Remaining]_vars
<1>1. IInv /\ [Next]_vars => [~AtRest => Remaining' < Remaining]_vars
  <2>1. SUFFICES ASSUME IInv, Next, ~AtRest
                 PROVE  Remaining' < Remaining
    OBVIOUS
  <2>2. ~Call
    BY <2>1 DEF Call, CallTransfer, CallFlush, CallWithoutDevice, CallExecute, Idle, AtRest
  <2>3. QED
    BY <2>1, <2>2, DriverGetsOn, DeviceGetsOn DEF Next
<1>2. QED
  BY <1>1, Invariance, PTL DEF Spec

\* The GPU gets commands when there is one.
GpuIsThere ==
    ((pc \in {"gpu_command", "framebuffer"} \/ pc \in Busy) /\ call.kind # "transfer")
        => "gpu" \in found

LEMMA StepGpu == IInv /\ GpuIsThere /\ [Next]_vars => GpuIsThere'
<1> SUFFICES ASSUME IInv, GpuIsThere, [Next]_vars
             PROVE  GpuIsThere'
  OBVIOUS
<1>1. CASE ProbeInput \/ ProbeBlk \/ ProbeGpu \/ ProbeDone
  BY <1>1 DEF ProbeInput, ProbeBlk, ProbeGpu, ProbeDone, Take, GpuIsThere, Busy
<1>2. CASE GpuCommand \/ Framebuffer \/ Submit \/ Publish
  BY <1>2 DEF GpuCommand, Framebuffer, Submit, Publish, Take, callVars, GpuIsThere, Busy
<1>3. CASE TransferReturns \/ CommandAnswered \/ InitDone \/ FlushReturns
  BY <1>3 DEF TransferReturns, CommandAnswered, InitDone, FlushReturns, Await, GpuIsThere, Busy
<1>4. CASE DeviceStep
  BY <1>4 DEF DeviceStep, DeviceServes, DeviceReports, callVars, GpuIsThere, Busy
<1>5. CASE Call
  <2>1. CASE CallFlush \/ CallWithoutDevice \/ \E size \in EvalSize : CallExecute(size)
    BY <2>1 DEF CallFlush, CallWithoutDevice, CallExecute, Take, Idle, GpuIsThere, Busy
  <2>2. CASE \E type \in {"in", "out"}, sector \in Sector, buffer \in Buffer :
                CallTransfer(type, sector, buffer)
    BY <2>2 DEF CallTransfer, Transfer, GpuIsThere
  <2>3. QED
    BY <1>5, <2>1, <2>2 DEF Call
<1>6. CASE UNCHANGED vars
  BY <1>6 DEF vars, callVars, GpuIsThere
<1>7. QED
  BY <1>1, <1>2, <1>3, <1>4, <1>5, <1>6 DEF Next, DriverStep

\* While the driver waits, the answer is there, or the device has it and has not reported,
\* or the request is in the queue for it to take.
NobodyWaitsForNothing ==
    pc = "await" =>
        \/ Answered
        \/ dev_idx[Target] # used_idx[Target]
        \/ Target \in found /\ Pending(Target) /\ dev_idx[Target] = used_idx[Target]

\* There is no lost wakeup in while (used->idx == last_used_idx): the driver does not wait
\* for a device that waits for the driver.
THEOREM AwaitedAnswersComing == Spec => []NobodyWaitsForNothing
<1>1. Init => GpuIsThere
  BY DEF Init, GpuIsThere, Busy
<1>2. IInv /\ GpuIsThere => NobodyWaitsForNothing
  <2>1. SUFFICES ASSUME IInv, GpuIsThere, pc = "await", ~Answered,
                        dev_idx[Target] = used_idx[Target]
                 PROVE  Target \in found /\ Pending(Target)
    BY DEF NobodyWaitsForNothing
  <2>2. Target \in found
    BY <2>1 DEF IInv, Phases, GpuIsThere, Busy, Target
  <2>3. /\ dev_idx[Target] = last_used_idx[Target] /\ last_used_idx[Target] \in Index
        /\ avail[Target].idx = Advance(last_used_idx[Target], 1)
    BY <2>1, PartsValue DEF IInv, OneChain, Answered, TypeOK
  <2>4. QED
    BY <2>2, <2>3, AdvanceValue DEF Pending
<1>3. QED
  BY <1>1, <1>2, StepGpu, Invariance, PTL DEF Spec

(***************************************************************************)
(* The disk as its callers see it.                                         *)
(***************************************************************************)
\* The words of a transfer.
LEMMA TransferFields ==
    ASSUME NEW type, NEW sector, NEW buffer, call = Transfer(type, sector, buffer)
    PROVE  /\ call.kind = "transfer" /\ call.what = <<type, sector>> /\ call.buffer = buffer
           /\ call.what[1] = type
  BY DEF Transfer

\* Outside of a transfer the service is idle.
LEMMA IdleService ==
    Stage = "idle" => Ordered = Disk!NoOrder /\ DeviceWord = Disk!NoWord
  BY DEF Ordered, DeviceWord, Disk!NoOrder, Disk!NoWord, NoOrder, Nothing

LEMMA StillIdle ==
    ASSUME Stage = "idle", Stage' = "idle"
    PROVE  Ordered' = Ordered /\ DeviceWord' = DeviceWord
  BY DEF Ordered, DeviceWord, NoOrder, Nothing

LEMMA SameService ==
    ASSUME Stage' = Stage, Ordered' = Ordered, DeviceWord' = DeviceWord,
           UNCHANGED <<found, result>>
    PROVE  UNCHANGED Disk!vars
  BY DEF Disk!vars

LEMMA StaysIdle ==
    ASSUME Stage = "idle", Stage' = "idle", UNCHANGED <<found, result>>
    PROVE  UNCHANGED Disk!vars
  BY StillIdle, SameService

LEMMA InitService == Init => Disk!Init
<1> SUFFICES ASSUME Init
             PROVE  Disk!Init
  OBVIOUS
<1>1. Stage = "idle" /\ found = {} /\ result = "none"
  BY DEF Init, Boot, Stage
<1>2. QED
  BY <1>1, IdleService DEF Disk!Init

LEMMA BootOfService ==
    ASSUME IInv, ProbeInput \/ ProbeBlk \/ ProbeGpu \/ ProbeDone \/ Framebuffer
    PROVE  [Disk!Next]_Disk!vars
<1>1. call = Boot
  BY DEF ProbeInput, ProbeBlk, ProbeGpu, ProbeDone, Framebuffer, IInv, Phases
<1>2. call' = call /\ result' = result
  BY DEF ProbeInput, ProbeBlk, ProbeGpu, ProbeDone, Framebuffer, callVars
<1>3. Stage = "idle" /\ Stage' = "idle"
  BY <1>1, <1>2 DEF Boot, Stage
<1>4. found \subseteq found'
  BY DEF ProbeInput, ProbeBlk, ProbeGpu, ProbeDone, Framebuffer, callVars
<1>5. Ordered' = Ordered /\ DeviceWord' = DeviceWord
  BY <1>3, StillIdle
<1>6. CASE "blk" \in found' <=> "blk" \in found
  BY <1>2, <1>3, <1>5, <1>6 DEF Disk!vars
<1>7. CASE ~("blk" \in found' <=> "blk" \in found)
  <2>1. "blk" \notin found /\ "blk" \in found'
    BY <1>4, <1>7
  <2>2. Disk!Appear
    BY <1>2, <1>3, <1>5, <2>1 DEF Disk!Appear
  <2>3. QED
    BY <2>2 DEF Disk!Next
<1>8. QED
  BY <1>6, <1>7

\* Commands of the GPU, evaluations and calls that return at once.
LEMMA OthersOfService ==
    ASSUME IInv, GpuCommand \/ CommandAnswered \/ InitDone \/ FlushReturns
                    \/ CallFlush \/ \E size \in EvalSize : CallExecute(size)
    PROVE  UNCHANGED Disk!vars
<1>1. UNCHANGED <<found, result>>
  BY DEF GpuCommand, CommandAnswered, InitDone, FlushReturns, CallFlush, CallExecute, Await,
     callVars
<1>2. (call.kind # "transfer" \/ pc = "ready") /\ call'.kind # "transfer"
  <2>1. CASE GpuCommand
    BY <2>1 DEF GpuCommand, IInv, Phases, Boot, Flush, callVars
  <2>2. CASE CommandAnswered \/ InitDone \/ FlushReturns
    <3>1. call' = call
      BY <2>2 DEF CommandAnswered, InitDone, FlushReturns, Await
    <3>2. call.kind # "transfer"
      BY <2>2 DEF CommandAnswered, InitDone, FlushReturns, Boot, Flush
    <3>3. QED
      BY <3>1, <3>2
  <2>3. CASE CallFlush
    BY <2>3 DEF CallFlush, Idle, Flush
  <2>4. ASSUME NEW size \in EvalSize, CallExecute(size)
        PROVE  pc = "ready" /\ call' = Execute
    BY <2>4 DEF CallExecute, Idle
  <2>5. QED
    BY <2>4, <2>3, <2>2, <2>1 DEF Execute
<1>3. Stage = "idle" /\ Stage' = "idle"
  BY <1>2 DEF Stage, Busy
<1>4. QED
  BY <1>1, <1>3, StaysIdle

LEMMA WithoutDisk == CallWithoutDevice => [Disk!Next]_Disk!vars
<1> SUFFICES ASSUME CallWithoutDevice
             PROVE  [Disk!Next]_Disk!vars
  OBVIOUS
<1>1. /\ pc = "ready" /\ pc' = pc /\ UNCHANGED <<found, call>>
      /\ ("blk" \notin found /\ result' = "failed") \/ result' = result
  BY DEF CallWithoutDevice, Idle
<1>2. Stage = "idle" /\ Stage' = "idle"
  BY <1>1 DEF Stage, Busy
<1>3. Ordered' = Ordered /\ DeviceWord' = DeviceWord
  BY <1>2, StillIdle
<1>4. CASE result' = result
  BY <1>1, <1>2, <1>4, StaysIdle
<1>5. CASE "blk" \notin found /\ result' = "failed"
  <2>1. Disk!FailWithoutDisk
    BY <1>1, <1>2, <1>3, <1>5 DEF Disk!FailWithoutDisk
  <2>2. QED
    BY <2>1 DEF Disk!Next
<1>6. QED
  BY <1>1, <1>4, <1>5

\* The call begins: the request is in the arena, or the arena was full.
LEMMA AsksService ==
    ASSUME IInv, NEW type \in {"in", "out"}, NEW sector \in Sector, NEW buffer \in Buffer,
           CallTransfer(type, sector, buffer)
    PROVE  [Disk!Next]_Disk!vars
<1>1. /\ pc = "ready" /\ pc' \in {"submit", "panic"} /\ "blk" \in found
      /\ call' = Transfer(type, sector, buffer)
      /\ UNCHANGED <<found, result>>
  BY DEF CallTransfer, Idle, Take
<1>2. Stage = "idle"
  BY <1>1 DEF Stage, Busy
<1>3. CASE pc' = "panic"
  <2>1. Stage' = "idle"
    BY <1>3 DEF Stage, Busy
  <2>2. QED
    BY <1>1, <1>2, <2>1, StaysIdle
<1>4. CASE pc' = "submit"
  <2>1. /\ call'.kind = "transfer" /\ call'.what = <<type, sector>> /\ call'.buffer = buffer
        /\ call'.what[1] = type
    BY <1>1 DEF Transfer
  <2>2. Stage' = "asked"
    BY <1>4, <2>1 DEF Stage, Busy
  <2>3. Ordered' = Disk!Order(type, sector, buffer)
    BY <2>1, <2>2 DEF Ordered, Disk!Order
  <2>4. DeviceWord = Disk!NoWord /\ DeviceWord' = DeviceWord
    BY <1>2, <2>2, IdleService DEF DeviceWord, Disk!NoWord, Disk!NoOrder, NoOrder, Nothing
  <2>5. Disk!Ask(type, sector, buffer)
    BY <1>1, <1>2, <2>2, <2>3, <2>4 DEF Disk!Ask
  <2>6. QED
    BY <2>5 DEF Disk!Next, Disk!Direction
<1>5. QED
  BY <1>1, <1>3, <1>4

\* The chain is laid out and published.
LEMMA LaysOutForService ==
    ASSUME IInv, Submit \/ Publish
    PROVE  UNCHANGED Disk!vars
<1>1. /\ UNCHANGED <<found, result, call, dev_idx, last_used_idx>>
      /\ pc \in {"submit", "publish"} /\ pc' \in {"publish", "await"}
  BY DEF Submit, Publish, callVars, deviceVars, queueVars
<1>2. call.kind = "transfer" => dev_idx["blk"] = last_used_idx["blk"]
  BY <1>1 DEF IInv, OneChain, Quiet, Queue
<1>3. Stage' = Stage /\ Stage # "served" /\ Stage' # "served"
  BY <1>1, <1>2 DEF Stage, Busy
<1>4. Ordered' = Ordered /\ DeviceWord' = DeviceWord
  BY <1>1, <1>3 DEF Ordered, DeviceWord
<1>5. QED
  BY <1>1, <1>3, <1>4, SameService

\* The order of a transfer that runs.
LEMMA OrderedValue ==
    ASSUME IInv, Stage # "idle"
    PROVE  /\ call.kind = "transfer" /\ Target = "blk" /\ pc \in Busy
           /\ call.what[1] \in {"in", "out"}
           /\ Ordered = [what |-> call.what, moves |-> {<<call.buffer, call.what[1]>>}]
<1>1. call.kind = "transfer" /\ pc \in Busy
  BY DEF Stage
<1>2. \E type \in {"in", "out"}, sector \in Sector, buffer \in Buffer :
            call = Transfer(type, sector, buffer)
  BY <1>1 DEF IInv, Shapes, Boot, Flush, Execute
<1>3. QED
  BY <1>1, <1>2, TransferFields DEF Target, Ordered

LEMMA ServesService ==
    ASSUME IInv, NEW k \in Queue, DeviceServes(k)
    PROVE  [Disk!Next]_Disk!vars
<1>1. /\ Pending(k) /\ dev_idx' = [dev_idx EXCEPT ![k] = (@ + 1) % INDEX]
      /\ UNCHANGED <<call, found, result, last_used_idx, pc>>
      /\ IInv'
  BY Serves DEF DeviceServes, callVars, queueVars
<1>2. pc = "await" /\ k = Target /\ dev_idx[k] = last_used_idx[k]
  BY <1>1, ChainAtDevice
<1>3. dev_idx'[k] # last_used_idx'[k]
  <2>1. dev_idx \in [Queue -> Index] /\ dev_idx[k] \in Index
    BY DEF IInv, TypeOK
  <2>2. Advance(dev_idx[k], 1) # dev_idx[k]
    BY <2>1, AdvanceValue
  <2>3. QED
    BY <1>1, <1>2, <2>1, <2>2 DEF Advance
<1>4. CASE call.kind = "transfer"
  <2>1. k = "blk" /\ Target' = "blk"
    BY <1>1, <1>2, <1>4 DEF Target
  <2>2. Stage = "asked" /\ Stage' = "served"
    BY <1>1, <1>2, <1>3, <1>4, <2>1 DEF Stage, Busy
  <2>3. Ordered' = Ordered
    BY <1>1, <2>2 DEF Ordered
  <2>4. /\ served'.what = call.what
        /\ served'.data = {<<call.buffer,
                             IF call.what[1] = "in" THEN {"NEXT", "WRITE"} ELSE {"NEXT"}>>}
    BY <1>1, <1>2, <1>3, <1>4, <2>1 DEF IInv, Served
  <2>5. served'.value \in {"ok", "error"}
    BY DEF DeviceServes
  <2>6. /\ call.what[1] \in {"in", "out"}
        /\ Ordered = [what |-> call.what, moves |-> {<<call.buffer, call.what[1]>>}]
    BY <2>2, OrderedValue
  <2>7. {<<m[1], Direction(m[2])>> : m \in served'.data} = {<<call.buffer, call.what[1]>>}
    BY <2>4, <2>6 DEF Direction
  <2>8. CarriedOut' = Ordered
    BY <2>4, <2>6, <2>7 DEF CarriedOut
  <2>9. DeviceWord' = [order |-> Ordered, value |-> served'.value]
    BY <2>2, <2>8 DEF DeviceWord
  <2>10. Disk!Serve
    BY <1>1, <2>2, <2>3, <2>5, <2>9 DEF Disk!Serve
  <2>11. QED
    BY <2>10 DEF Disk!Next
<1>5. CASE call.kind # "transfer"
  <2>1. Stage = "idle" /\ Stage' = "idle"
    BY <1>1, <1>5 DEF Stage
  <2>2. QED
    BY <1>1, <2>1, StaysIdle
<1>6. QED
  BY <1>4, <1>5

LEMMA ReportsToService ==
    ASSUME NEW k \in Queue, DeviceReports(k)
    PROVE  UNCHANGED Disk!vars
<1>1. UNCHANGED <<call, found, result, last_used_idx, dev_idx, served, pc>>
  BY DEF DeviceReports, callVars, queueVars
<1>2. Stage' = Stage /\ CarriedOut' = CarriedOut
  BY <1>1 DEF Stage, CarriedOut
<1>3. Ordered' = Ordered /\ DeviceWord' = DeviceWord
  BY <1>1, <1>2 DEF Ordered, DeviceWord
<1>4. QED
  BY <1>1, <1>2, <1>3, SameService

LEMMA ReturnsService ==
    ASSUME IInv, TransferReturns
    PROVE  Disk!Return
<1>1. /\ Await /\ call.kind = "transfer" /\ pc' = "ready"
      /\ result' = IF answer.value = "ok" THEN "ok" ELSE "failed"
      /\ found' = found
  BY DEF TransferReturns, Await
<1>2. pc = "await" /\ dev_idx[Target] # last_used_idx[Target] /\ Target = "blk"
  BY <1>1, Awaits DEF Target
<1>3. Stage = "served" /\ Stage' = "idle"
  BY <1>1, <1>2 DEF Stage, Busy
<1>4. answer.value = served.value
  BY <1>1, <1>2 DEF IInv, Served
<1>5. DeviceWord.value = served.value
  BY <1>3 DEF DeviceWord
<1>6. Ordered' = Disk!NoOrder /\ DeviceWord' = Disk!NoWord
  BY <1>3 DEF Ordered, DeviceWord, Disk!NoOrder, Disk!NoWord, NoOrder, Nothing
<1>7. QED
  BY <1>1, <1>3, <1>4, <1>5, <1>6 DEF Disk!Return

LEMMA StepService == IInv /\ [Next]_vars => [Disk!Next]_Disk!vars
<1> SUFFICES ASSUME IInv, [Next]_vars
             PROVE  [Disk!Next]_Disk!vars
  OBVIOUS
<1>1. CASE ProbeInput \/ ProbeBlk \/ ProbeGpu \/ ProbeDone \/ Framebuffer
  BY <1>1, BootOfService
<1>2. CASE GpuCommand \/ CommandAnswered \/ InitDone \/ FlushReturns
             \/ CallFlush \/ \E size \in EvalSize : CallExecute(size)
  BY <1>2, OthersOfService
<1>3. CASE CallWithoutDevice
  BY <1>3, WithoutDisk
<1>4. ASSUME NEW type \in {"in", "out"}, NEW sector \in Sector, NEW buffer \in Buffer,
             CallTransfer(type, sector, buffer)
      PROVE  [Disk!Next]_Disk!vars
  BY <1>4, AsksService
<1>5. CASE Submit \/ Publish
  BY <1>5, LaysOutForService
<1>6. ASSUME NEW k \in Queue, DeviceServes(k)
      PROVE  [Disk!Next]_Disk!vars
  BY <1>6, ServesService
<1>7. ASSUME NEW k \in Queue, DeviceReports(k)
      PROVE  [Disk!Next]_Disk!vars
  BY <1>7, ReportsToService
<1>8. CASE TransferReturns
  BY <1>8, ReturnsService DEF Disk!Next
<1>9. CASE UNCHANGED vars
  <2>1. UNCHANGED <<call, found, result, last_used_idx, dev_idx, served, pc>>
    BY <1>9 DEF vars, callVars, queueVars, deviceVars
  <2>2. Stage' = Stage /\ CarriedOut' = CarriedOut
    BY <2>1 DEF Stage, CarriedOut
  <2>3. Ordered' = Ordered /\ DeviceWord' = DeviceWord
    BY <2>1, <2>2 DEF Ordered, DeviceWord
  <2>4. QED
    BY <2>1, <2>2, <2>3, SameService
<1>10. QED
  BY <1>1, <1>2, <1>3, <1>4, <1>5, <1>6, <1>7, <1>8, <1>9
  DEF Next, DriverStep, DeviceStep, Call

\* The block queue implements DiskService: whatever the GPU and the evaluations do, the
\* indices wrap and the device delays, it carries out each transfer once, as asked, while
\* the call runs, and the call returns its word.
THEOREM TransfersAreServed == Spec => ServesTransfers
<1>1. Spec => Disk!Spec
  BY InitService, StepService, Invariance, PTL DEF Spec, Disk!Spec
<1>2. QED
  BY <1>1 DEF ServesTransfers
=============================================================================
