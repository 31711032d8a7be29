------------------------------ MODULE Watcher ------------------------------
(***************************************************************************)
(* The watcher of kernel/watcher.c: the ring of the last                   *)
(* WATCHER_HISTORY_MAX events of the kernel, and the bridge that writes    *)
(* the ledger commits among them to LEDGER.LOG.  Logging is one step, for  *)
(* the kernel is not interrupted.  A sync is one step per append, since    *)
(* the machine may be switched off between two of them; all of the watcher *)
(* is in RAM and a boot starts it afresh.                                  *)
(*                                                                         *)
(* LEDGER.LOG is what fs_append_file_content of modules/fs/fat32.c makes   *)
(* of it: one sector, for an append adds no cluster, and a size.  An       *)
(* append that may fail at each of its transfers is one step with as many  *)
(* outcomes; Fat32 has the transfers one by one.                           *)
(***************************************************************************)
EXTENDS Naturals, Sequences, FiniteSets

CONSTANTS
    WATCHER_HISTORY_MAX,    \* slots of the ring (64)
    SECTOR,                 \* characters of a sector (512)
    TextLength,             \* characters of the text of each event (at most 63)
    MaxEvents,              \* bound: events logged in a behaviour
    MaxBoots,               \* bound: boots after the first
    MaxFaults               \* bound: appends that fail

ASSUME HistoryAssumption == WATCHER_HISTORY_MAX \in Nat \ {0}
ASSUME BoundAssumption == MaxEvents \in Nat /\ MaxBoots \in Nat /\ MaxFaults \in Nat
ASSUME LedgerAssumption ==
    SECTOR \in Nat \ {0} /\ TextLength \in [1 .. MaxEvents -> 1 .. SECTOR]

\* A VM commit, which belongs in the ledger, or any other event.
EventType == {"LEDGER_COMMIT", "OTHER"}

Slot == 0 .. WATCHER_HISTORY_MAX - 1
\* Faulty variant: the index is not wrapped.
NextSlotUnwrapped(i) == i + 1

NextSlot(i) == (i + 1) % WATCHER_HISTORY_MAX

\* Events are named by their number, from 1; slot contents are numbers, and 0
\* is a slot whose timestamp is still 0.
Blank == 0

\* What is appended to LEDGER.LOG: the text of an event, or a newline.
NewLine == 0
Length(x) == IF x = NewLine THEN 1 ELSE TextLength[x]

\* The places of a sector, and the k-th character of what is appended; a character of
\* no text stands for what a sector held before.
Place == 0 .. SECTOR - 1
Char(x, k) == [text |-> x, at |-> k]
Stale == Char(NewLine, 0)

VARIABLES
    events,         \* watcher.events: the event in each slot
    head,           \* watcher.head: where the next event goes
    tail,           \* watcher.tail: the oldest event
    count,          \* watcher.count
    sync_cursor,    \* the first slot the next sync looks at
    pc,             \* "idle", or where a running sync is
    current,        \* the slot a running sync looks at
    report,         \* what the last sync printed, until an event is logged
    history,        \* history: the type of every event ever logged
    boot,           \* history: how many events were logged before this boot
    boots,          \* bound counter: boots so far
    sector,         \* the sector of LEDGER.LOG
    size,           \* its size in the directory; it has no entry while that is 0
    lost,           \* history: the events whose append failed
    missed,         \* history: whether LEDGER.LOG grew by a text that was not written
    faults          \* bound counter: appends that failed

ringVars == <<events, head, tail, count>>
syncVars == <<sync_cursor, pc, current, report>>
diskVars == <<sector, size, lost, missed, faults>>
vars == <<ringVars, syncVars, history, boot, boots, diskVars>>

TypeOK ==
    /\ events \in [Slot -> 0 .. MaxEvents]
    /\ head \in Slot
    /\ tail \in Slot
    /\ count \in 0 .. WATCHER_HISTORY_MAX
    /\ sync_cursor \in Slot
    /\ pc \in {"idle", "entry", "newline"}
    /\ current \in Slot
    /\ report \in {"none", "up_to_date", "complete"}
    /\ history \in Seq(EventType)
    /\ boot \in 0 .. Len(history)
    /\ boots \in 0 .. MaxBoots
    /\ sector \in [Place -> [text : Nat, at : Nat]]
    /\ size \in Nat
    /\ lost \in SUBSET Nat
    /\ missed \in BOOLEAN
    /\ faults \in 0 .. MaxFaults

Fresh ==
    /\ events' = [s \in Slot |-> Blank]
    /\ head' = 0 /\ tail' = 0 /\ count' = 0
    /\ sync_cursor' = 0
    /\ pc' = "idle" /\ current' = 0 /\ report' = "none"

Init ==
    /\ events = [s \in Slot |-> Blank]
    /\ head = 0 /\ tail = 0 /\ count = 0
    /\ sync_cursor = 0
    /\ pc = "idle" /\ current = 0 /\ report = "none"
    /\ history = << >>
    /\ boot = 0 /\ boots = 0
    /\ sector = [i \in Place |-> Stale] /\ size = 0
    /\ lost = {} /\ missed = FALSE /\ faults = 0

(***************************************************************************)
(* watcher_log_event (and watcher_commit_ledger, which formats its text).  *)
(***************************************************************************)
Record(type) ==
    /\ Len(history) < MaxEvents
    /\ history' = Append(history, type)
    /\ events' = [events EXCEPT ![head] = Len(history) + 1]
    /\ head' = NextSlot(head)
    /\ report' = "none"
    /\ UNCHANGED <<pc, current, boot, boots, diskVars>>

LogIntoFree(type) ==
    /\ pc = "idle"
    /\ count < WATCHER_HISTORY_MAX
    /\ Record(type)
    /\ count' = count + 1
    /\ UNCHANGED <<tail, sync_cursor>>

\* Faulty variants: the tail stays, or the cursor is not pushed forward.
LogOverOldestTailKept(type) ==
    /\ pc = "idle"
    /\ count = WATCHER_HISTORY_MAX
    /\ Record(type)
    /\ UNCHANGED <<tail, sync_cursor, count>>

LogOverOldestCursorKept(type) ==
    /\ pc = "idle"
    /\ count = WATCHER_HISTORY_MAX
    /\ Record(type)
    /\ tail' = NextSlot(tail)
    /\ UNCHANGED <<sync_cursor, count>>

\* The ring is full: the oldest event goes, and a cursor on it moves with the tail.
LogOverOldest(type) ==
    /\ pc = "idle"
    /\ count = WATCHER_HISTORY_MAX
    /\ Record(type)
    /\ tail' = NextSlot(tail)
    /\ sync_cursor' = IF sync_cursor = tail THEN NextSlot(tail) ELSE sync_cursor
    /\ UNCHANGED count

watcher_log_event(type) == LogIntoFree(type) \/ LogOverOldest(type)

(***************************************************************************)
(* watcher_sync_to_disk.                                                   *)
(***************************************************************************)
\* Faulty variant: the cursor is compared with the wrong end of the ring.
SyncUpToDateAtTail ==
    /\ pc = "idle"
    /\ sync_cursor = tail
    /\ report' = "up_to_date"
    /\ UNCHANGED <<ringVars, sync_cursor, pc, current, history, boot, boots, diskVars>>

SyncUpToDate ==
    /\ pc = "idle"
    /\ sync_cursor = head
    /\ report' = "up_to_date"
    /\ UNCHANGED <<ringVars, sync_cursor, pc, current, history, boot, boots, diskVars>>

SyncStart ==
    /\ pc = "idle"
    /\ sync_cursor # head
    /\ pc' = "entry"
    /\ current' = sync_cursor
    /\ UNCHANGED <<ringVars, sync_cursor, report, history, boot, boots, diskVars>>

\* fs_append_file_content: what is left of the last sector takes the text, from its
\* beginning on when the file ends on its edge; what does not fit is left out.
Offset == size % SECTOR
Copied(x) == IF Length(x) < SECTOR - Offset THEN Length(x) ELSE SECTOR - Offset
Filled(x) ==
    [i \in Place |-> IF i >= Offset /\ i < Offset + Copied(x)
                     THEN Char(x, i - Offset + 1) ELSE sector[i]]

\* Faulty variant: the size in the directory is not updated.
AppendedInPlace(x) ==
    /\ sector' = Filled(x)
    /\ UNCHANGED <<size, lost, missed, faults>>

Appended(x) ==
    /\ sector' = Filled(x) /\ size' = size + Copied(x)
    /\ UNCHANGED <<lost, missed, faults>>

\* A transfer fails before anything is written, after the data (a file that is only
\* being made then has no entry yet), or it is the write of the data that fails, which
\* is not noticed: the file grows by what the sector held before.
AppendFails(x) ==
    /\ faults < MaxFaults /\ faults' = faults + 1
    /\ lost' = lost \cup ({x} \ {NewLine})
    /\ \/ UNCHANGED <<sector, size, missed>>
       \/ size > 0 /\ sector' = Filled(x) /\ UNCHANGED <<size, missed>>
       \/ size' = size + Copied(x) /\ missed' = TRUE /\ UNCHANGED sector

\* fs_append_file_content returns nothing: an append that fails is not noticed.
FileAppend(x) == Appended(x) \/ AppendFails(x)

InLedger(e) == e # Blank /\ history[e] = "LEDGER_COMMIT"

SyncEntry ==
    /\ pc = "entry"
    /\ current # head
    /\ InLedger(events[current])
    /\ FileAppend(events[current])
    /\ pc' = "newline"
    /\ UNCHANGED <<ringVars, sync_cursor, current, report, history, boot, boots>>

SyncNewLine ==
    /\ pc = "newline"
    /\ FileAppend(NewLine)
    /\ current' = NextSlot(current)
    /\ pc' = "entry"
    /\ UNCHANGED <<ringVars, sync_cursor, report, history, boot, boots>>

\* Faulty variants: the loop does not stop at the head, or does not go on.
SyncSkipPastHead ==
    /\ pc = "entry"
    /\ ~InLedger(events[current])
    /\ current' = NextSlot(current)
    /\ UNCHANGED <<ringVars, sync_cursor, pc, report, history, boot, boots, diskVars>>

SyncSkipInPlace ==
    /\ pc = "entry"
    /\ current # head
    /\ ~InLedger(events[current])
    /\ UNCHANGED vars

SyncSkip ==
    /\ pc = "entry"
    /\ current # head
    /\ ~InLedger(events[current])
    /\ current' = NextSlot(current)
    /\ UNCHANGED <<ringVars, sync_cursor, pc, report, history, boot, boots, diskVars>>

\* Faulty variant: the high-water mark is not updated.
SyncDoneCursorKept ==
    /\ pc = "entry"
    /\ current = head
    /\ report' = "complete"
    /\ pc' = "idle"
    /\ UNCHANGED <<ringVars, sync_cursor, current, history, boot, boots, diskVars>>

SyncDone ==
    /\ pc = "entry"
    /\ current = head
    /\ sync_cursor' = head
    /\ report' = "complete"
    /\ pc' = "idle"
    /\ UNCHANGED <<ringVars, current, history, boot, boots, diskVars>>

(***************************************************************************)
(* The machine is switched off at any moment; watcher_init runs at boot.   *)
(***************************************************************************)
Reboot ==
    /\ boots < MaxBoots
    /\ boots' = boots + 1
    /\ Fresh
    /\ boot' = Len(history)
    /\ UNCHANGED <<history, diskVars>>

SyncStep == SyncEntry \/ SyncNewLine \/ SyncSkip \/ SyncDone

Next ==
    \/ \E type \in EventType : watcher_log_event(type)
    \/ SyncUpToDate \/ SyncStart \/ SyncStep
    \/ Reboot

\* A sync that has begun runs on: nothing preempts the kernel.
Spec == Init /\ [][Next]_vars /\ WF_vars(SyncStep)

(***************************************************************************)
(* Properties.                                                             *)
(***************************************************************************)
\* The slot k places after slot s.
After(s, k) == (s + k) % WATCHER_HISTORY_MAX

\* watcher_dump_history: the slots it prints, in the order it prints them.
Dump == [i \in 1 .. count |-> events[After(tail, i - 1)]]

Logged == Len(history)

\* agent.why shows the newest events of this boot, all of them until the ring
\* is full, oldest first: eviction never skips or repeats one.
DumpIsLatestEvents ==
    /\ count = IF Logged - boot < WATCHER_HISTORY_MAX
               THEN Logged - boot ELSE WATCHER_HISTORY_MAX
    /\ \A i \in 1 .. count : Dump[i] = Logged - count + i

\* The indices agree: head lies count places after tail, and sync_cursor and a
\* running sync stay between the two, so that a sync reads no overwritten and no
\* uninitialised slot.
RingShape ==
    /\ head = After(tail, count)
    /\ \E k \in 0 .. count : sync_cursor = After(tail, k)
    /\ pc # "idle" => \E k \in 0 .. count : current = After(tail, k)

\* The characters of LEDGER.LOG, while it has not come to the edge of its sector.
Fits == size < SECTOR
Written == {i \in Place : i < size}

\* The high-water mark makes syncing idempotent: over any mixture of logging, syncs,
\* failed appends and boots, whether power fails between a text and its newline or
\* between the entries and the update of the mark, LEDGER.LOG holds the texts in the
\* order of their commits, none of them twice and none interrupted by another.  That
\* is as long as the ledger fits its sector and no write of its data has failed unnoticed.
LedgerInOrderWithoutDuplicates ==
    (Fits /\ ~missed) =>
        \A i, j \in Written :
            (i < j /\ sector[i].text # NewLine /\ sector[j].text # NewLine) =>
                \/ sector[i].text < sector[j].text
                \/ sector[i].text = sector[j].text /\ sector[j].at = sector[i].at + (j - i)

\* The whole text of an event is in LEDGER.LOG.
Persisted(e) ==
    \E i \in Written :
        /\ i + TextLength[e] <= size
        /\ \A k \in 1 .. TextLength[e] : sector[i + k - 1] = Char(e, k)

Live == {events[s] : s \in Slot} \ {Blank}
LiveCommits == {e \in Live : history[e] = "LEDGER_COMMIT"}

\* Every ledger commit in the ring is in LEDGER.LOG, all of its text, or its append has
\* failed, as long as the ledger fits its sector.
RingPersisted == Fits => \A e \in LiveCommits : Persisted(e) \/ e \in lost

\* When a sync reports "Sync Complete", every ledger commit in the ring is on disk,
\* written in this sync or an earlier one, but for those whose append failed.
CompleteSyncCoversRing ==
    report = "complete" => RingPersisted

\* While the ring has not been full, so it is when a sync reports "up to date".
UpToDateBeforeWrap ==
    (report = "up_to_date" /\ count < WATCHER_HISTORY_MAX) => RingPersisted

\* "Ledger is up to date. No new entries to sync.": nothing in the ring waits.
UpToDateMeansSynced ==
    report = "up_to_date" => RingPersisted

\* A full ring whose cursor stands on the head (which is then the tail too).
Wedged == count = WATCHER_HISTORY_MAX /\ sync_cursor = head /\ pc = "idle"

\* What becomes of the ledger once the ring is full and a sync has caught up, or
\* the ring has filled without one: every new event pushes the cursor along, each
\* sync finds cursor = head, and nothing reaches LEDGER.LOG until the next boot.
WedgedUntilBoot ==
    [][Wedged => boots' = boots + 1 \/ (Wedged' /\ UNCHANGED <<sector, size>>)]_vars

\* The loop of a sync around the ring ends.
SyncEnds == pc # "idle" ~> pc = "idle"
=============================================================================
