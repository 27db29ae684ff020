------------------------------- MODULE FlatDB -------------------------------
(***************************************************************************)
(* The block database (src/database/ffldb).  Blocks are appended to        *)
(* numbered flat files, metadata (the index of block locations, the        *)
(* position of the write cursor, and the callers' keys) goes to a cache in *)
(* memory that is flushed to leveldb.  One write transaction at a time,    *)
(* readers work on snapshots.                                              *)
(*                                                                         *)
(* The disk is modelled by what survives a loss of power: page is what the *)
(* operating system shows, disk what has been synced.  A block is          *)
(* BlockLen[b] units long, the header and checksum of its record included, *)
(* and a unit of a file is the pair of a block and a position in it.       *)
(***************************************************************************)
EXTENDS Integers, Sequences, FiniteSets

CONSTANTS
    Blocks,         \* the blocks callers may store
    BlockLen,       \* length of the record of each block in a file
    MaxFileSize,    \* blockStore.maxBlockFileSize
    UserKeys,       \* metadata keys of the callers
    Values,         \* their values
    WriteLoc,       \* the metadata key of the write cursor
    Readers,        \* read-only transactions
    MaxFaults,      \* bound on failing calls to the file system and leveldb
    MaxStops        \* bound on kills of the process and losses of power

ASSUME LengthsAssumption ==
    /\ MaxFileSize \in Nat
    /\ BlockLen \in [Blocks -> 1..MaxFileSize]
ASSUME KeysAssumption ==
    /\ Blocks \cap UserKeys = {}
    /\ WriteLoc \notin Blocks \cup UserKeys
ASSUME BoundsAssumption == MaxFaults \in Nat /\ MaxStops \in Nat

VARIABLES
    page,           \* contents of the existing block files as read back
    disk,           \* contents of the block files that are known to be on disk
    cursor,         \* writeCursor.curFileNum and curOffset
    writing,        \* writeCursor.curFile.file is open
    ldb,            \* the leveldb database
    ldbBusy,        \* a leveldb transaction is still open after a failed Commit
    cached,         \* dbCache.cachedKeys and cachedRemove
    tx,             \* the write transaction, or Close, with its place in the code
    reader,         \* the read-only transactions
    status,         \* the database as a whole
    closedDirty,    \* files whose last handle was closed before a sync
    lost,           \* indexed blocks a loss of power has destroyed
    lossy,          \* power was lost while closedDirty was not empty
    faults,         \* failing calls so far
    stops           \* kills and losses of power so far

store == <<page, disk, cursor, writing, closedDirty>>
meta  == <<ldb, ldbBusy, cached>>
ghost == <<lost, lossy>>
vars  == <<store, meta, tx, reader, status, ghost, faults, stops>>

-----------------------------------------------------------------------------
(***************************************************************************)
(* Metadata: maps with pending updates on top.                             *)
(***************************************************************************)
NoKeys == [k \in {} |-> {}]

NoUpdate == [keys |-> NoKeys, removed |-> {}]

\* What is read through updates u on top of m: pendingRemove is consulted first.
Overlay(m, u) ==
    [k \in (DOMAIN m \cup DOMAIN u.keys) \ u.removed |->
        IF k \in DOMAIN u.keys THEN u.keys[k] ELSE m[k]]

\* transaction.putKey
PutKey(t, k, v) ==
    [t EXCEPT !.keys = [x \in DOMAIN t.keys \cup {k} |-> IF x = k THEN v ELSE t.keys[x]],
              !.removed = t.removed \ {k}]

\* transaction.deleteKey
DeleteKey(t, k) ==
    [t EXCEPT !.keys = [x \in DOMAIN t.keys \ {k} |-> t.keys[x]],
              !.removed = t.removed \cup {k}]

\* Mutant: a key that is put again stays removed in the cache.
MergedStillRemoved(c, t) ==
    [keys |-> Overlay(c.keys, t), removed |-> c.removed \cup t.removed]

\* The cache once every update of t has been applied to it.
Merged(c, t) ==
    [keys |-> Overlay(c.keys, t), removed |-> (c.removed \ DOMAIN t.keys) \cup t.removed]

\* What a transaction reads that starts now.
Visible == Overlay(ldb, cached)

IdleTx ==
    [pc |-> "idle", keys |-> NoKeys, removed |-> {}, blocks |-> <<>>,
     old |-> [file |-> 0, off |-> 0]]

IdleReader == [pc |-> "idle", base |-> NoKeys, view |-> NoKeys, known |-> {}]
-----------------------------------------------------------------------------
(***************************************************************************)
(* Block files.                                                            *)
(***************************************************************************)
Hole == <<>>    \* a unit no block was written to

Record(b) == [i \in 1..BlockLen[b] |-> <<b, i>>]

Content(files, f) == IF f \in DOMAIN files THEN files[f] ELSE <<>>

WithFile(files, f, s) ==
    [g \in DOMAIN files \cup {f} |-> IF g = f THEN s ELSE files[g]]

WithoutFiles(files, F) == [g \in DOMAIN files \ F |-> files[g]]

\* File.WriteAt: the units of data replace those of s from off on, and the
\* file grows as far as needed.
WriteAt(s, off, data) ==
    LET end == off + Len(data)
    IN  [i \in 1..(IF end > Len(s) THEN end ELSE Len(s)) |->
            IF i \in (off + 1)..end THEN data[i - off]
            ELSE IF i \in 1..Len(s) THEN s[i] ELSE Hole]

\* File.Truncate: a file that is shorter is extended.
TruncateTo(s, n) == [i \in 1..n |-> IF i \in 1..Len(s) THEN s[i] ELSE Hole]

\* The record of b can be read back, with its checksum, at loc.
Intact(files, b, loc) ==
    /\ loc.file \in DOMAIN files
    /\ loc.off + loc.len <= Len(files[loc.file])
    /\ \A i \in 1..loc.len : files[loc.file][loc.off + i] = <<b, i>>

After(c, d) == c.file > d.file \/ (c.file = d.file /\ c.off > d.off)

Dirty(f) == f \in DOMAIN page /\ (f \notin DOMAIN disk \/ disk[f] # page[f])

\* closedDirty once the open write file, if any, is closed.
AfterClosing == closedDirty \cup {f \in {cursor.file} : writing /\ Dirty(f)}

\* Where writeBlock puts a record of length len: in the next file when it
\* would make this one too long.
Roll(len) == cursor.off + len > MaxFileSize

WritePosition(len) ==
    IF Roll(len) THEN [file |-> cursor.file + 1, off |-> 0] ELSE cursor

\* The position scanBlockFiles finds: the end of the last file before a gap.
Scanned ==
    IF 0 \notin DOMAIN page
    THEN [file |-> 0, off |-> 0]
    ELSE LET last == CHOOSE n \in DOMAIN page :
                        0..n \subseteq DOMAIN page /\ n + 1 \notin DOMAIN page
         IN  [file |-> last, off |-> Len(page[last])]

Fault == faults < MaxFaults /\ faults' = faults + 1
-----------------------------------------------------------------------------
(***************************************************************************)
(* handleRollback: from the position from, back to the position to.  Every *)
(* failure is only logged and ends it; the cursor is moved in any case.    *)
(***************************************************************************)

\* Deleting file n fails, because it was never created or by a fault.
DeleteFails(from, to) ==
    \E n \in (to.file + 1)..from.file :
        LET deleted == (n + 1)..from.file
        IN  /\ deleted \subseteq DOMAIN page
            /\ IF n \in DOMAIN page THEN Fault ELSE UNCHANGED faults
            /\ page' = WithoutFiles(page, deleted)
            /\ writing' = FALSE
            /\ closedDirty' = AfterClosing \ deleted
            /\ UNCHANGED disk

\* The files above are gone; to.file is opened, truncated and synced.
TruncateWriteFile(from, to) ==
    LET above   == (to.file + 1)..from.file
        kept    == WithoutFiles(page, above)
        dirty   == (IF above = {} THEN closedDirty ELSE AfterClosing) \ above
        cut     == TruncateTo(Content(page, to.file), to.off)
    IN  /\ above \subseteq DOMAIN page
        /\ \/ \* openWriteFile fails
              /\ ~writing \/ above # {}
              /\ Fault
              /\ page' = kept
              /\ writing' = FALSE
              /\ closedDirty' = dirty
              /\ UNCHANGED disk
           \/ \* Truncate fails
              /\ Fault
              /\ page' = WithFile(kept, to.file, Content(page, to.file))
              /\ writing' = TRUE
              /\ closedDirty' = dirty
              /\ UNCHANGED disk
           \/ \* Sync fails
              /\ Fault
              /\ page' = WithFile(kept, to.file, cut)
              /\ writing' = TRUE
              /\ closedDirty' = dirty
              /\ UNCHANGED disk
           \/ /\ page' = WithFile(kept, to.file, cut)
              /\ disk' = WithFile(disk, to.file, cut)
              /\ writing' = TRUE
              /\ closedDirty' = dirty \ {to.file}
              /\ UNCHANGED faults

handleRollback(from, to) ==
    /\ cursor' = to
    /\ \/ from = to /\ UNCHANGED <<page, disk, writing, closedDirty, faults>>
       \/ from # to /\ DeleteFails(from, to)
       \/ from # to /\ TruncateWriteFile(from, to)
-----------------------------------------------------------------------------
(***************************************************************************)
(* The write transaction until Commit.  Its snapshot is Visible all along: *)
(* it holds the write lock, and only its holder changes cache and leveldb. *)
(***************************************************************************)
Begin ==
    /\ status = "up" /\ tx.pc = "idle"
    /\ tx' = [IdleTx EXCEPT !.pc = "open"]
    /\ UNCHANGED <<store, meta, reader, status, ghost, faults, stops>>

Put(k, v) ==
    /\ tx.pc = "open"
    /\ tx' = PutKey(tx, k, v)
    /\ UNCHANGED <<store, meta, reader, status, ghost, faults, stops>>

Delete(k) ==
    /\ tx.pc = "open"
    /\ tx' = DeleteKey(tx, k)
    /\ UNCHANGED <<store, meta, reader, status, ghost, faults, stops>>

\* Mutant: only the pending blocks are consulted.
hasPendingBlock(b) == \E i \in 1..Len(tx.blocks) : tx.blocks[i] = b

hasBlock(b) ==
    \/ \E i \in 1..Len(tx.blocks) : tx.blocks[i] = b
    \/ b \in DOMAIN Overlay(Visible, tx)

StoreBlock(b) ==
    /\ tx.pc = "open"
    /\ ~hasBlock(b)
    /\ tx' = [tx EXCEPT !.blocks = Append(tx.blocks, b)]
    /\ UNCHANGED <<store, meta, reader, status, ghost, faults, stops>>

Rollback ==
    /\ tx.pc = "open"
    /\ tx' = IdleTx
    /\ UNCHANGED <<store, meta, reader, status, ghost, faults, stops>>
-----------------------------------------------------------------------------
(***************************************************************************)
(* writePendingAndCommit: the blocks go to the files first.                *)
(***************************************************************************)

\* Mutant: the write position is not saved for the rollback.
CommitWithoutPosition ==
    /\ tx.pc = "open"
    /\ tx' = [tx EXCEPT !.pc = "blocks"]
    /\ UNCHANGED <<store, meta, reader, status, ghost, faults, stops>>

Commit ==
    /\ tx.pc = "open"
    /\ tx' = [tx EXCEPT !.pc = "blocks", !.old = cursor]
    /\ UNCHANGED <<store, meta, reader, status, ghost, faults, stops>>

\* The index row of a block: its location.
BlockRow(at, len) == [file |-> at.file, off |-> at.off, len |-> len]

\* writeBlock succeeds and the location goes into the block index.
WriteBlock ==
    /\ tx.pc = "blocks" /\ tx.blocks # <<>>
    /\ LET b   == Head(tx.blocks)
           len == BlockLen[b]
           at  == WritePosition(len)
       IN  /\ page' = WithFile(page, at.file, WriteAt(Content(page, at.file), at.off, Record(b)))
           /\ cursor' = [at EXCEPT !.off = at.off + len]
           /\ closedDirty' = IF Roll(len) THEN AfterClosing ELSE closedDirty
           /\ tx' = [PutKey(tx, b, BlockRow(at, len)) EXCEPT !.blocks = Tail(tx.blocks)]
    /\ writing' = TRUE
    /\ UNCHANGED <<disk, meta, reader, status, ghost, faults, stops>>

\* writeBlock fails: the next file cannot be opened, or n units are written.
WriteBlockFails ==
    /\ tx.pc = "blocks" /\ tx.blocks # <<>>
    /\ Fault
    /\ LET b   == Head(tx.blocks)
           len == BlockLen[b]
           at  == WritePosition(len)
       IN  /\ closedDirty' = IF Roll(len) THEN AfterClosing ELSE closedDirty
           /\ \/ /\ Roll(len) \/ ~writing
                 /\ cursor' = at
                 /\ writing' = FALSE
                 /\ UNCHANGED page
              \/ \E n \in 0..(len - 1) :
                 /\ page' = WithFile(page, at.file,
                                WriteAt(Content(page, at.file), at.off, SubSeq(Record(b), 1, n)))
                 /\ cursor' = [at EXCEPT !.off = at.off + n]
                 /\ writing' = TRUE
    /\ tx' = [tx EXCEPT !.pc = "rollback"]
    /\ UNCHANGED <<disk, meta, reader, status, ghost, stops>>

\* The error path of the loop: roll the files back and close the transaction.
RollbackFiles ==
    /\ tx.pc = "rollback"
    /\ handleRollback(cursor, tx.old)
    /\ tx' = IdleTx
    /\ UNCHANGED <<meta, reader, status, ghost, stops>>
-----------------------------------------------------------------------------
(***************************************************************************)
(* commitTx and flush.  Whether a flush is needed depends on the time and  *)
(* the size of the cache.  Close goes through flush too.                   *)
(***************************************************************************)

\* Mutant: a flush that does not sync the block file first.
StoreWriteRowUnsynced ==
    /\ tx.pc = "blocks" /\ tx.blocks = <<>>
    /\ \E pc \in {"cache", "store"} :
          tx' = [PutKey(tx, WriteLoc, cursor) EXCEPT !.pc = pc]
    /\ UNCHANGED <<store, meta, reader, status, ghost, faults, stops>>

\* The write cursor goes into the metadata, and needsFlush decides.
StoreWriteRow ==
    /\ tx.pc = "blocks" /\ tx.blocks = <<>>
    /\ \E pc \in {"cache", "sync"} :
          tx' = [PutKey(tx, WriteLoc, cursor) EXCEPT !.pc = pc]
    /\ UNCHANGED <<store, meta, reader, status, ghost, faults, stops>>

CommitToCache ==
    /\ tx.pc = "cache"
    /\ cached' = Merged(cached, tx)
    /\ tx' = IdleTx
    /\ UNCHANGED <<store, ldb, ldbBusy, reader, status, ghost, faults, stops>>

\* After flush, commitTx stores the transaction itself and Close the files.
Flushed == [tx EXCEPT !.pc = IF status = "up" THEN "direct" ELSE "closeFiles"]

\* Mutant: Commit returns an error without closing the transaction.
FailedStillOpen == [tx EXCEPT !.pc = IF status = "up" THEN "open" ELSE "closeFiles"]

\* After an error Commit returns, which closes the transaction, and Close goes on.
Failed == IF status = "up" THEN IdleTx ELSE [tx EXCEPT !.pc = "closeFiles"]

\* The file syncBlocks syncs: the one that is open for writing, and no other.
SyncedFile == {f \in {cursor.file} : writing}

SyncBlocks ==
    /\ tx.pc = "sync"
    /\ disk' = [f \in DOMAIN disk \cup SyncedFile |->
                    IF f \in SyncedFile THEN page[f] ELSE disk[f]]
    /\ closedDirty' = closedDirty \ SyncedFile
    /\ tx' = IF cached = NoUpdate THEN Flushed ELSE [tx EXCEPT !.pc = "store"]
    /\ UNCHANGED <<page, cursor, writing, meta, reader, status, ghost, faults, stops>>

SyncFails ==
    /\ tx.pc = "sync" /\ writing
    /\ Fault
    /\ tx' = Failed
    /\ UNCHANGED <<store, meta, reader, status, ghost, stops>>

\* commitTreaps of the cache, one leveldb transaction.
StoreCache ==
    /\ tx.pc = "store" /\ ~ldbBusy
    /\ ldb' = Overlay(ldb, cached)
    /\ tx' = [tx EXCEPT !.pc = "clear"]
    /\ UNCHANGED <<store, ldbBusy, cached, reader, status, ghost, faults, stops>>

ClearCache ==
    /\ tx.pc = "clear"
    /\ cached' = NoUpdate
    /\ tx' = Flushed
    /\ UNCHANGED <<store, ldb, ldbBusy, reader, status, ghost, faults, stops>>

\* commitTreaps of the transaction.
StoreTx ==
    /\ tx.pc = "direct" /\ ~ldbBusy
    /\ ldb' = Overlay(ldb, tx)
    /\ tx' = IdleTx
    /\ UNCHANGED <<store, ldbBusy, cached, reader, status, ghost, faults, stops>>

\* updateDB fails.  It discards the leveldb transaction when a Put or Delete
\* fails, and leaves it open when its Commit fails.
LdbFails ==
    /\ tx.pc \in {"store", "direct"} /\ ~ldbBusy
    /\ Fault
    /\ ldbBusy' \in BOOLEAN
    /\ tx' = Failed
    /\ UNCHANGED <<store, ldb, cached, reader, status, ghost, stops>>
-----------------------------------------------------------------------------
(***************************************************************************)
(* Close, the ways to stop without it, and opening again.                  *)
(***************************************************************************)

\* closeLock: Close waits for every transaction to be closed.
Close ==
    /\ status = "up" /\ tx.pc = "idle"
    /\ \A r \in Readers : reader[r].pc = "idle"
    /\ status' = "closing"
    /\ tx' = [IdleTx EXCEPT !.pc = "sync"]
    /\ UNCHANGED <<store, meta, reader, ghost, faults, stops>>

\* Files and leveldb are all that remains.
MemoryGone ==
    /\ status' = "down"
    /\ cursor' = [file |-> 0, off |-> 0]
    /\ writing' = FALSE
    /\ cached' = NoUpdate
    /\ ldbBusy' = FALSE
    /\ tx' = IdleTx
    /\ reader' = [r \in Readers |-> IdleReader]

CloseFiles ==
    /\ tx.pc = "closeFiles"
    /\ MemoryGone
    /\ closedDirty' = AfterClosing
    /\ UNCHANGED <<page, disk, ldb, ghost, faults, stops>>

\* The process ends at any point; the operating system goes on.
Kill ==
    /\ status \in {"up", "closing"}
    /\ stops < MaxStops /\ stops' = stops + 1
    /\ MemoryGone
    /\ closedDirty' = AfterClosing
    /\ UNCHANGED <<page, disk, ldb, ghost, faults>>

\* What a loss of power may leave of a file whose versions are s and t.
Mixed(s, t) ==
    LET shorter == IF Len(s) < Len(t) THEN Len(s) ELSE Len(t)
        longer  == IF Len(s) < Len(t) THEN Len(t) ELSE Len(s)
        differ  == {i \in 1..shorter : s[i] # t[i]}
        one(n, D) == [i \in 1..n |->
                        IF i > Len(t) \/ i \in D THEN s[i] ELSE t[i]]
    IN  {one(n, D) : n \in shorter..longer, D \in SUBSET differ}

\* A deleted file may come back, and one that was never synced may be missing.
Survivors(F) ==
    LET versions == [f \in F |->
            IF f \in DOMAIN page THEN Mixed(page[f], Content(disk, f)) ELSE {disk[f]}]
    IN  {files \in [F -> UNION {versions[f] : f \in F}] : \A f \in F : files[f] \in versions[f]}

PowerLoss ==
    /\ stops < MaxStops /\ stops' = stops + 1
    /\ MemoryGone
    /\ \E F \in SUBSET (DOMAIN page \cup DOMAIN disk) :
          /\ DOMAIN page \cap DOMAIN disk \subseteq F
          /\ page' \in Survivors(F)
    /\ disk' = page'
    /\ closedDirty' = {}
    /\ lost' = {b \in Blocks \cap DOMAIN ldb : ~Intact(page', b, ldb[b])}
    /\ lossy' = (lossy \/ closedDirty # {})
    /\ UNCHANGED <<ldb, faults>>

\* openDB and reconcileDB, when the files reach beyond the metadata or match it.
Open ==
    /\ status = "down"
    /\ ~After(ldb[WriteLoc], Scanned)
    /\ handleRollback(Scanned, ldb[WriteLoc])
    /\ status' = "up"
    /\ UNCHANGED <<meta, tx, reader, ghost, stops>>

\* reconcileDB reports corruption when the files end before the metadata says.
OpenCorrupt ==
    /\ status = "down"
    /\ After(ldb[WriteLoc], Scanned)
    /\ status' = "corrupt"
    /\ UNCHANGED <<store, meta, tx, reader, ghost, faults, stops>>
-----------------------------------------------------------------------------
(***************************************************************************)
(* Read-only transactions.  dbCache.Snapshot takes the leveldb snapshot    *)
(* and the cached treaps one after the other, without the write lock.      *)
(***************************************************************************)
SnapshotLdb(r) ==
    /\ status = "up" /\ reader[r].pc = "idle"
    /\ reader' = [reader EXCEPT ![r] =
            [pc |-> "snapshot", base |-> ldb, view |-> NoKeys,
             known |-> Blocks \cap DOMAIN Visible]]
    /\ UNCHANGED <<store, meta, tx, status, ghost, faults, stops>>

SnapshotCache(r) ==
    /\ reader[r].pc = "snapshot"
    /\ reader' = [reader EXCEPT ![r].pc = "reading", ![r].base = NoKeys,
                                ![r].view = Overlay(reader[r].base, cached)]
    /\ UNCHANGED <<store, meta, tx, status, ghost, faults, stops>>

CloseReader(r) ==
    /\ reader[r].pc = "reading"
    /\ reader' = [reader EXCEPT ![r] = IdleReader]
    /\ UNCHANGED <<store, meta, tx, status, ghost, faults, stops>>
-----------------------------------------------------------------------------
\* initDB: an empty block index, and the write cursor at the start of file 0.
Init ==
    /\ page = [f \in {} |-> <<>>]
    /\ disk = page
    /\ cursor = [file |-> 0, off |-> 0]
    /\ writing = FALSE
    /\ ldb = [k \in {WriteLoc} |-> [file |-> 0, off |-> 0]]
    /\ ldbBusy = FALSE
    /\ cached = NoUpdate
    /\ tx = IdleTx
    /\ reader = [r \in Readers |-> IdleReader]
    /\ status = "up"
    /\ closedDirty = {} /\ lost = {} /\ lossy = FALSE
    /\ faults = 0 /\ stops = 0

\* What the goroutine that holds the write lock does once it commits or closes.
Proceed ==
    \/ WriteBlock \/ RollbackFiles \/ StoreWriteRow \/ CommitToCache
    \/ SyncBlocks \/ StoreCache \/ ClearCache \/ StoreTx \/ CloseFiles

Next ==
    \/ Begin \/ Rollback \/ Commit
    \/ \E k \in UserKeys : Delete(k) \/ \E v \in Values : Put(k, v)
    \/ \E b \in Blocks : StoreBlock(b)
    \/ Proceed
    \/ WriteBlockFails \/ SyncFails \/ LdbFails
    \/ Close \/ Kill \/ PowerLoss \/ Open \/ OpenCorrupt
    \/ \E r \in Readers : SnapshotLdb(r) \/ SnapshotCache(r) \/ CloseReader(r)

Spec == Init /\ [][Next]_vars

\* The committing goroutine is scheduled; callers, readers and faults need not act.
FairSpec == Spec /\ WF_vars(Proceed)
-----------------------------------------------------------------------------
(***************************************************************************)
(* Properties.                                                             *)
(***************************************************************************)
Position == [file : Nat, off : Nat]
Location == [file : Nat, off : Nat, len : Nat]

\* A map of metadata: block rows, callers' values and the write row.
IsMeta(m) ==
    /\ DOMAIN m \subseteq Blocks \cup UserKeys \cup {WriteLoc}
    /\ \A k \in DOMAIN m :
          /\ k \in Blocks => m[k] \in Location
          /\ k \in UserKeys => m[k] \in Values
          /\ k = WriteLoc => m[k] \in Position

IsUpdate(u) ==
    /\ IsMeta(u.keys)
    /\ u.removed \subseteq UserKeys
    /\ DOMAIN u.keys \cap u.removed = {}

IsFiles(files) ==
    /\ DOMAIN files \subseteq Nat
    /\ \A f \in DOMAIN files : Len(files[f]) <= MaxFileSize

\* Type invariant: every variable holds what the code's fields can hold.  The
\* removed keys are callers' keys, no key is both put and removed, and no file
\* is longer than maxBlockFileSize.
TypeOK ==
    /\ IsFiles(page) /\ IsFiles(disk)
    /\ cursor \in Position /\ writing \in BOOLEAN
    /\ IsMeta(ldb) /\ WriteLoc \in DOMAIN ldb /\ ldbBusy \in BOOLEAN
    /\ IsUpdate(cached) /\ IsUpdate(tx)
    /\ tx.pc \in {"idle", "open", "blocks", "rollback", "cache", "sync", "store",
                  "clear", "direct", "closeFiles"}
    /\ tx.old \in Position
    /\ \A r \in Readers : IsMeta(reader[r].view) /\ IsMeta(reader[r].base)
    /\ status \in {"up", "closing", "down", "corrupt"}
    /\ closedDirty \subseteq DOMAIN page
    /\ lost \subseteq Blocks /\ lossy \in BOOLEAN
    /\ faults \in 0..MaxFaults /\ stops \in 0..MaxStops

\* FetchBlock returns every block it finds in the index: whatever failed,
\* no rollback truncates and no later write overwrites a block that a new
\* transaction or a reader with an older snapshot can look up, except for the
\* blocks a loss of power took.
BlocksReadable ==
    /\ \A b \in (Blocks \cap DOMAIN Visible) \ lost : Intact(page, b, Visible[b])
    /\ \A r \in Readers : \A b \in (Blocks \cap DOMAIN reader[r].view) \ lost :
          Intact(page, b, reader[r].view[b])

\* flush syncs before it stores: a block that leveldb knows is on disk, unless
\* its file was closed before it was synced.
DurableUnlessClosed ==
    \A b \in (Blocks \cap DOMAIN ldb) \ lost :
        ldb[b].file \notin closedDirty => Intact(disk, b, ldb[b])

\* reconcileDB reports corruption only when power was lost after a file had been
\* closed without a sync; no other stop, and no failing call, makes the
\* database impossible to open.
CorruptOnlyIfClosed == status = "corrupt" => lossy

\* What leveldb and the files hold agrees after every failure and every stop,
\* except for what a file closed without a sync loses with the power.
FilesSound == TypeOK /\ DurableUnlessClosed /\ CorruptOnlyIfClosed

\* StoreBlock refuses a block that exists, so the row of a block never changes
\* while the block is in the index.
RowsNeverChange ==
    [][\A b \in Blocks \cap DOMAIN Visible \cap DOMAIN Visible' :
            Visible'[b] = Visible[b]]_vars

Committing == tx.pc \notin {"idle", "open"}

\* Commit and Close return, provided no leveldb transaction was left open before.
CommitEnds == (Committing /\ ~ldbBusy) ~> (tx.pc = "idle")

Abstract == INSTANCE AtomicDB WITH
    visible <- Visible, stable <- ldb,
    pending <- [keys |-> tx.keys, removed |-> tx.removed]

\* The metadata behaves as one map that transactions change all at once: cache,
\* leveldb and the steps of flush cannot be told from it.
AtomicUpdates == Abstract!Spec
-----------------------------------------------------------------------------
(***************************************************************************)
(* What comments of the code say and the code does not do.                 *)
(***************************************************************************)

\* flush (dbcache.go): the sync prevents metadata about "a block which actually
\* hasn't been written yet in unexpected shutdown scenarios".
IndexedBlocksDurable ==
    \A b \in (Blocks \cap DOMAIN ldb) \ lost : Intact(disk, b, ldb[b])

\* Snapshot (dbcache.go) is taken "at a particular point in time": it has every
\* block that was in the database when it began.
SnapshotKeepsBlocks ==
    \A r \in Readers : reader[r].pc = "reading" =>
        reader[r].known \subseteq DOMAIN reader[r].view

\* Commit (db.go): "Regardless of whether the commit succeeds, the transaction is
\* closed on return", and so the write lock becomes free.
CommitAlwaysEnds == (Committing /\ status = "up") ~> (tx.pc = "idle")
=============================================================================
