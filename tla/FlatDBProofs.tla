---------------------------- MODULE FlatDBProofs ----------------------------
(***************************************************************************)
(* Proofs about FlatDB for every set of blocks, keys and readers, every    *)
(* file size and any number of failing calls and stops.                    *)
(***************************************************************************)
EXTENDS FlatDB, OrderLemmas, TLAPS

\* Two layers of updates can be merged: reading through the merged cache is
\* reading through the transaction on top of the cache.
LEMMA MergeIsOverlay ==
    ASSUME NEW m, NEW c, NEW t
    PROVE  Overlay(m, Merged(c, t)) = Overlay(Overlay(m, c), t)
  <1> DEFINE L == Overlay(m, Merged(c, t))
             R == Overlay(Overlay(m, c), t)
  <1>1. DOMAIN L = DOMAIN R
    BY DEF Overlay, Merged
  <1>2. ASSUME NEW k \in DOMAIN L PROVE L[k] = R[k]
    BY DEF Overlay, Merged
  <1>3. L = [k \in DOMAIN L |-> L[k]] /\ R = [k \in DOMAIN R |-> R[k]]
    BY DEF Overlay
  <1> QED BY <1>1, <1>2, <1>3

\* Storing the cache in leveldb does not change what is read through it.
LEMMA OverlayTwice ==
    ASSUME NEW m, NEW c
    PROVE  Overlay(Overlay(m, c), c) = Overlay(m, c)
  <1> DEFINE L == Overlay(Overlay(m, c), c)
             R == Overlay(m, c)
  <1>1. DOMAIN L = DOMAIN R
    BY DEF Overlay
  <1>2. ASSUME NEW k \in DOMAIN L PROVE L[k] = R[k]
    BY DEF Overlay
  <1>3. L = [k \in DOMAIN L |-> L[k]] /\ R = [k \in DOMAIN R |-> R[k]]
    BY DEF Overlay
  <1> QED BY <1>1, <1>2, <1>3

\* A function given by its domain and values.
IsMap(m) == m = [k \in DOMAIN m |-> m[k]]

\* An overlay is a map.
LEMMA OverlayIsMap ==
    ASSUME NEW m, NEW u
    PROVE  IsMap(Overlay(m, u))
  BY DEF Overlay, IsMap

\* An empty update changes nothing.
LEMMA OverlayNothing ==
    ASSUME NEW m, IsMap(m)
    PROVE  Overlay(m, NoUpdate) = m
  BY DEF Overlay, NoUpdate, NoKeys, IsMap
-----------------------------------------------------------------------------
(***************************************************************************)
(* The metadata is one map that changes a transaction at a time.           *)
(***************************************************************************)

\* While the cache is being flushed: once it is stored, leveldb alone shows what
\* the cache showed, and a transaction is stored directly under an empty cache.
FlushInv ==
    /\ IsMap(ldb)
    /\ DOMAIN tx = {"pc", "keys", "removed", "blocks", "old"}
    /\ tx.pc = "clear" => Overlay(ldb, cached) = ldb
    /\ tx.pc = "direct" => cached = NoUpdate

\* Every step keeps FlushInv.
LEMMA FlushInvStep ==
    ASSUME FlushInv, [Next]_vars
    PROVE  FlushInv'
  <1> USE DEF FlushInv
  <1>1. CASE UNCHANGED vars
    BY <1>1 DEF vars, meta
  <1>2. CASE StoreCache
    <2>1. IsMap(ldb)'
      BY <1>2, OverlayIsMap DEF StoreCache
    <2>2. Overlay(ldb, cached)' = ldb'
      BY <1>2, OverlayTwice DEF StoreCache
    <2>3. tx'.pc # "direct" /\ DOMAIN tx' = DOMAIN tx
      BY <1>2 DEF StoreCache
    <2> QED BY <2>1, <2>2, <2>3
  <1>3. CASE StoreTx
    BY <1>3, OverlayIsMap DEF StoreTx, IdleTx
  <1>4. CASE SyncBlocks
    BY <1>4 DEF SyncBlocks, Flushed, meta
  <1>5. CASE ClearCache
    BY <1>5 DEF ClearCache, Flushed
  <1>6. CASE CommitToCache
    BY <1>6 DEF CommitToCache, IdleTx
  <1>7. CASE SyncFails \/ LdbFails
    BY <1>7 DEF SyncFails, LdbFails, Failed, IdleTx, meta
  <1>8. CASE Kill \/ PowerLoss \/ CloseFiles
    BY <1>8 DEF Kill, PowerLoss, CloseFiles, MemoryGone, IdleTx
  <1>9. CASE Begin \/ Rollback \/ Commit \/ StoreWriteRow \/ RollbackFiles \/ Close
    <2>1. CASE Begin \/ Rollback \/ RollbackFiles \/ Close
      BY <2>1 DEF Begin, Rollback, RollbackFiles, Close, IdleTx, meta
    <2>2. CASE Commit
      BY <2>2 DEF Commit, meta
    <2>3. CASE StoreWriteRow
      BY <2>3 DEF StoreWriteRow, PutKey, meta
    <2> QED BY <1>9, <2>1, <2>2, <2>3
  <1>10. CASE WriteBlock \/ WriteBlockFails
    BY <1>10 DEF WriteBlock, WriteBlockFails, PutKey, meta
  <1>11. CASE Open \/ OpenCorrupt
    BY <1>11 DEF Open, OpenCorrupt, meta
  <1>12. CASE \E r \in Readers : SnapshotLdb(r) \/ SnapshotCache(r) \/ CloseReader(r)
    BY <1>12 DEF SnapshotLdb, SnapshotCache, CloseReader, meta
  <1>13. CASE \/ \E k \in UserKeys : Delete(k) \/ \E v \in Values : Put(k, v)
              \/ \E b \in Blocks : StoreBlock(b)
    BY <1>13 DEF Delete, Put, StoreBlock, PutKey, DeleteKey, meta
  <1> QED
    BY <1>1, <1>2, <1>3, <1>4, <1>5, <1>6, <1>7, <1>8, <1>9, <1>10, <1>11, <1>12, <1>13
    DEF Next, Proceed

\* The abstract transaction is the updates the write transaction has collected.
LEMMA AbstractOverlay ==
    ASSUME NEW m
    PROVE  /\ Abstract!Overlay(m, [keys |-> tx.keys, removed |-> tx.removed]) = Overlay(m, tx)
  BY DEF Abstract!Overlay, Overlay

\* Every step is a step of the atomic database or changes nothing it shows.
LEMMA AbstractStep ==
    ASSUME FlushInv, [Next]_vars
    PROVE  [Abstract!Next]_Abstract!vars
  <1> USE DEF FlushInv
  <1> SUFFICES \/ Visible' = Visible /\ ldb' = ldb
               \/ Abstract!Commit \/ Abstract!CommitThrough
               \/ Abstract!Flush \/ Abstract!Restart
    BY DEF Abstract!Next, Abstract!Work
  <1>1. CASE UNCHANGED <<ldb, cached>>
    BY <1>1 DEF Visible
  <1>2. CASE CommitToCache
    <2>1. Visible' = Overlay(Visible, tx)
      BY <1>2, MergeIsOverlay DEF CommitToCache, Visible
    <2>2. Abstract!Commit
      BY <1>2, <2>1, AbstractOverlay
      DEF Abstract!Commit, CommitToCache, IdleTx, Abstract!NoUpdate, Abstract!NoKeys, NoKeys
    <2> QED BY <2>2
  <1>3. CASE StoreCache
    <2>1. Visible' = Visible /\ ldb' = Visible
      BY <1>3, OverlayTwice DEF StoreCache, Visible
    <2>2. tx'.keys = tx.keys /\ tx'.removed = tx.removed
      BY <1>3 DEF StoreCache
    <2> QED BY <2>1, <2>2 DEF Abstract!Flush
  <1>4. CASE ClearCache
    BY <1>4, OverlayNothing DEF ClearCache, Visible
  <1>5. CASE StoreTx
    <2>1. Visible = ldb
      BY <1>5, OverlayNothing DEF StoreTx, Visible
    <2>2. ldb' = Overlay(ldb, tx) /\ Visible' = ldb'
      BY <1>5, OverlayNothing, OverlayIsMap DEF StoreTx, Visible
    <2>3. Abstract!CommitThrough
      BY <1>5, <2>1, <2>2, AbstractOverlay
      DEF Abstract!CommitThrough, StoreTx, IdleTx, Abstract!NoUpdate, Abstract!NoKeys, NoKeys
    <2> QED BY <2>3
  <1>6. CASE Kill \/ PowerLoss \/ CloseFiles
    <2>1. MemoryGone /\ ldb' = ldb
      BY <1>6 DEF Kill, PowerLoss, CloseFiles
    <2>2. Visible' = ldb
      BY <2>1, OverlayNothing DEF MemoryGone, Visible
    <2> QED BY <2>1, <2>2
        DEF MemoryGone, Abstract!Restart, IdleTx, Abstract!NoUpdate, Abstract!NoKeys, NoKeys
  <1>7. CASE Next /\ ~(CommitToCache \/ StoreCache \/ ClearCache \/ StoreTx
                         \/ Kill \/ PowerLoss \/ CloseFiles)
    <2>1. UNCHANGED <<ldb, cached>>
      BY <1>7 DEF Next, Proceed, Begin, Rollback, Commit, Delete, Put, StoreBlock, WriteBlock,
                  RollbackFiles, StoreWriteRow, SyncBlocks, WriteBlockFails, SyncFails,
                  LdbFails, Close, Open, OpenCorrupt, SnapshotLdb, SnapshotCache,
                  CloseReader, meta
    <2> QED BY <1>1, <2>1
  <1>8. CASE UNCHANGED vars
    BY <1>1, <1>8 DEF vars, meta
  <1> QED BY <1>2, <1>3, <1>4, <1>5, <1>6, <1>7, <1>8

\* FlushInv is inductive.
THEOREM FlushInvariant == Spec => []FlushInv
  <1>1. Init => FlushInv
    BY DEF Init, FlushInv, IsMap, IdleTx
  <1>2. FlushInv /\ [Next]_vars => FlushInv'
    BY FlushInvStep
  <1> QED BY <1>1, <1>2, PTL DEF Spec

\* The cache, leveldb and the steps of flush implement one map that a
\* transaction changes all at once, and to whose last flushed state a
\* restart returns.
THEOREM MetadataIsAtomic == Spec => AtomicUpdates
  <1>1. Init => Abstract!Init
    <2> SUFFICES ASSUME Init PROVE Abstract!Init
      OBVIOUS
    <2>1. Visible = ldb
      BY OverlayNothing DEF Init, Visible, IsMap
    <2> QED BY <2>1 DEF Init, Abstract!Init, IdleTx, Abstract!NoUpdate, Abstract!NoKeys, NoKeys
  <1>2. FlushInv /\ [Next]_vars => [Abstract!Next]_Abstract!vars
    BY AbstractStep
  <1> QED BY <1>1, <1>2, FlushInvariant, PTL DEF Spec, AtomicUpdates, Abstract!Spec
-----------------------------------------------------------------------------
(***************************************************************************)
(* No block in the index is ever cut off or overwritten.                   *)
(***************************************************************************)

\* The record at row ends at or before the position p.
Within(row, p) ==
    \/ row.file < p.file
    \/ row.file = p.file /\ row.off + row.len <= p.off

\* Files whose contents have a length.
FilesOK(files) ==
    /\ DOMAIN files \subseteq Nat
    /\ \A f \in DOMAIN files : Len(files[f]) \in Nat

\* What lies before p can be read in after if it could be read in before.
Keeps(before, after, p) ==
    \A b \in Blocks, row \in Location :
        Within(row, p) /\ Intact(before, b, row) => Intact(after, b, row)

\* The block rows of m end before p and, unless lost, can be read.
RowsOK(m, p, files, gone) ==
    \A b \in Blocks \cap DOMAIN m :
        /\ m[b] \in Location
        /\ Within(m[b], p)
        /\ b \notin gone => Intact(files, b, m[b])

\* Files that do not change keep what can be read in them.
LEMMA KeepsSame ==
    ASSUME NEW files, NEW p
    PROVE  Keeps(files, files, p)
  BY DEF Keeps

\* What is kept up to a position is kept up to an earlier one.
LEMMA KeepsLess ==
    ASSUME NEW files, NEW new, NEW p \in Position, NEW q \in Position,
           ~After(p, q), Keeps(files, new, q)
    PROVE  Keeps(files, new, p)
  BY DEF Keeps, After, Within, Position, Location

\* Rows stay readable when the files keep what they point to.
LEMMA KeepRows ==
    ASSUME NEW m, NEW files, NEW new, NEW gone,
           NEW p \in Position, NEW q \in Position, ~After(p, q),
           Keeps(files, new, p), RowsOK(m, p, files, gone)
    PROVE  RowsOK(m, q, new, gone)
  <1> SUFFICES ASSUME NEW b \in Blocks \cap DOMAIN m
               PROVE  /\ m[b] \in Location
                      /\ Within(m[b], q)
                      /\ b \notin gone => Intact(new, b, m[b])
    BY DEF RowsOK
  <1>1. m[b] \in Location /\ Within(m[b], p) /\ (b \notin gone => Intact(files, b, m[b]))
    BY DEF RowsOK
  <1>2. Within(m[b], q)
    BY <1>1 DEF Within, After, Position, Location
  <1> QED BY <1>1, <1>2 DEF Keeps

\* Rows that can be read still can when more such rows are added.
LEMMA RowsOverlay ==
    ASSUME NEW m, NEW u, NEW p, NEW files, NEW gone,
           RowsOK(m, p, files, gone), RowsOK(u.keys, p, files, gone)
    PROVE  RowsOK(Overlay(m, u), p, files, gone)
  BY DEF RowsOK, Overlay

\* Writing at a position, or beyond it, keeps what lies before it.
LEMMA WriteKeeps ==
    ASSUME NEW files, FilesOK(files), NEW at \in Position, NEW data, Len(data) \in Nat,
           NEW new, new = WithFile(files, at.file, WriteAt(Content(files, at.file), at.off, data))
    PROVE  FilesOK(new) /\ Keeps(files, new, at)
  <1> DEFINE s == Content(files, at.file)
             n == IF at.off + Len(data) > Len(s) THEN at.off + Len(data) ELSE Len(s)
  <1>1. at.file \in Nat /\ at.off \in Nat
    BY DEF Position
  <1>2. Len(s) \in Nat
    BY DEF Content, FilesOK
  <1>3. n \in Nat /\ n >= Len(s) /\ n >= at.off + Len(data)
    BY <1>1, <1>2
  <1>4. /\ DOMAIN new = DOMAIN files \cup {at.file}
        /\ new[at.file] = WriteAt(s, at.off, data)
        /\ \A f \in DOMAIN files \ {at.file} : new[f] = files[f]
    BY DEF WithFile
  <1>5. Len(WriteAt(s, at.off, data)) = n
    BY <1>3 DEF WriteAt
  <1>6. \A i \in 1..Len(s) : i <= at.off => WriteAt(s, at.off, data)[i] = s[i]
    BY <1>1, <1>2, <1>3 DEF WriteAt
  <1>7. FilesOK(new)
    BY <1>1, <1>3, <1>4, <1>5 DEF FilesOK
  <1>8. ASSUME NEW b \in Blocks, NEW row \in Location, Within(row, at), Intact(files, b, row)
        PROVE  Intact(new, b, row)
    <2>1. row.file \in Nat /\ row.off \in Nat /\ row.len \in Nat /\ row.file \in DOMAIN files
      BY <1>8 DEF Location, Intact
    <2>2. CASE row.file # at.file
      BY <1>4, <1>8, <2>1, <2>2 DEF Intact
    <2>3. CASE row.file = at.file
      <3>1. row.off + row.len <= at.off /\ s = files[row.file] /\ row.off + row.len <= Len(s)
        BY <1>8, <2>1, <2>3, <1>1 DEF Within, Intact, Content
      <3>2. ASSUME NEW i \in 1..row.len
            PROVE  new[row.file][row.off + i] = files[row.file][row.off + i]
        <4>1. row.off + i \in 1..Len(s) /\ row.off + i <= at.off
          BY <3>1, <2>1, <1>1, <1>2
        <4> QED BY <4>1, <3>1, <2>3, <1>4, <1>6
      <3> HIDE DEF n
      <3>3. row.off + row.len <= Len(new[row.file])
        BY <3>1, <2>1, <2>3, <1>2, <1>3, <1>4, <1>5
      <3> QED BY <1>8, <3>2, <3>3, <2>1, <1>4 DEF Intact
    <2> QED BY <2>2, <2>3
  <1> QED BY <1>7, <1>8 DEF Keeps

\* The record just written can be read where the index says it is.
LEMMA WriteStores ==
    ASSUME NEW files, FilesOK(files), NEW at \in Position, NEW b \in Blocks,
           NEW new, new = WithFile(files, at.file, WriteAt(Content(files, at.file), at.off, Record(b)))
    PROVE  Intact(new, b, BlockRow(at, BlockLen[b]))
  <1> DEFINE s == Content(files, at.file)
             len == BlockLen[b]
             n == IF at.off + len > Len(s) THEN at.off + len ELSE Len(s)
  <1>1. at.file \in Nat /\ at.off \in Nat /\ len \in Nat
    BY LengthsAssumption DEF Position
  <1>2. Len(s) \in Nat
    BY DEF Content, FilesOK
  <1>3. Len(Record(b)) = len
    BY <1>1 DEF Record
  <1>4. n \in Nat /\ n >= at.off + len
    BY <1>1, <1>2
  <1>5. Len(WriteAt(s, at.off, Record(b))) = n
    BY <1>3, <1>4 DEF WriteAt
  <1>6. \A i \in 1..len : WriteAt(s, at.off, Record(b))[at.off + i] = <<b, i>>
    BY <1>1, <1>2, <1>3 DEF WriteAt, Record
  <1>7. at.file \in DOMAIN new /\ new[at.file] = WriteAt(s, at.off, Record(b))
    BY DEF WithFile
  <1> QED BY <1>1, <1>4, <1>5, <1>6, <1>7 DEF Intact, BlockRow

\* Deleting files above p and cutting the file of p at p keep what lies before.
LEMMA CutKeeps ==
    ASSUME NEW files, FilesOK(files), NEW p \in Position, NEW F,
           \A f \in F : f \in Int /\ f > p.file,
           NEW new, new = WithFile(WithoutFiles(files, F), p.file,
                                   TruncateTo(Content(files, p.file), p.off))
    PROVE  FilesOK(new) /\ Keeps(files, new, p)
  <1> DEFINE s == Content(files, p.file)
  <1>1. p.file \in Nat /\ p.off \in Nat /\ p.file \notin F
    BY DEF Position
  <1>2. /\ DOMAIN new = (DOMAIN files \ F) \cup {p.file}
        /\ new[p.file] = TruncateTo(s, p.off)
        /\ \A f \in DOMAIN files \ (F \cup {p.file}) : new[f] = files[f]
    BY DEF WithFile, WithoutFiles
  <1>3. Len(TruncateTo(s, p.off)) = p.off
    BY <1>1 DEF TruncateTo
  <1>4. Len(s) \in Nat
    BY DEF Content, FilesOK
  <1>5. \A i \in 1..p.off : i <= Len(s) => TruncateTo(s, p.off)[i] = s[i]
    BY <1>1, <1>4 DEF TruncateTo
  <1>6. FilesOK(new)
    BY <1>1, <1>2, <1>3 DEF FilesOK
  <1>7. ASSUME NEW b \in Blocks, NEW row \in Location, Within(row, p), Intact(files, b, row)
        PROVE  Intact(new, b, row)
    <2>1. /\ row.file \in Nat /\ row.off \in Nat /\ row.len \in Nat /\ row.file \in DOMAIN files
          /\ row.file <= p.file
      BY <1>1, <1>7 DEF Location, Intact, Within
    <2>2. CASE row.file # p.file
      <3>1. row.file \in DOMAIN files \ (F \cup {p.file})
        BY <1>1, <2>1, <2>2
      <3> QED BY <1>2, <1>7, <2>1, <3>1 DEF Intact
    <2>3. CASE row.file = p.file
      <3>1. row.off + row.len <= p.off /\ s = files[row.file] /\ row.off + row.len <= Len(s)
        BY <1>7, <2>1, <2>3, <1>1 DEF Within, Intact, Content
      <3>2. ASSUME NEW i \in 1..row.len
            PROVE  new[row.file][row.off + i] = files[row.file][row.off + i]
        <4>1. row.off + i \in 1..p.off /\ row.off + i <= Len(s)
          BY <3>1, <2>1, <1>1, <1>4
        <4> QED BY <4>1, <3>1, <2>3, <1>2, <1>5
      <3> QED BY <1>7, <3>1, <3>2, <2>1, <2>3, <1>2, <1>3 DEF Intact
    <2> QED BY <2>2, <2>3
  <1> QED BY <1>6, <1>7 DEF Keeps

\* Deleting files above p, with or without creating the one of p.
LEMMA DeleteKeeps ==
    ASSUME NEW files, FilesOK(files), NEW p \in Position, NEW F,
           \A f \in F : f \in Int /\ f > p.file,
           NEW new, \/ new = WithoutFiles(files, F)
                    \/ new = WithFile(WithoutFiles(files, F), p.file, Content(files, p.file))
    PROVE  FilesOK(new) /\ Keeps(files, new, p)
  <1>1. p.file \in Nat /\ p.file \notin F
    BY DEF Position
  <1>2. /\ DOMAIN files \ F \subseteq DOMAIN new
        /\ DOMAIN new \subseteq DOMAIN files \cup {p.file}
        /\ \A f \in DOMAIN new : new[f] = Content(files, f)
    BY <1>1 DEF WithFile, WithoutFiles, Content
  <1>3. FilesOK(new)
    BY <1>1, <1>2 DEF FilesOK, Content
  <1>4. ASSUME NEW b \in Blocks, NEW row \in Location, Within(row, p), Intact(files, b, row)
        PROVE  Intact(new, b, row)
    <2>1. row.file \in Nat /\ row.file \in DOMAIN files /\ row.file <= p.file
      BY <1>1, <1>4 DEF Location, Intact, Within
    <2>2. row.file \in DOMAIN new /\ new[row.file] = files[row.file]
      BY <1>1, <1>2, <2>1 DEF Content
    <2> QED BY <1>4, <2>2 DEF Intact
  <1> QED BY <1>3, <1>4 DEF Keeps

\* handleRollback keeps everything before the position it goes back to,
\* wherever it fails.
LEMMA RollbackKeeps ==
    ASSUME NEW from, NEW to \in Position, FilesOK(page), FilesOK(disk),
           handleRollback(from, to)
    PROVE  FilesOK(page') /\ FilesOK(disk') /\ Keeps(page, page', to) /\ cursor' = to
  <1>1. to.file \in Nat /\ to.off \in Nat
    BY DEF Position
  <1>2. CASE UNCHANGED <<page, disk>>
    BY <1>2, KeepsSame DEF handleRollback
  <1>3. CASE DeleteFails(from, to)
    <2>1. PICK n \in (to.file + 1)..from.file :
             page' = WithoutFiles(page, (n + 1)..from.file) /\ disk' = disk
      BY <1>3 DEF DeleteFails
    <2>2. \A f \in (n + 1)..from.file : f \in Int /\ f > to.file
      BY <1>1, <2>1
    <2> QED BY <2>1, <2>2, DeleteKeeps DEF handleRollback
  <1>4. CASE TruncateWriteFile(from, to)
    <2> DEFINE above == (to.file + 1)..from.file
               cut == TruncateTo(Content(page, to.file), to.off)
    <2>1. \A f \in above : f \in Int /\ f > to.file
      BY <1>1
    <2>2. \/ /\ \/ page' = WithoutFiles(page, above)
                \/ page' = WithFile(WithoutFiles(page, above), to.file, Content(page, to.file))
             /\ disk' = disk
          \/ /\ page' = WithFile(WithoutFiles(page, above), to.file, cut)
             /\ disk' = disk \/ disk' = WithFile(disk, to.file, cut)
      BY <1>4 DEF TruncateWriteFile
    <2>3. FilesOK(WithFile(disk, to.file, cut))
      <3>1. Len(cut) = to.off
        BY <1>1 DEF TruncateTo
      <3> HIDE DEF cut
      <3> QED BY <1>1, <3>1 DEF FilesOK, WithFile
    <2> HIDE DEF above
    <2>4. CASE page' = WithFile(WithoutFiles(page, above), to.file, cut)
      BY <2>1, <2>2, <2>3, <2>4, CutKeeps DEF handleRollback
    <2>5. CASE page' # WithFile(WithoutFiles(page, above), to.file, cut)
      BY <2>1, <2>2, <2>5, DeleteKeeps DEF handleRollback
    <2> QED BY <2>4, <2>5
  <1> QED BY <1>2, <1>3, <1>4 DEF handleRollback

\* A loss of power leaves files.
LEMMA SurvivorsOK ==
    ASSUME FilesOK(page), FilesOK(disk), NEW F \in SUBSET (DOMAIN page \cup DOMAIN disk),
           NEW files \in Survivors(F)
    PROVE  FilesOK(files)
  <1>1. DOMAIN files = F /\ F \subseteq Nat
    BY DEF Survivors, FilesOK
  <1>2. ASSUME NEW f \in F PROVE Len(files[f]) \in Nat
    <2>1. CASE f \notin DOMAIN page
      <3>1. files[f] = disk[f] /\ f \in DOMAIN disk
        BY <2>1 DEF Survivors
      <3> QED BY <3>1 DEF FilesOK
    <2>2. CASE f \in DOMAIN page
      <3>1. files[f] \in Mixed(page[f], Content(disk, f))
        BY <2>2 DEF Survivors
      <3>2. Len(page[f]) \in Nat /\ Len(Content(disk, f)) \in Nat
        BY <2>2 DEF FilesOK, Content
      <3>3. \E n \in Nat : DOMAIN files[f] = 1..n /\ files[f] = [i \in 1..n |-> files[f][i]]
        BY <3>1, <3>2 DEF Mixed
      <3> QED BY <3>3
    <2> QED BY <2>1, <2>2
  <1> QED BY <1>1, <1>2 DEF FilesOK

\* A record of any length goes to or beyond the cursor.
LEMMA WritePositionOK ==
    ASSUME cursor \in Position, NEW len \in Nat
    PROVE  WritePosition(len) \in Position /\ ~After(cursor, WritePosition(len))
  BY DEF WritePosition, Position, After

\* The write cursor as a transaction that starts now would read it.
Loc == IF WriteLoc \in DOMAIN cached.keys THEN cached.keys[WriteLoc] ELSE ldb[WriteLoc]

\* The place of the write transaction, or of Close, fits the state of the database.
PlaceInv ==
    /\ DOMAIN tx = {"pc", "keys", "removed", "blocks", "old"}
    /\ tx.old \in Position /\ tx.blocks \in Seq(Blocks)
    /\ WriteLoc \notin tx.removed
    /\ tx.pc = "idle" => tx = IdleTx
    /\ tx.pc # "idle" => status \in {"up", "closing"}
    /\ tx.pc \in {"open", "blocks", "rollback", "cache", "direct"} => status = "up"
    /\ tx.pc \in {"cache", "sync", "store", "clear", "direct"} /\ status = "up" =>
          WriteLoc \in DOMAIN tx.keys /\ tx.keys[WriteLoc] = cursor
    /\ status \in {"down", "corrupt"} => cached = NoUpdate
    /\ DOMAIN reader = Readers
    /\ \A r \in Readers : DOMAIN reader[r] = {"pc", "base", "view", "known"}

\* The cursor never falls behind the one in the metadata, nor behind the
\* position a failing transaction will roll back to.
CursorInv ==
    /\ FilesOK(page) /\ FilesOK(disk)
    /\ cursor \in Position
    /\ WriteLoc \in DOMAIN ldb /\ WriteLoc \notin cached.removed
    /\ ldb[WriteLoc] \in Position /\ Loc \in Position
    /\ ~After(ldb[WriteLoc], Loc)
    /\ status \in {"up", "closing"} => ~After(Loc, cursor)
    /\ tx.pc \in {"blocks", "rollback"} => ~After(Loc, tx.old) /\ ~After(tx.old, cursor)

\* Every row, wherever it is kept, ends before the cursor that goes with it.
RowInv ==
    /\ RowsOK(ldb, ldb[WriteLoc], page, lost)
    /\ RowsOK(cached.keys, Loc, page, lost)
    /\ RowsOK(tx.keys, cursor, page, lost)
    /\ \A r \in Readers : /\ RowsOK(reader[r].base, Loc, page, lost)
                          /\ RowsOK(reader[r].view, Loc, page, lost)

\* The open write file is the one of the cursor.
OpenFileInv ==
    /\ writing => cursor.file \in DOMAIN page
    /\ status \in {"down", "corrupt"} => ~writing

\* The inductive invariant of the block files and their index.
StoreInv == FlushInv /\ PlaceInv /\ OpenFileInv /\ CursorInv /\ RowInv

\* Every step keeps OpenFileInv.
LEMMA OpenFileStep ==
    ASSUME PlaceInv, OpenFileInv, CursorInv, [Next]_vars
    PROVE  OpenFileInv'
  <1> USE DEF OpenFileInv
  <1>1. CASE UNCHANGED <<page, cursor, writing>> /\ (status' \in {"down", "corrupt"} => ~writing)
    BY <1>1
  <1>2. CASE Kill \/ PowerLoss \/ CloseFiles
    BY <1>2 DEF Kill, PowerLoss, CloseFiles, MemoryGone
  <1>3. CASE WriteBlock \/ WriteBlockFails
    <2> DEFINE at == WritePosition(BlockLen[Head(tx.blocks)])
    <2>1. at \in Position
      <3>1. Head(tx.blocks) \in Blocks
        BY <1>3 DEF WriteBlock, WriteBlockFails, PlaceInv
      <3>2. BlockLen[Head(tx.blocks)] \in Nat
        BY <3>1, LengthsAssumption
      <3> QED BY <3>2, WritePositionOK DEF CursorInv
    <2>2. status' = status /\ status = "up"
      BY <1>3 DEF WriteBlock, WriteBlockFails, PlaceInv
    <2>3. writing' = FALSE \/ (cursor'.file = at.file /\ at.file \in DOMAIN page')
      BY <1>3, <2>1 DEF WriteBlock, WriteBlockFails, WithFile, Position
    <2> QED BY <2>2, <2>3
  <1>4. ASSUME NEW from, NEW to, handleRollback(from, to), writing => from = cursor,
               status' = "up"
        PROVE  OpenFileInv'
    <2>1. CASE from = to /\ UNCHANGED <<page, writing>>
      BY <1>4, <2>1 DEF handleRollback
    <2>2. CASE DeleteFails(from, to)
      BY <1>4, <2>2 DEF DeleteFails
    <2>3. CASE TruncateWriteFile(from, to)
      <3>1. cursor' = to
        BY <1>4 DEF handleRollback
      <3>2. writing' = FALSE \/ to.file \in DOMAIN page'
        BY <2>3 DEF TruncateWriteFile, WithFile
      <3> QED BY <1>4, <3>1, <3>2
    <2> QED BY <1>4, <2>1, <2>2, <2>3 DEF handleRollback
  <1>5. CASE RollbackFiles
    BY <1>4, <1>5 DEF RollbackFiles, PlaceInv
  <1>6. CASE Open
    BY <1>4, <1>6 DEF Open
  <1>7. CASE UNCHANGED vars
    BY <1>1, <1>7 DEF vars, store
  <1>8. CASE Next /\ ~(Kill \/ PowerLoss \/ CloseFiles \/ WriteBlock \/ WriteBlockFails
                         \/ RollbackFiles \/ Open)
    <2>1. UNCHANGED <<page, cursor, writing>> /\ (status' = status \/ Close \/ OpenCorrupt)
      BY <1>8 DEF Next, Proceed, Begin, Rollback, Commit, Delete, Put, StoreBlock, StoreWriteRow,
                  CommitToCache, SyncBlocks, StoreCache, ClearCache, StoreTx, SyncFails, LdbFails,
                  Close, OpenCorrupt, SnapshotLdb, SnapshotCache, CloseReader, store
    <2> QED BY <1>1, <2>1 DEF Close, OpenCorrupt
  <1> QED BY <1>2, <1>3, <1>5, <1>6, <1>7, <1>8

\* What putKey and deleteKey leave of a transaction.
LEMMA PutFields ==
    ASSUME NEW t, DOMAIN t = {"pc", "keys", "removed", "blocks", "old"}, NEW k, NEW v
    PROVE  /\ DOMAIN PutKey(t, k, v) = DOMAIN t
           /\ PutKey(t, k, v).pc = t.pc
           /\ PutKey(t, k, v).old = t.old
           /\ PutKey(t, k, v).blocks = t.blocks
           /\ PutKey(t, k, v).removed = t.removed \ {k}
           /\ DOMAIN PutKey(t, k, v).keys = DOMAIN t.keys \cup {k}
           /\ PutKey(t, k, v).keys[k] = v
           /\ \A x \in DOMAIN t.keys : x # k => PutKey(t, k, v).keys[x] = t.keys[x]
  BY DEF PutKey

\* Deleting a key leaves the other fields of the transaction alone.
LEMMA DeleteFields ==
    ASSUME NEW t, DOMAIN t = {"pc", "keys", "removed", "blocks", "old"}, NEW k
    PROVE  /\ DOMAIN DeleteKey(t, k) = DOMAIN t
           /\ DeleteKey(t, k).pc = t.pc
           /\ DeleteKey(t, k).old = t.old
           /\ DeleteKey(t, k).blocks = t.blocks
           /\ DeleteKey(t, k).removed = t.removed \cup {k}
           /\ DOMAIN DeleteKey(t, k).keys = DOMAIN t.keys \ {k}
           /\ \A x \in DOMAIN t.keys : x # k => DeleteKey(t, k).keys[x] = t.keys[x]
  BY DEF DeleteKey

\* The fields of no transaction.
LEMMA IdleFields ==
    /\ DOMAIN IdleTx = {"pc", "keys", "removed", "blocks", "old"}
    /\ IdleTx.pc = "idle" /\ IdleTx.old \in Position /\ IdleTx.blocks \in Seq(Blocks)
    /\ IdleTx.removed = {} /\ DOMAIN IdleTx.keys = {}
  <1>1. <<>> \in Seq(Blocks)
    OBVIOUS
  <1> QED BY <1>1 DEF IdleTx, Position, NoKeys

\* The write transaction collects updates; files, cache and leveldb stay.
LEMMA CollectStep ==
    ASSUME StoreInv,
           \/ Begin \/ Rollback \/ Commit
           \/ \E k \in UserKeys : Delete(k) \/ \E v \in Values : Put(k, v)
           \/ \E b \in Blocks : StoreBlock(b)
    PROVE  PlaceInv' /\ CursorInv' /\ RowInv'
  <1> USE DEF StoreInv
  <1>1. /\ UNCHANGED <<page, disk, cursor, ldb, cached, status, lost, reader>>
        /\ status = "up"
        /\ tx'.pc \in {"idle", "open", "blocks"} /\ (tx'.pc = "idle" => tx' = IdleTx)
        /\ tx'.pc = "blocks" => tx'.old = cursor
        /\ DOMAIN tx' = DOMAIN tx /\ tx'.old \in Position /\ tx'.blocks \in Seq(Blocks)
        /\ WriteLoc \notin tx'.removed
    <2>1. CASE Begin \/ Rollback
      <3>1. tx' = IdleTx \/ tx' = [IdleTx EXCEPT !.pc = "open"]
        BY <2>1 DEF Begin, Rollback
      <3>2. UNCHANGED <<store, meta, reader, status, ghost>> /\ status = "up"
        BY <2>1 DEF Begin, Rollback, PlaceInv
      <3> QED BY <3>1, <3>2, IdleFields DEF PlaceInv, store, meta, ghost
    <2>2. CASE Commit
      BY <2>2 DEF Commit, PlaceInv, CursorInv, store, meta, ghost
    <2>3. CASE \E k \in UserKeys : Delete(k)
      BY <2>3, KeysAssumption, DeleteFields DEF Delete, PlaceInv, store, meta, ghost
    <2>4. CASE \E k \in UserKeys : \E v \in Values : Put(k, v)
      BY <2>4, PutFields DEF Put, PlaceInv, store, meta, ghost
    <2>5. CASE \E b \in Blocks : StoreBlock(b)
      BY <2>5 DEF StoreBlock, PlaceInv, store, meta, ghost
    <2> QED BY <2>1, <2>2, <2>3, <2>4, <2>5
  <1>2. PlaceInv'
    BY <1>1 DEF PlaceInv
  <1>3. Loc' = Loc
    BY <1>1 DEF Loc
  <1>4. CursorInv'
    BY <1>1, <1>3 DEF CursorInv, After, Position
  <1>5. RowsOK(tx'.keys, cursor, page, lost)
    <2>1. \A b \in Blocks \cap DOMAIN tx'.keys : b \in DOMAIN tx.keys /\ tx'.keys[b] = tx.keys[b]
      <3>1. CASE Begin \/ Rollback
        BY <3>1 DEF Begin, Rollback, IdleTx, NoKeys
      <3>2. CASE Commit
        BY <3>2 DEF Commit, PlaceInv
      <3>3. CASE \E k \in UserKeys : Delete(k)
        BY <3>3, DeleteFields DEF Delete, PlaceInv
      <3>4. CASE \E k \in UserKeys : \E v \in Values : Put(k, v)
        BY <3>4, KeysAssumption, PutFields DEF Put, PlaceInv
      <3>5. CASE \E b \in Blocks : StoreBlock(b)
        BY <3>5 DEF StoreBlock, PlaceInv
      <3> QED BY <3>1, <3>2, <3>3, <3>4, <3>5
    <2> QED BY <2>1 DEF RowInv, RowsOK
  <1>6. RowInv'
    BY <1>1, <1>3, <1>5 DEF RowInv
  <1> QED BY <1>2, <1>4, <1>6

\* Rows stay readable when all that changes in the files is at or beyond at.
LEMMA RowsBelow ==
    ASSUME CursorInv, RowInv, NEW at \in Position, ~After(Loc, at),
           Keeps(page, page', at), lost' = lost, ldb' = ldb, cached' = cached, reader' = reader
    PROVE  /\ RowsOK(ldb', ldb'[WriteLoc], page', lost')
           /\ RowsOK(cached'.keys, Loc', page', lost')
           /\ \A r \in Readers : /\ RowsOK(reader'[r].base, Loc', page', lost')
                                 /\ RowsOK(reader'[r].view, Loc', page', lost')
  <1>1. Loc' = Loc
    BY DEF Loc
  <1>2. ~After(ldb[WriteLoc], at)
    BY DEF CursorInv, After, Position
  <1>3. Keeps(page, page', Loc) /\ Keeps(page, page', ldb[WriteLoc])
    BY <1>2, KeepsLess DEF CursorInv
  <1>4. ~After(Loc, Loc) /\ ~After(ldb[WriteLoc], ldb[WriteLoc])
    BY DEF CursorInv, After, Position
  <1>5. RowsOK(ldb, ldb[WriteLoc], page', lost) /\ RowsOK(cached.keys, Loc, page', lost)
    BY <1>3, <1>4, KeepRows DEF CursorInv, RowInv
  <1>6. ASSUME NEW r \in Readers
        PROVE  RowsOK(reader[r].base, Loc, page', lost) /\ RowsOK(reader[r].view, Loc, page', lost)
    BY <1>3, <1>4, KeepRows DEF CursorInv, RowInv
  <1> QED BY <1>1, <1>5, <1>6

\* A written block can be read, and so can all before it.
LEMMA WriteBlockStep ==
    ASSUME StoreInv, WriteBlock
    PROVE  PlaceInv' /\ CursorInv' /\ RowInv'
  <1> USE DEF StoreInv
  <1> DEFINE b == Head(tx.blocks)
             len == BlockLen[b]
             at == WritePosition(len)
             t == PutKey(tx, b, BlockRow(at, len))
  <1>1. b \in Blocks /\ Tail(tx.blocks) \in Seq(Blocks) /\ len \in Nat
    BY LengthsAssumption DEF WriteBlock, PlaceInv
  <1>2. at \in Position /\ ~After(cursor, at)
    BY <1>1, WritePositionOK DEF CursorInv
  <1>3. /\ page' = WithFile(page, at.file, WriteAt(Content(page, at.file), at.off, Record(b)))
        /\ cursor' = [at EXCEPT !.off = at.off + len]
        /\ tx' = [t EXCEPT !.blocks = Tail(tx.blocks)]
        /\ UNCHANGED <<disk, ldb, cached, reader, status, lost>>
        /\ tx.pc = "blocks" /\ status = "up"
    BY DEF WriteBlock, PlaceInv, meta, ghost
  <1> HIDE DEF at
  <1>4. Len(Record(b)) \in Nat
    BY <1>1 DEF Record
  <1>5. FilesOK(page') /\ Keeps(page, page', at)
    BY <1>2, <1>3, <1>4, WriteKeeps DEF CursorInv
  <1>6. Intact(page', b, BlockRow(at, len))
    BY <1>1, <1>2, <1>3, WriteStores DEF CursorInv
  <1>7. /\ cursor' \in Position /\ ~After(at, cursor') /\ ~After(cursor, cursor')
        /\ Within(BlockRow(at, len), cursor') /\ BlockRow(at, len) \in Location
    <2> HIDE DEF len
    <2>1. cursor' = [file |-> at.file, off |-> at.off + len]
      BY <1>2, <1>3 DEF Position
    <2>2. cursor \in Position
      BY DEF CursorInv
    <2> QED BY <1>1, <1>2, <2>1, <2>2 DEF Position, Location, After, Within, BlockRow
  <1>8. /\ DOMAIN tx' = DOMAIN tx /\ tx'.pc = "blocks" /\ tx'.old = tx.old
        /\ tx'.blocks = Tail(tx.blocks) /\ WriteLoc \notin tx'.removed
        /\ tx'.keys = t.keys
    BY <1>3, PutFields DEF PlaceInv
  <1>9. PlaceInv'
    BY <1>1, <1>3, <1>8 DEF PlaceInv
  <1>10. CursorInv'
    <2>1. Loc' = Loc
      BY <1>3 DEF Loc
    <2>2. ~After(Loc, cursor') /\ ~After(tx.old, cursor')
      BY <1>3, <1>7 DEF CursorInv, PlaceInv, After, Position
    <2> QED BY <1>3, <1>5, <1>7, <1>8, <2>1, <2>2 DEF CursorInv
  <1>11. RowsOK(tx'.keys, cursor', page', lost')
    <2>1. Keeps(page, page', cursor)
      BY <1>2, <1>5, KeepsLess DEF CursorInv
    <2>2. RowsOK(tx.keys, at, page', lost')
      BY <1>2, <1>3, <2>1, KeepRows DEF CursorInv, RowInv
    <2>3. RowsOK(tx.keys, cursor', page', lost')
      BY <1>2, <1>7, <2>2, KeepRows, KeepsSame
    <2>4. /\ DOMAIN tx'.keys = DOMAIN tx.keys \cup {b}
          /\ tx'.keys[b] = BlockRow(at, len)
          /\ \A x \in DOMAIN tx.keys : x # b => tx'.keys[x] = tx.keys[x]
      BY <1>8, PutFields DEF PlaceInv
    <2> QED BY <1>6, <1>7, <2>3, <2>4 DEF RowsOK
  <1>12. RowInv'
    <2>1. ~After(Loc, at)
      BY <1>2, <1>3 DEF CursorInv, After, Position
    <2> QED BY <1>2, <1>3, <1>5, <1>11, <2>1, RowsBelow DEF RowInv
  <1> QED BY <1>9, <1>10, <1>12

\* A write that fails damages nothing before the cursor.
LEMMA WriteBlockFailsStep ==
    ASSUME StoreInv, WriteBlockFails
    PROVE  PlaceInv' /\ CursorInv' /\ RowInv'
  <1> USE DEF StoreInv
  <1> DEFINE b == Head(tx.blocks)
             len == BlockLen[b]
             at == WritePosition(len)
  <1>1. b \in Blocks /\ len \in Nat
    BY LengthsAssumption DEF WriteBlockFails, PlaceInv
  <1>2. at \in Position /\ ~After(cursor, at)
    BY <1>1, WritePositionOK DEF CursorInv
  <1>3. /\ tx' = [tx EXCEPT !.pc = "rollback"]
        /\ UNCHANGED <<disk, ldb, cached, reader, status, lost>>
        /\ tx.pc = "blocks" /\ status = "up"
    BY DEF WriteBlockFails, PlaceInv, meta, ghost
  <1>4. \/ cursor' = at /\ page' = page
        \/ \E n \in 0..(len - 1) :
              /\ page' = WithFile(page, at.file,
                            WriteAt(Content(page, at.file), at.off, SubSeq(Record(b), 1, n)))
              /\ cursor' = [at EXCEPT !.off = at.off + n]
    BY DEF WriteBlockFails
  <1> HIDE DEF at
  <1>5. /\ FilesOK(page') /\ Keeps(page, page', at)
        /\ cursor' \in Position /\ ~After(at, cursor')
    <2>1. CASE cursor' = at /\ page' = page
      BY <1>2, <2>1, KeepsSame DEF CursorInv, After, Position
    <2>2. ASSUME NEW n \in 0..(len - 1),
                 page' = WithFile(page, at.file,
                            WriteAt(Content(page, at.file), at.off, SubSeq(Record(b), 1, n))),
                 cursor' = [at EXCEPT !.off = at.off + n]
          PROVE  /\ FilesOK(page') /\ Keeps(page, page', at)
                 /\ cursor' \in Position /\ ~After(at, cursor')
      <3>1. n \in Nat
        BY <1>1
      <3>2. Len(SubSeq(Record(b), 1, n)) \in Nat
        <4>1. Record(b) \in Seq(Blocks \X (1..len)) /\ Len(Record(b)) = len
          BY <1>1 DEF Record
        <4> QED BY <1>1, <3>1, <4>1
      <3>3. FilesOK(page') /\ Keeps(page, page', at)
        BY <1>2, <2>2, <3>2, WriteKeeps DEF CursorInv
      <3>4. cursor' \in Position /\ ~After(at, cursor')
        BY <1>2, <2>2, <3>1 DEF Position, After
      <3> QED BY <3>3, <3>4
    <2> QED BY <1>4, <2>1, <2>2
  <1>6. /\ DOMAIN tx' = DOMAIN tx /\ tx'.pc = "rollback" /\ tx'.old = tx.old
        /\ tx'.blocks = tx.blocks /\ tx'.removed = tx.removed /\ tx'.keys = tx.keys
    BY <1>3 DEF PlaceInv
  <1>7. PlaceInv'
    BY <1>3, <1>6 DEF PlaceInv
  <1>8. CursorInv'
    <2>1. Loc' = Loc
      BY <1>3 DEF Loc
    <2>2. ~After(Loc, cursor') /\ ~After(tx.old, cursor')
      BY <1>2, <1>3, <1>5 DEF CursorInv, PlaceInv, After, Position
    <2> QED BY <1>3, <1>5, <1>6, <2>1, <2>2 DEF CursorInv
  <1>9. RowsOK(tx.keys, cursor', page', lost')
    <2>1. Keeps(page, page', cursor)
      BY <1>2, <1>5, KeepsLess DEF CursorInv
    <2>2. RowsOK(tx.keys, at, page', lost')
      BY <1>2, <1>3, <2>1, KeepRows DEF CursorInv, RowInv
    <2> QED BY <1>2, <1>5, <2>2, KeepRows, KeepsSame
  <1>10. RowInv'
    <2>1. ~After(Loc, at)
      BY <1>2, <1>3 DEF CursorInv, After, Position
    <2> QED BY <1>2, <1>3, <1>5, <1>6, <1>9, <2>1, RowsBelow DEF RowInv
  <1> QED BY <1>7, <1>8, <1>10

\* A transaction without keys has no rows.
LEMMA IdleRows ==
    ASSUME NEW p, NEW files, NEW gone
    PROVE  /\ RowsOK(IdleTx.keys, p, files, gone)
           /\ RowsOK(NoKeys, p, files, gone)
           /\ RowsOK(NoUpdate.keys, p, files, gone)
  BY DEF IdleTx, NoKeys, NoUpdate, RowsOK

\* A rollback truncates nothing that is committed.
LEMMA RollbackFilesStep ==
    ASSUME StoreInv, RollbackFiles
    PROVE  PlaceInv' /\ CursorInv' /\ RowInv'
  <1> USE DEF StoreInv
  <1>1. /\ handleRollback(cursor, tx.old) /\ tx' = IdleTx
        /\ UNCHANGED <<ldb, cached, reader, status, lost>>
        /\ tx.pc = "rollback" /\ status = "up" /\ tx.old \in Position /\ ~After(Loc, tx.old)
    BY DEF RollbackFiles, PlaceInv, CursorInv, meta, ghost
  <1>2. FilesOK(page') /\ FilesOK(disk') /\ Keeps(page, page', tx.old) /\ cursor' = tx.old
    BY <1>1, RollbackKeeps DEF CursorInv
  <1>3. PlaceInv'
    BY <1>1, IdleFields DEF PlaceInv
  <1>4. Loc' = Loc
    BY <1>1 DEF Loc
  <1>5. CursorInv'
    BY <1>1, <1>2, <1>4, IdleFields DEF CursorInv
  <1>6. RowInv'
    BY <1>1, <1>2, IdleRows, RowsBelow DEF RowInv
  <1> QED BY <1>3, <1>5, <1>6

\* Nor does reconcileDB.
LEMMA OpenStep ==
    ASSUME StoreInv, Open
    PROVE  PlaceInv' /\ CursorInv' /\ RowInv'
  <1> USE DEF StoreInv
  <1>1. /\ handleRollback(Scanned, ldb[WriteLoc]) /\ status = "down" /\ status' = "up"
        /\ UNCHANGED <<ldb, cached, tx, reader, lost>>
        /\ ldb[WriteLoc] \in Position
    BY DEF Open, CursorInv, meta, ghost
  <1>2. cached = NoUpdate /\ tx.pc = "idle"
    BY <1>1 DEF PlaceInv
  <1>3. Loc = ldb[WriteLoc] /\ Loc' = Loc
    BY <1>1, <1>2 DEF Loc, NoUpdate, NoKeys
  <1>4. /\ FilesOK(page') /\ FilesOK(disk') /\ Keeps(page, page', ldb[WriteLoc])
        /\ cursor' = ldb[WriteLoc]
    BY <1>1, RollbackKeeps DEF CursorInv
  <1>5. PlaceInv'
    BY <1>1, <1>2 DEF PlaceInv
  <1>6. ~After(Loc, Loc)
    BY DEF CursorInv, After, Position
  <1>7. CursorInv'
    BY <1>1, <1>2, <1>3, <1>4, <1>6 DEF CursorInv
  <1>8. RowsOK(tx.keys, cursor', page', lost')
    BY <1>2, IdleRows DEF PlaceInv
  <1>9. RowInv'
    BY <1>1, <1>3, <1>4, <1>6, <1>8, RowsBelow DEF RowInv
  <1> QED BY <1>5, <1>7, <1>9

\* Steps of Commit and Close that change neither what is read of the files nor
\* the metadata: the transaction moves on, fails, or gets its write row.
LEMMA PlaceStep ==
    ASSUME StoreInv, StoreWriteRow \/ SyncBlocks \/ SyncFails \/ LdbFails \/ Close \/ OpenCorrupt
    PROVE  PlaceInv' /\ CursorInv' /\ RowInv'
  <1> USE DEF StoreInv
  <1>1. /\ UNCHANGED <<page, cursor, ldb, cached, lost, reader>>
        /\ FilesOK(disk')
    <2>1. CASE SyncBlocks
      <3>1. \A f \in SyncedFile : f \in Nat
        BY DEF SyncedFile, CursorInv, Position
      <3>2. SyncedFile \subseteq DOMAIN page
        BY DEF SyncedFile, OpenFileInv
      <3> QED BY <2>1, <3>1, <3>2 DEF SyncBlocks, CursorInv, FilesOK, meta, ghost
    <2>2. CASE ~SyncBlocks
      BY <2>2 DEF StoreWriteRow, SyncFails, LdbFails, Close, OpenCorrupt, CursorInv,
                  store, meta, ghost
    <2> QED BY <2>1, <2>2
  <1>2. /\ DOMAIN tx' = DOMAIN tx /\ tx'.old \in Position /\ tx'.blocks \in Seq(Blocks)
        /\ WriteLoc \notin tx'.removed
        /\ \A b \in Blocks \cap DOMAIN tx'.keys : b \in DOMAIN tx.keys /\ tx'.keys[b] = tx.keys[b]
    <2>1. CASE StoreWriteRow
      <3>1. PICK pc : tx' = [PutKey(tx, WriteLoc, cursor) EXCEPT !.pc = pc]
        BY <2>1 DEF StoreWriteRow
      <3> QED BY <3>1, PutFields, KeysAssumption DEF PlaceInv
    <2>2. CASE ~StoreWriteRow
      <3>1. \/ tx' = tx \/ tx' = IdleTx \/ tx' = [IdleTx EXCEPT !.pc = "sync"]
            \/ \E pc : tx' = [tx EXCEPT !.pc = pc]
        BY <2>2 DEF SyncBlocks, SyncFails, LdbFails, Close, OpenCorrupt, Flushed, Failed
      <3> QED BY <3>1, IdleFields DEF PlaceInv
    <2> QED BY <2>1, <2>2
  <1>3. PlaceInv'
    <2>1. CASE StoreWriteRow
      <3>1. PICK pc \in {"cache", "sync"} :
               tx' = [PutKey(tx, WriteLoc, cursor) EXCEPT !.pc = pc]
        BY <2>1 DEF StoreWriteRow
      <3>2. /\ tx'.pc = pc /\ WriteLoc \in DOMAIN tx'.keys /\ tx'.keys[WriteLoc] = cursor
            /\ status' = status /\ status = "up"
        BY <2>1, <3>1, PutFields DEF PlaceInv, StoreWriteRow
      <3> QED BY <1>1, <1>2, <3>2 DEF PlaceInv
    <2>2. CASE SyncBlocks
      <3>1. /\ status' = status /\ status \in {"up", "closing"}
            /\ tx'.pc \in {"store", "direct", "closeFiles"} /\ tx'.keys = tx.keys
            /\ tx'.pc = "direct" => status = "up"
            /\ tx.pc = "sync"
        BY <2>2 DEF SyncBlocks, Flushed, PlaceInv
      <3> QED BY <1>1, <1>2, <3>1 DEF PlaceInv
    <2>3. CASE SyncFails \/ LdbFails
      <3>1. /\ status' = status /\ status \in {"up", "closing"}
            /\ tx'.pc \in {"idle", "closeFiles"} /\ (tx'.pc = "idle" => tx' = IdleTx)
        BY <2>3, IdleFields DEF SyncFails, LdbFails, Failed, PlaceInv
      <3> QED BY <1>1, <1>2, <3>1 DEF PlaceInv
    <2>4. CASE Close
      BY <1>1, <1>2, <2>4 DEF Close, PlaceInv, IdleTx
    <2>5. CASE OpenCorrupt
      BY <1>1, <1>2, <2>5 DEF OpenCorrupt, PlaceInv
    <2> QED BY <2>1, <2>2, <2>3, <2>4, <2>5
  <1>4. Loc' = Loc
    BY <1>1 DEF Loc
  <1>5. CursorInv'
    <2>1. /\ status' \in {"up", "closing"} => status \in {"up", "closing"}
          /\ tx'.pc \notin {"blocks", "rollback"}
      BY IdleFields, PutFields DEF StoreWriteRow, SyncBlocks, SyncFails, LdbFails, Close,
                                   OpenCorrupt, PlaceInv, Flushed, Failed
    <2> QED BY <1>1, <1>4, <2>1 DEF CursorInv
  <1>6. RowsOK(tx'.keys, cursor, page, lost)
    BY <1>2 DEF RowInv, RowsOK
  <1>7. RowInv'
    BY <1>1, <1>4, <1>6 DEF RowInv
  <1> QED BY <1>3, <1>5, <1>7

\* The rows of a transaction move into the cache,
LEMMA CommitToCacheStep ==
    ASSUME StoreInv, CommitToCache
    PROVE  PlaceInv' /\ CursorInv' /\ RowInv'
  <1> USE DEF StoreInv
  <1>1. /\ cached' = Merged(cached, tx) /\ tx' = IdleTx
        /\ UNCHANGED <<page, disk, cursor, ldb, reader, status, lost>>
        /\ status = "up" /\ WriteLoc \in DOMAIN tx.keys /\ tx.keys[WriteLoc] = cursor
    BY DEF CommitToCache, PlaceInv, store, ghost
  <1>2. Loc' = cursor
    BY <1>1 DEF Loc, Merged, Overlay, PlaceInv
  <1>3. PlaceInv'
    BY <1>1, IdleFields DEF PlaceInv
  <1>4. ~After(Loc, cursor) /\ ~After(cursor, cursor) /\ ~After(ldb[WriteLoc], cursor)
    BY <1>1 DEF CursorInv, After, Position
  <1>5. CursorInv'
    BY <1>1, <1>2, <1>4, IdleFields DEF CursorInv, Merged, PlaceInv
  <1>6. RowsOK(cached.keys, cursor, page, lost)
    BY <1>4, KeepRows, KeepsSame DEF CursorInv, RowInv
  <1>7. RowsOK(cached'.keys, cursor, page, lost)
    BY <1>1, <1>6, RowsOverlay DEF Merged, RowInv
  <1>8. ASSUME NEW r \in Readers
        PROVE  RowsOK(reader[r].base, cursor, page, lost) /\ RowsOK(reader[r].view, cursor, page, lost)
    BY <1>4, KeepRows, KeepsSame DEF CursorInv, RowInv
  <1>9. RowInv'
    BY <1>1, <1>2, <1>7, <1>8, IdleRows DEF RowInv
  <1> QED BY <1>3, <1>5, <1>9

\* those of the cache into leveldb,
LEMMA StoreCacheStep ==
    ASSUME StoreInv, StoreCache
    PROVE  PlaceInv' /\ CursorInv' /\ RowInv'
  <1> USE DEF StoreInv
  <1>1. /\ ldb' = Overlay(ldb, cached) /\ tx' = [tx EXCEPT !.pc = "clear"]
        /\ UNCHANGED <<page, disk, cursor, cached, reader, status, lost>>
        /\ tx.pc = "store" /\ status \in {"up", "closing"}
    BY DEF StoreCache, PlaceInv, store, ghost
  <1>2. WriteLoc \in DOMAIN ldb' /\ ldb'[WriteLoc] = Loc /\ Loc' = Loc
    BY <1>1 DEF Loc, Overlay, CursorInv
  <1>3. /\ DOMAIN tx' = DOMAIN tx /\ tx'.pc = "clear" /\ tx'.old = tx.old
        /\ tx'.blocks = tx.blocks /\ tx'.removed = tx.removed /\ tx'.keys = tx.keys
    BY <1>1 DEF PlaceInv
  <1>4. PlaceInv'
    BY <1>1, <1>3 DEF PlaceInv
  <1>5. ~After(Loc, Loc)
    BY DEF CursorInv, After, Position
  <1>6. CursorInv'
    BY <1>1, <1>2, <1>3, <1>5 DEF CursorInv
  <1>7. RowsOK(ldb, Loc, page, lost)
    BY KeepRows, KeepsSame DEF CursorInv, RowInv
  <1>8. RowsOK(ldb', Loc, page, lost)
    BY <1>1, <1>7, RowsOverlay DEF RowInv
  <1>9. RowInv'
    BY <1>1, <1>2, <1>3, <1>8 DEF RowInv
  <1> QED BY <1>4, <1>6, <1>9

\* and out of the cache,
LEMMA ClearCacheStep ==
    ASSUME StoreInv, ClearCache
    PROVE  PlaceInv' /\ CursorInv' /\ RowInv'
  <1> USE DEF StoreInv
  <1>1. /\ cached' = NoUpdate /\ tx' = Flushed
        /\ UNCHANGED <<page, disk, cursor, ldb, reader, status, lost>>
        /\ tx.pc = "clear" /\ status \in {"up", "closing"} /\ Overlay(ldb, cached) = ldb
    BY DEF ClearCache, PlaceInv, FlushInv, store, ghost
  <1>2. Loc' = ldb[WriteLoc]
    BY <1>1 DEF Loc, NoUpdate, NoKeys
  <1>3. Loc = ldb[WriteLoc]
    <2>1. WriteLoc \in DOMAIN cached.keys => Overlay(ldb, cached)[WriteLoc] = cached.keys[WriteLoc]
      BY DEF Overlay, CursorInv
    <2> QED BY <1>1, <2>1 DEF Loc
  <1>4. /\ DOMAIN tx' = DOMAIN tx /\ tx'.pc \in {"direct", "closeFiles"} /\ tx'.old = tx.old
        /\ tx'.blocks = tx.blocks /\ tx'.removed = tx.removed /\ tx'.keys = tx.keys
        /\ tx'.pc = "direct" => status = "up"
    BY <1>1 DEF PlaceInv, Flushed
  <1>5. PlaceInv'
    BY <1>1, <1>4 DEF PlaceInv
  <1>6. CursorInv'
    BY <1>1, <1>2, <1>3, <1>4 DEF CursorInv, NoUpdate
  <1>7. RowInv'
    BY <1>1, <1>2, <1>3, <1>4, IdleRows DEF RowInv
  <1> QED BY <1>5, <1>6, <1>7

\* or those of a transaction into leveldb at once.
LEMMA StoreTxStep ==
    ASSUME StoreInv, StoreTx
    PROVE  PlaceInv' /\ CursorInv' /\ RowInv'
  <1> USE DEF StoreInv
  <1>1. /\ ldb' = Overlay(ldb, tx) /\ tx' = IdleTx
        /\ UNCHANGED <<page, disk, cursor, cached, reader, status, lost>>
        /\ status = "up" /\ cached = NoUpdate
        /\ WriteLoc \in DOMAIN tx.keys /\ tx.keys[WriteLoc] = cursor
    BY DEF StoreTx, PlaceInv, FlushInv, store, ghost
  <1>2. Loc = ldb[WriteLoc] /\ Loc' = ldb'[WriteLoc]
    BY <1>1 DEF Loc, NoUpdate, NoKeys
  <1>3. WriteLoc \in DOMAIN ldb' /\ ldb'[WriteLoc] = cursor
    BY <1>1 DEF Overlay, PlaceInv
  <1>4. PlaceInv'
    BY <1>1, IdleFields DEF PlaceInv
  <1>5. ~After(Loc, cursor) /\ ~After(cursor, cursor)
    BY <1>1 DEF CursorInv, After, Position
  <1>6. CursorInv'
    BY <1>1, <1>2, <1>3, <1>5, IdleFields DEF CursorInv
  <1>7. RowsOK(ldb, cursor, page, lost)
    BY <1>2, <1>5, KeepRows, KeepsSame DEF CursorInv, RowInv
  <1>8. RowsOK(ldb', cursor, page, lost)
    BY <1>1, <1>7, RowsOverlay DEF RowInv
  <1>9. ASSUME NEW r \in Readers
        PROVE  RowsOK(reader[r].base, cursor, page, lost) /\ RowsOK(reader[r].view, cursor, page, lost)
    BY <1>5, KeepRows, KeepsSame DEF CursorInv, RowInv
  <1>10. RowInv'
    BY <1>1, <1>2, <1>3, <1>8, <1>9, IdleRows DEF RowInv
  <1> QED BY <1>4, <1>6, <1>10

\* However the process ends, leveldb and the files that are left fit together.
LEMMA StopStep ==
    ASSUME StoreInv, Kill \/ PowerLoss \/ CloseFiles
    PROVE  PlaceInv' /\ CursorInv' /\ RowInv'
  <1> USE DEF StoreInv
  <1>1. MemoryGone /\ ldb' = ldb
    BY DEF Kill, PowerLoss, CloseFiles
  <1>2. Loc' = ldb[WriteLoc]
    BY <1>1 DEF MemoryGone, Loc, NoUpdate, NoKeys
  <1>3. PlaceInv'
    BY <1>1, IdleFields DEF MemoryGone, PlaceInv, IdleReader
  <1>4. FilesOK(page') /\ FilesOK(disk') /\ RowsOK(ldb, ldb[WriteLoc], page', lost')
    <2>1. CASE PowerLoss
      <3>1. PICK F \in SUBSET (DOMAIN page \cup DOMAIN disk) : page' \in Survivors(F)
        BY <2>1 DEF PowerLoss
      <3>2. FilesOK(page') /\ disk' = page'
        BY <2>1, <3>1, SurvivorsOK DEF CursorInv, PowerLoss
      <3>3. RowsOK(ldb, ldb[WriteLoc], page', lost')
        BY <2>1 DEF PowerLoss, RowInv, RowsOK
      <3> QED BY <3>2, <3>3
    <2>2. CASE Kill \/ CloseFiles
      BY <2>2 DEF Kill, CloseFiles, ghost, CursorInv, RowInv
    <2> QED BY <2>1, <2>2
  <1>5. CursorInv'
    <2>1. ~After(ldb[WriteLoc], ldb[WriteLoc])
      BY DEF CursorInv, After, Position
    <2> QED BY <1>1, <1>2, <1>4, <2>1, IdleFields
            DEF MemoryGone, CursorInv, NoUpdate, Position
  <1>6. RowInv'
    BY <1>1, <1>2, <1>4, IdleRows DEF MemoryGone, RowInv, IdleReader
  <1> QED BY <1>3, <1>5, <1>6

\* A snapshot has rows of leveldb and of the cache, old or new.
LEMMA ReaderStep ==
    ASSUME StoreInv, NEW r \in Readers,
           SnapshotLdb(r) \/ SnapshotCache(r) \/ CloseReader(r)
    PROVE  PlaceInv' /\ CursorInv' /\ RowInv'
  <1> USE DEF StoreInv
  <1>1. UNCHANGED <<page, disk, cursor, ldb, cached, tx, status, lost>>
    BY DEF SnapshotLdb, SnapshotCache, CloseReader, store, meta, ghost
  <1>2. Loc' = Loc
    BY <1>1 DEF Loc
  <1>3. PlaceInv'
    BY <1>1 DEF SnapshotLdb, SnapshotCache, CloseReader, IdleReader, PlaceInv
  <1>4. CursorInv'
    BY <1>1, <1>2 DEF CursorInv
  <1>5. RowsOK(ldb, Loc, page, lost)
    BY KeepRows, KeepsSame DEF CursorInv, RowInv
  <1>6. RowsOK(Overlay(reader[r].base, cached), Loc, page, lost)
    BY RowsOverlay DEF RowInv
  <1>7. \/ reader'[r].base = ldb /\ reader'[r].view = NoKeys
        \/ reader'[r].base = NoKeys /\ reader'[r].view = Overlay(reader[r].base, cached)
        \/ reader'[r].base = NoKeys /\ reader'[r].view = NoKeys
    BY DEF SnapshotLdb, SnapshotCache, CloseReader, IdleReader, PlaceInv
  <1>8. \A q \in Readers \ {r} : reader'[q] = reader[q]
    BY DEF SnapshotLdb, SnapshotCache, CloseReader, PlaceInv
  <1>9. RowsOK(reader'[r].base, Loc, page, lost) /\ RowsOK(reader'[r].view, Loc, page, lost)
    BY <1>5, <1>6, <1>7, IdleRows
  <1>10. RowInv'
    BY <1>1, <1>2, <1>8, <1>9 DEF RowInv
  <1> QED BY <1>3, <1>4, <1>10

\* The rows of a block, wherever they are kept, point below the cursor to a
\* record nobody touches again: StoreInv is inductive.
THEOREM StoreInvariant == Spec => []StoreInv
  <1>1. Init => StoreInv
    <2> SUFFICES ASSUME Init PROVE StoreInv
      OBVIOUS
    <2>1. FlushInv
      BY DEF Init, FlushInv, IsMap, IdleTx
    <2>2. PlaceInv
      BY IdleFields DEF Init, PlaceInv, IdleReader
    <2>3. OpenFileInv
      BY DEF Init, OpenFileInv
    <2>4. CursorInv
      BY IdleFields DEF Init, CursorInv, FilesOK, Loc, NoUpdate, NoKeys, Position, After
    <2>5. RowsOK(ldb, ldb[WriteLoc], page, lost)
      BY KeysAssumption DEF Init, RowsOK
    <2>6. RowInv
      BY <2>5, IdleRows DEF Init, RowInv, IdleReader
    <2> QED BY <2>1, <2>2, <2>3, <2>4, <2>6 DEF StoreInv
  <1>2. StoreInv /\ [Next]_vars => StoreInv'
    <2> SUFFICES ASSUME StoreInv, [Next]_vars PROVE StoreInv'
      OBVIOUS
    <2>1. FlushInv' /\ OpenFileInv'
      BY FlushInvStep, OpenFileStep DEF StoreInv
    <2>2. CASE UNCHANGED vars
      BY <2>1, <2>2 DEF StoreInv, PlaceInv, CursorInv, RowInv, Loc, vars, store, meta, ghost
    <2>3. CASE Next
      <3>1. PlaceInv' /\ CursorInv' /\ RowInv'
        BY <2>3, CollectStep, WriteBlockStep, WriteBlockFailsStep, RollbackFilesStep, OpenStep,
           PlaceStep, CommitToCacheStep, StoreCacheStep, ClearCacheStep, StoreTxStep, StopStep,
           ReaderStep
        DEF Next, Proceed
      <3> QED BY <2>1, <3>1 DEF StoreInv
    <2> QED BY <2>2, <2>3
  <1> QED BY <1>1, <1>2, PTL DEF Spec

\* FetchBlock finds every indexed block intact: no rollback, no failing call, no
\* restart and no later write damages a block that has been committed, for a
\* new transaction and for every open reader.  Only a loss of power does.
THEOREM CommittedBlocksReadable == Spec => []BlocksReadable
  <1>1. StoreInv => BlocksReadable
    <2> SUFFICES ASSUME StoreInv PROVE BlocksReadable
      OBVIOUS
    <2>1. RowsOK(ldb, Loc, page, lost)
      BY KeepRows, KeepsSame DEF StoreInv, CursorInv, RowInv
    <2>2. RowsOK(Visible, Loc, page, lost)
      BY <2>1, RowsOverlay DEF StoreInv, RowInv, Visible
    <2> QED BY <2>2 DEF StoreInv, RowInv, RowsOK, BlocksReadable
  <1> QED BY <1>1, StoreInvariant, PTL
-----------------------------------------------------------------------------
(***************************************************************************)
(* The metadata and the place in the code have their types.                *)
(***************************************************************************)

\* Rows, values and positions are where they belong, in leveldb, in the cache,
\* in the transaction and in every snapshot.
MetaInv ==
    /\ IsMeta(ldb) /\ IsUpdate(cached) /\ IsUpdate(tx)
    /\ \A r \in Readers : IsMeta(reader[r].view) /\ IsMeta(reader[r].base)

\* The places in the code and the flags are of their types.
ControlInv ==
    /\ tx.pc \in {"idle", "open", "blocks", "rollback", "cache", "sync", "store",
                  "clear", "direct", "closeFiles"}
    /\ status \in {"up", "closing", "down", "corrupt"}
    /\ writing \in BOOLEAN /\ ldbBusy \in BOOLEAN /\ lossy \in BOOLEAN
    /\ lost \subseteq Blocks
    /\ faults \in 0..MaxFaults /\ stops \in 0..MaxStops

\* Typed updates give typed metadata.
LEMMA MetaOverlay ==
    ASSUME NEW m, NEW u, IsMeta(m), IsMeta(u.keys)
    PROVE  IsMeta(Overlay(m, u))
  BY DEF IsMeta, Overlay

\* Two typed updates merge to one.
LEMMA UpdateMerged ==
    ASSUME NEW c, NEW t, IsUpdate(c), IsUpdate(t)
    PROVE  IsUpdate(Merged(c, t))
  <1>1. IsMeta(Overlay(c.keys, t))
    BY MetaOverlay DEF IsUpdate
  <1>2. DOMAIN Overlay(c.keys, t) = (DOMAIN c.keys \cup DOMAIN t.keys) \ t.removed
    BY DEF Overlay
  <1>3. DOMAIN Overlay(c.keys, t) \cap ((c.removed \ DOMAIN t.keys) \cup t.removed) = {}
    BY <1>2 DEF IsUpdate
  <1> QED BY <1>1, <1>3 DEF IsUpdate, Merged

\* putKey and deleteKey keep an update an update.
LEMMA UpdatePut ==
    ASSUME NEW t, DOMAIN t = {"pc", "keys", "removed", "blocks", "old"}, IsUpdate(t),
           NEW k \in Blocks \cup UserKeys \cup {WriteLoc}, NEW v,
           /\ k \in Blocks => v \in Location
           /\ k \in UserKeys => v \in Values
           /\ k = WriteLoc => v \in Position
    PROVE  IsUpdate(PutKey(t, k, v))
  BY PutFields DEF IsUpdate, IsMeta

\* Deleting a key of the user gives a typed update.
LEMMA UpdateDelete ==
    ASSUME NEW t, DOMAIN t = {"pc", "keys", "removed", "blocks", "old"}, IsUpdate(t),
           NEW k \in UserKeys
    PROVE  IsUpdate(DeleteKey(t, k))
  BY DeleteFields DEF IsUpdate, IsMeta

\* Only the keys and the removed keys matter.
LEMMA UpdateSame ==
    ASSUME NEW t, NEW u, IsUpdate(t), u.keys = t.keys, u.removed = t.removed
    PROVE  IsUpdate(u)
  BY DEF IsUpdate

\* The empty update is a typed update.
LEMMA IdleUpdates == IsUpdate(IdleTx) /\ IsUpdate(NoUpdate) /\ IsMeta(NoKeys)
  BY DEF IdleTx, NoUpdate, NoKeys, IsUpdate, IsMeta

\* What a step does to the updates of the transaction.
LEMMA TxUpdates ==
    ASSUME StoreInv, MetaInv, [Next]_vars
    PROVE  IsUpdate(tx')
  <1> USE DEF StoreInv, MetaInv
  <1>1. CASE UNCHANGED vars
    BY <1>1 DEF vars
  <1>2. CASE tx' = tx \/ tx' = IdleTx
    BY <1>2, IdleUpdates
  <1>3. CASE \E pc : tx' = [tx EXCEPT !.pc = pc] \/ tx' = [IdleTx EXCEPT !.pc = pc]
    <2>1. PICK pc : tx' = [tx EXCEPT !.pc = pc] \/ tx' = [IdleTx EXCEPT !.pc = pc]
      BY <1>3
    <2>2. \/ tx'.keys = tx.keys /\ tx'.removed = tx.removed
          \/ tx'.keys = IdleTx.keys /\ tx'.removed = IdleTx.removed
      BY <2>1, IdleFields DEF PlaceInv
    <2> QED BY <2>2, IdleUpdates, UpdateSame
  <1>4. CASE Commit \/ \E b \in Blocks : StoreBlock(b)
    <2>1. tx'.keys = tx.keys /\ tx'.removed = tx.removed
      BY <1>4 DEF Commit, StoreBlock, PlaceInv
    <2> QED BY <2>1, UpdateSame
  <1>5. ASSUME NEW k \in UserKeys, Delete(k) PROVE IsUpdate(tx')
    BY <1>5, UpdateDelete DEF Delete, PlaceInv
  <1>6. ASSUME NEW k \in UserKeys, NEW v \in Values, Put(k, v) PROVE IsUpdate(tx')
    BY <1>6, UpdatePut, KeysAssumption DEF Put, PlaceInv
  <1>7. CASE StoreWriteRow
    <2>1. PICK pc : tx' = [PutKey(tx, WriteLoc, cursor) EXCEPT !.pc = pc]
      BY <1>7 DEF StoreWriteRow
    <2>2. IsUpdate(PutKey(tx, WriteLoc, cursor))
      BY UpdatePut, KeysAssumption DEF PlaceInv, CursorInv
    <2>3. /\ tx'.keys = PutKey(tx, WriteLoc, cursor).keys
          /\ tx'.removed = PutKey(tx, WriteLoc, cursor).removed
      BY <2>1, PutFields DEF PlaceInv
    <2> QED BY <2>2, <2>3, UpdateSame
  <1>8. CASE WriteBlock
    <2> DEFINE b == Head(tx.blocks)
               len == BlockLen[b]
               at == WritePosition(len)
    <2>1. b \in Blocks /\ len \in Nat
      BY <1>8, LengthsAssumption DEF WriteBlock, PlaceInv
    <2>2. at \in Position
      BY <2>1, WritePositionOK DEF CursorInv
    <2>3. tx' = [PutKey(tx, b, BlockRow(at, len)) EXCEPT !.blocks = Tail(tx.blocks)]
      BY <1>8 DEF WriteBlock
    <2> HIDE DEF b, len, at
    <2>4. BlockRow(at, len) \in Location
      BY <2>1, <2>2 DEF BlockRow, Location, Position
    <2>5. IsUpdate(PutKey(tx, b, BlockRow(at, len)))
      BY <2>1, <2>4, UpdatePut, KeysAssumption DEF PlaceInv
    <2>6. /\ tx'.keys = PutKey(tx, b, BlockRow(at, len)).keys
          /\ tx'.removed = PutKey(tx, b, BlockRow(at, len)).removed
      BY <2>3, PutFields DEF PlaceInv
    <2> QED BY <2>5, <2>6, UpdateSame
  <1>9. CASE Next /\ ~(\/ Commit \/ \E b \in Blocks : StoreBlock(b)
                       \/ \E k \in UserKeys : Delete(k) \/ \E v \in Values : Put(k, v)
                       \/ StoreWriteRow \/ WriteBlock)
    <2>1. \/ tx' = tx \/ tx' = IdleTx
          \/ \E pc : tx' = [tx EXCEPT !.pc = pc] \/ tx' = [IdleTx EXCEPT !.pc = pc]
      <3>1. CASE Begin \/ Rollback \/ RollbackFiles \/ CommitToCache \/ StoreTx \/ Close
        BY <3>1 DEF Begin, Rollback, RollbackFiles, CommitToCache, StoreTx, Close
      <3>2. CASE SyncBlocks \/ StoreCache \/ ClearCache
        BY <3>2 DEF SyncBlocks, StoreCache, ClearCache, Flushed
      <3>3. CASE WriteBlockFails \/ SyncFails \/ LdbFails
        BY <3>3 DEF WriteBlockFails, SyncFails, LdbFails, Failed
      <3>4. CASE CloseFiles \/ Kill \/ PowerLoss
        BY <3>4 DEF CloseFiles, Kill, PowerLoss, MemoryGone
      <3>5. CASE Open \/ OpenCorrupt
        BY <3>5 DEF Open, OpenCorrupt
      <3>6. CASE \E r \in Readers : SnapshotLdb(r) \/ SnapshotCache(r) \/ CloseReader(r)
        BY <3>6 DEF SnapshotLdb, SnapshotCache, CloseReader
      <3> QED BY <1>9, <3>1, <3>2, <3>3, <3>4, <3>5, <3>6 DEF Next, Proceed
    <2> QED BY <2>1, <1>2, <1>3
  <1> QED BY <1>1, <1>4, <1>5, <1>6, <1>7, <1>8, <1>9

\* Every step keeps MetaInv.
LEMMA MetaInvStep ==
    ASSUME StoreInv, MetaInv, [Next]_vars
    PROVE  MetaInv'
  <1> USE DEF MetaInv
  <1>1. IsUpdate(tx')
    BY TxUpdates
  <1>2. CASE UNCHANGED <<ldb, cached, reader>>
    BY <1>1, <1>2
  <1>3. CASE CommitToCache
    <2>1. IsUpdate(cached') /\ UNCHANGED <<ldb, reader>>
      BY <1>3, UpdateMerged DEF CommitToCache
    <2> QED BY <1>1, <2>1
  <1>4. CASE StoreCache \/ StoreTx
    <2>1. IsMeta(ldb') /\ UNCHANGED <<cached, reader>>
      BY <1>4, MetaOverlay DEF StoreCache, StoreTx, IsUpdate
    <2> QED BY <1>1, <2>1
  <1>5. CASE ClearCache
    BY <1>1, <1>5, IdleUpdates DEF ClearCache
  <1>6. CASE CloseFiles \/ Kill \/ PowerLoss
    <2>1. MemoryGone /\ ldb' = ldb
      BY <1>6 DEF CloseFiles, Kill, PowerLoss
    <2>2. IsUpdate(cached')
      BY <2>1, IdleUpdates DEF MemoryGone
    <2>3. ASSUME NEW r \in Readers PROVE IsMeta(reader'[r].view) /\ IsMeta(reader'[r].base)
      BY <2>1, IdleUpdates DEF MemoryGone, IdleReader
    <2> QED BY <1>1, <2>1, <2>2, <2>3
  <1>7. ASSUME NEW r \in Readers, SnapshotLdb(r) \/ SnapshotCache(r) \/ CloseReader(r)
        PROVE  MetaInv'
    <2>1. UNCHANGED <<ldb, cached>>
      BY <1>7 DEF SnapshotLdb, SnapshotCache, CloseReader, meta
    <2>2. IsMeta(Overlay(reader[r].base, cached))
      BY MetaOverlay DEF IsUpdate
    <2>3. \/ reader'[r].base = ldb /\ reader'[r].view = NoKeys
          \/ reader'[r].base = NoKeys /\ reader'[r].view = Overlay(reader[r].base, cached)
          \/ reader'[r].base = NoKeys /\ reader'[r].view = NoKeys
      BY <1>7 DEF SnapshotLdb, SnapshotCache, CloseReader, IdleReader, StoreInv, PlaceInv
    <2>4. \A q \in Readers \ {r} : reader'[q] = reader[q]
      BY <1>7 DEF SnapshotLdb, SnapshotCache, CloseReader, StoreInv, PlaceInv
    <2>5. IsMeta(reader'[r].base) /\ IsMeta(reader'[r].view)
      BY <2>2, <2>3, IdleUpdates
    <2> QED BY <1>1, <2>1, <2>4, <2>5
  <1>8. CASE Next /\ ~(\/ CommitToCache \/ StoreCache \/ StoreTx \/ ClearCache
                       \/ CloseFiles \/ Kill \/ PowerLoss
                       \/ \E r \in Readers : SnapshotLdb(r) \/ SnapshotCache(r) \/ CloseReader(r))
    <2>1. UNCHANGED <<ldb, cached, reader>>
      BY <1>8 DEF Next, Proceed, Begin, Rollback, Commit, Delete, Put, StoreBlock, WriteBlock,
                  RollbackFiles, StoreWriteRow, SyncBlocks, WriteBlockFails, SyncFails,
                  LdbFails, Close, Open, OpenCorrupt, meta
    <2> QED BY <1>2, <2>1
  <1>9. CASE UNCHANGED vars
    BY <1>2, <1>9 DEF vars, meta
  <1> QED BY <1>3, <1>4, <1>5, <1>6, <1>7, <1>8, <1>9

\* A rollback keeps the flags typed.
LEMMA RollbackControl ==
    ASSUME NEW from, NEW to, handleRollback(from, to), ControlInv
    PROVE  writing' \in BOOLEAN /\ faults' \in 0..MaxFaults
  <1>1. writing' \in BOOLEAN
    <2>1. writing' = writing \/ writing' = TRUE \/ writing' = FALSE
      BY DEF handleRollback, DeleteFails, TruncateWriteFile
    <2> QED BY <2>1 DEF ControlInv
  <1>2. faults' = faults \/ Fault
    BY DEF handleRollback, DeleteFails, TruncateWriteFile
  <1>3. faults' \in 0..MaxFaults
    BY <1>2, BoundsAssumption DEF Fault, ControlInv
  <1> QED BY <1>1, <1>3

\* Every step keeps ControlInv.
LEMMA ControlInvStep ==
    ASSUME StoreInv, ControlInv, [Next]_vars
    PROVE  ControlInv'
  <1> USE DEF ControlInv
  <1>1. CASE UNCHANGED vars
    BY <1>1 DEF vars, store, meta, ghost
  <1>2. CASE Begin \/ Rollback \/ Commit
    BY <1>2, IdleFields DEF Begin, Rollback, Commit, StoreInv, PlaceInv, store, meta, ghost
  <1>3. CASE \/ \E k \in UserKeys : Delete(k) \/ \E v \in Values : Put(k, v)
             \/ \E b \in Blocks : StoreBlock(b)
    BY <1>3, PutFields, DeleteFields
    DEF Delete, Put, StoreBlock, StoreInv, PlaceInv, store, meta, ghost
  <1>4. CASE WriteBlock
    <2>1. tx'.pc = tx.pc
      BY <1>4, PutFields DEF WriteBlock, StoreInv, PlaceInv
    <2> QED BY <1>4, <2>1 DEF WriteBlock, meta, ghost
  <1>5. CASE WriteBlockFails
    <2>1. tx'.pc = "rollback"
      BY <1>5 DEF WriteBlockFails, StoreInv, PlaceInv
    <2>2. faults' \in 0..MaxFaults
      BY <1>5, BoundsAssumption DEF WriteBlockFails, Fault
    <2> QED BY <1>5, <2>1, <2>2 DEF WriteBlockFails, meta, ghost
  <1>6. CASE RollbackFiles
    <2>1. writing' \in BOOLEAN /\ faults' \in 0..MaxFaults
      BY <1>6, RollbackControl DEF RollbackFiles
    <2> QED BY <1>6, <2>1, IdleFields DEF RollbackFiles, meta, ghost
  <1>7. CASE StoreWriteRow
    <2>1. tx'.pc \in {"cache", "sync"}
      BY <1>7, PutFields DEF StoreWriteRow, StoreInv, PlaceInv
    <2> QED BY <1>7, <2>1 DEF StoreWriteRow, store, meta, ghost
  <1>8. CASE CommitToCache \/ StoreCache \/ ClearCache \/ StoreTx \/ SyncBlocks
    <2>1. tx'.pc \in {"idle", "store", "clear", "direct", "closeFiles"}
      BY <1>8, IdleFields DEF CommitToCache, StoreCache, ClearCache, StoreTx, SyncBlocks, Flushed,
                              StoreInv, PlaceInv
    <2> QED BY <1>8, <2>1 DEF CommitToCache, StoreCache, ClearCache, StoreTx, SyncBlocks,
                              store, meta, ghost
  <1>9. CASE SyncFails \/ LdbFails
    <2>1. tx'.pc \in {"idle", "closeFiles"}
      BY <1>9, IdleFields DEF SyncFails, LdbFails, Failed, StoreInv, PlaceInv
    <2>2. faults' \in 0..MaxFaults
      BY <1>9, BoundsAssumption DEF SyncFails, LdbFails, Fault
    <2> QED BY <1>9, <2>1, <2>2 DEF SyncFails, LdbFails, store, meta, ghost
  <1>10. CASE Close \/ OpenCorrupt
    BY <1>10 DEF Close, OpenCorrupt, IdleTx, store, meta, ghost
  <1>11. CASE CloseFiles \/ Kill
    <2>1. MemoryGone /\ UNCHANGED <<ghost, faults>>
      BY <1>11 DEF CloseFiles, Kill
    <2>2. stops' \in 0..MaxStops
      BY <1>11, BoundsAssumption DEF CloseFiles, Kill
    <2> QED BY <2>1, <2>2, IdleFields DEF MemoryGone, ghost
  <1>12. CASE PowerLoss
    <2>1. MemoryGone /\ lost' \subseteq Blocks /\ faults' = faults
      BY <1>12 DEF PowerLoss
    <2>2. stops' \in 0..MaxStops
      BY <1>12, BoundsAssumption DEF PowerLoss
    <2>3. lossy' \in BOOLEAN
      BY <1>12 DEF PowerLoss
    <2> QED BY <2>1, <2>2, <2>3, IdleFields DEF MemoryGone
  <1>13. CASE Open
    <2>1. writing' \in BOOLEAN /\ faults' \in 0..MaxFaults
      BY <1>13, RollbackControl DEF Open
    <2> QED BY <1>13, <2>1 DEF Open, meta, ghost
  <1>14. CASE \E r \in Readers : SnapshotLdb(r) \/ SnapshotCache(r) \/ CloseReader(r)
    BY <1>14 DEF SnapshotLdb, SnapshotCache, CloseReader, store, meta, ghost
  <1> QED
    BY <1>1, <1>2, <1>3, <1>4, <1>5, <1>6, <1>7, <1>8, <1>9, <1>10, <1>11, <1>12, <1>13, <1>14
    DEF Next, Proceed

-----------------------------------------------------------------------------
(***************************************************************************)
(* What is on disk: every file but the open one is either synced or known  *)
(* to have been closed too early.                                          *)
(***************************************************************************)

\* No file and no position goes beyond maxBlockFileSize.
LimitInv ==
    /\ \A f \in DOMAIN page : Len(page[f]) <= MaxFileSize
    /\ \A f \in DOMAIN disk : Len(disk[f]) <= MaxFileSize
    /\ cursor.off <= MaxFileSize /\ tx.old.off <= MaxFileSize
    /\ ldb[WriteLoc].off <= MaxFileSize /\ Loc.off <= MaxFileSize

\* A file that differs from what is on disk is open for writing or was closed
\* before a sync, and once syncBlocks is done it is the latter.
CleanInv ==
    /\ closedDirty \subseteq DOMAIN page
    /\ \A f \in DOMAIN page : Dirty(f) => f \in closedDirty \/ (writing /\ f = cursor.file)
    /\ tx.pc \in {"store", "clear", "direct"} =>
          \A f \in DOMAIN page : Dirty(f) => f \in closedDirty

\* There are finitely many files.
BoundInv == \E n \in Nat : \A f \in DOMAIN page \cup DOMAIN disk : f <= n

\* The steps that touch no block file.
LEMMA FileSteps ==
    ASSUME StoreInv, [Next]_vars
    PROVE  \/ WriteBlock \/ WriteBlockFails \/ RollbackFiles \/ Open \/ SyncBlocks
           \/ CloseFiles \/ Kill \/ PowerLoss
           \/ /\ UNCHANGED <<page, disk, cursor, writing, closedDirty>>
              /\ tx'.pc \in {"store", "clear", "direct"} => tx.pc \in {"store", "clear", "direct"}
  <1>1. CASE UNCHANGED vars
    BY <1>1 DEF vars, store
  <1>2. CASE Begin \/ Rollback \/ Commit
    BY <1>2, IdleFields DEF Begin, Rollback, Commit, StoreInv, PlaceInv, store
  <1>3. CASE \/ \E k \in UserKeys : Delete(k) \/ \E v \in Values : Put(k, v)
             \/ \E b \in Blocks : StoreBlock(b)
    BY <1>3, PutFields, DeleteFields DEF Delete, Put, StoreBlock, StoreInv, PlaceInv, store
  <1>4. CASE StoreWriteRow
    <2>1. tx'.pc \in {"cache", "sync"}
      BY <1>4, PutFields DEF StoreWriteRow, StoreInv, PlaceInv
    <2> QED BY <1>4, <2>1 DEF StoreWriteRow, store
  <1>5. CASE CommitToCache \/ StoreCache \/ ClearCache \/ StoreTx
    BY <1>5, IdleFields DEF CommitToCache, StoreCache, ClearCache, StoreTx, store
  <1>6. CASE SyncFails \/ LdbFails
    <2>1. tx'.pc \in {"idle", "closeFiles"}
      BY <1>6, IdleFields DEF SyncFails, LdbFails, Failed, StoreInv, PlaceInv
    <2> QED BY <1>6, <2>1 DEF SyncFails, LdbFails, store
  <1>7. CASE Close \/ OpenCorrupt
    BY <1>7 DEF Close, OpenCorrupt, IdleTx, store
  <1>8. CASE \E r \in Readers : SnapshotLdb(r) \/ SnapshotCache(r) \/ CloseReader(r)
    BY <1>8 DEF SnapshotLdb, SnapshotCache, CloseReader, store
  <1> QED
    BY <1>1, <1>2, <1>3, <1>4, <1>5, <1>6, <1>7, <1>8 DEF Next, Proceed

\* new is files after n units were written at the position at.
Written(files, new, at, n) ==
    /\ DOMAIN new = DOMAIN files \cup {at.file}
    /\ \A f \in DOMAIN files \ {at.file} : new[f] = files[f]
    /\ Len(new[at.file]) \in {at.off + n, Len(Content(files, at.file))}
    /\ Len(new[at.file]) >= at.off + n
    /\ Len(new[at.file]) >= Len(Content(files, at.file))

\* What a write does to the files.
LEMMA WriteFacts ==
    ASSUME NEW files, FilesOK(files), NEW at \in Position, NEW data, Len(data) \in Nat,
           NEW new, new = WithFile(files, at.file, WriteAt(Content(files, at.file), at.off, data))
    PROVE  Written(files, new, at, Len(data))
  <1> DEFINE s == Content(files, at.file)
             n == IF at.off + Len(data) > Len(s) THEN at.off + Len(data) ELSE Len(s)
  <1>1. at.file \in Nat /\ at.off \in Nat /\ Len(s) \in Nat
    BY DEF Position, Content, FilesOK
  <1>2. n \in Nat
    BY <1>1
  <1>3. Len(WriteAt(s, at.off, data)) = n
    BY <1>2 DEF WriteAt
  <1>4. /\ n \in {at.off + Len(data), Len(s)}
        /\ n >= at.off + Len(data) /\ n >= Len(s)
    BY <1>1
  <1>5. /\ DOMAIN new = DOMAIN files \cup {at.file}
        /\ \A f \in DOMAIN files \ {at.file} : new[f] = files[f]
        /\ new[at.file] = WriteAt(s, at.off, data)
    BY DEF WithFile
  <1> HIDE DEF n
  <1> QED BY <1>3, <1>4, <1>5 DEF Written

\* writeBlock writes len or fewer units at WritePosition, or nothing.
LEMMA WriteShape ==
    ASSUME StoreInv, WriteBlock \/ WriteBlockFails
    PROVE  \E at \in Position, n \in Nat :
             /\ ~After(cursor, at) /\ at.off + n <= MaxFileSize
             /\ \/ at = cursor /\ closedDirty' = closedDirty /\ (~writing' => ~writing)
                \/ at.file = cursor.file + 1 /\ at.off = 0 /\ cursor.off > 0
                      /\ closedDirty' = AfterClosing
             /\ \/ page' = page /\ cursor' = at /\ writing' = FALSE /\ WriteBlockFails
                \/ /\ Written(page, page', at, n)
                   /\ cursor' = [file |-> at.file, off |-> at.off + n]
                   /\ writing' = TRUE
             /\ UNCHANGED <<disk, ldb, cached, lost, lossy, status>>
             /\ tx.pc = "blocks" /\ tx'.pc \in {"blocks", "rollback"} /\ tx'.old = tx.old
             /\ WriteBlockFails => tx'.pc = "rollback"
  <1> USE DEF StoreInv
  <1> DEFINE b == Head(tx.blocks)
             len == BlockLen[b]
             at == WritePosition(len)
  <1>1. b \in Blocks /\ len \in 1..MaxFileSize /\ len \in Nat
    BY LengthsAssumption DEF WriteBlock, WriteBlockFails, PlaceInv
  <1>2. at \in Position /\ ~After(cursor, at)
    BY <1>1, WritePositionOK DEF CursorInv
  <1>3. /\ at.off + len <= MaxFileSize
        /\ ~Roll(len) => at = cursor
        /\ Roll(len) => at.file = cursor.file + 1 /\ at.off = 0 /\ cursor.off > 0
    BY <1>1, LengthsAssumption DEF WritePosition, Roll, CursorInv, Position
  <1>4. /\ UNCHANGED <<disk, ldb, cached, lost, lossy, status>>
        /\ tx.pc = "blocks" /\ tx'.pc \in {"blocks", "rollback"} /\ tx'.old = tx.old
        /\ WriteBlockFails => tx'.pc = "rollback"
    <2>1. /\ UNCHANGED <<disk, ldb, cached, lost, lossy, status>> /\ tx.pc = "blocks"
          /\ WriteBlockFails => tx' = [tx EXCEPT !.pc = "rollback"]
      BY DEF WriteBlock, WriteBlockFails, meta, ghost
    <2>2. WriteBlock => tx'.pc = tx.pc /\ tx'.old = tx.old
      BY PutFields DEF WriteBlock, PlaceInv
    <2>3. WriteBlockFails => tx'.pc = "rollback" /\ tx'.old = tx.old
      BY <2>1 DEF PlaceInv
    <2> QED BY <2>1, <2>2, <2>3
  <1>5. /\ Roll(len) => closedDirty' = AfterClosing
        /\ ~Roll(len) => closedDirty' = closedDirty /\ (~writing' => ~writing)
    BY DEF WriteBlock, WriteBlockFails
  <1>6. \/ page' = page /\ cursor' = at /\ writing' = FALSE /\ WriteBlockFails
        \/ \E n \in 0..len : \E data :
              /\ page' = WithFile(page, at.file, WriteAt(Content(page, at.file), at.off, data))
              /\ Len(data) = n
              /\ cursor' = [at EXCEPT !.off = at.off + n]
              /\ writing' = TRUE
    <2>1. CASE WriteBlock
      <3>1. Len(Record(b)) = len
        BY <1>1 DEF Record
      <3>2. len \in 0..len
        BY <1>1
      <3> QED BY <2>1, <3>1, <3>2 DEF WriteBlock
    <2>2. CASE WriteBlockFails
      <3>1. ASSUME NEW n \in 0..(len - 1)
            PROVE  n \in 0..len /\ Len(SubSeq(Record(b), 1, n)) = n
        BY <1>1, <3>1 DEF Record
      <3> QED BY <2>2, <3>1 DEF WriteBlockFails
    <2> QED BY <2>1, <2>2
  <1> HIDE DEF at, len, b
  <1>7. CASE page' = page /\ cursor' = at /\ writing' = FALSE /\ WriteBlockFails
    <2>1. at.off + 0 <= MaxFileSize
      BY <1>1, <1>2, <1>3, LengthsAssumption DEF Position
    <2> QED BY <1>2, <1>3, <1>4, <1>5, <1>7, <2>1
  <1>8. ASSUME NEW n \in 0..len, NEW data,
               page' = WithFile(page, at.file, WriteAt(Content(page, at.file), at.off, data)),
               Len(data) = n, cursor' = [at EXCEPT !.off = at.off + n], writing' = TRUE
        PROVE  /\ n \in Nat /\ at.off + n <= MaxFileSize
               /\ Written(page, page', at, n)
               /\ cursor' = [file |-> at.file, off |-> at.off + n]
    <2>1. n \in Nat
      BY <1>1
    <2>2. at.off + n <= MaxFileSize
      BY <1>1, <1>2, <1>3, <2>1, LengthsAssumption DEF Position
    <2>3. cursor' = [file |-> at.file, off |-> at.off + n]
      BY <1>2, <1>8 DEF Position
    <2>4. FilesOK(page) /\ Len(data) \in Nat
      BY <1>8, <2>1 DEF CursorInv
    <2>5. Written(page, page', at, Len(data))
      BY <1>2, <1>8, <2>4, WriteFacts
    <2> QED BY <1>8, <2>1, <2>2, <2>3, <2>5
  <1> QED BY <1>2, <1>3, <1>4, <1>5, <1>6, <1>7, <1>8

\* What handleRollback does, wherever it fails: files above the position are
\* deleted, its file is left, created or cut, and only a cut file is synced.
LEMMA RollbackShape ==
    ASSUME NEW from, NEW to \in Position, FilesOK(page), FilesOK(disk), CleanInv,
           handleRollback(from, to),
           writing => from = cursor /\ cursor \in Position /\ ~After(to, cursor)
    PROVE  /\ cursor' = to
           /\ DOMAIN page' \subseteq DOMAIN page \cup {to.file}
           /\ \A f \in DOMAIN page : f <= to.file => f \in DOMAIN page'
           /\ \A f \in DOMAIN page' : f # to.file => page'[f] = page[f]
           /\ to.file \in DOMAIN page' =>
                 page'[to.file] = Content(page, to.file) \/ Len(page'[to.file]) = to.off
           /\ \/ disk' = disk /\ \A f \in closedDirty : f <= to.file => f \in closedDirty'
              \/ /\ DOMAIN disk' = DOMAIN disk \cup {to.file} /\ to.file \in DOMAIN page'
                 /\ disk'[to.file] = page'[to.file] /\ Len(disk'[to.file]) = to.off
                 /\ \A f \in DOMAIN disk : f # to.file => disk'[f] = disk[f]
                 /\ \A f \in closedDirty : f < to.file => f \in closedDirty'
           /\ closedDirty' \subseteq DOMAIN page'
           /\ \A f \in DOMAIN page' : Dirty(f)' => f \in closedDirty' \/ (writing' /\ f = to.file)
  <1>1. to.file \in Nat /\ to.off \in Nat /\ DOMAIN page \subseteq Nat /\ cursor' = to
    BY DEF Position, FilesOK, handleRollback
  <1>2. CASE from = to /\ UNCHANGED <<page, disk, writing, closedDirty>>
    BY <1>1, <1>2 DEF CleanInv, Dirty, Content
  <1>3. CASE DeleteFails(from, to)
    <2>1. PICK n \in (to.file + 1)..from.file :
             /\ page' = WithoutFiles(page, (n + 1)..from.file) /\ disk' = disk
             /\ writing' = FALSE /\ closedDirty' = AfterClosing \ ((n + 1)..from.file)
      BY <1>3 DEF DeleteFails
    <2> DEFINE F == (n + 1)..from.file
    <2>2. \A f \in F : f \in Int /\ f > to.file
      BY <1>1, <2>1
    <2>3. page' = WithoutFiles(page, F) /\ closedDirty' = AfterClosing \ F
      BY <2>1
    <2> HIDE DEF F
    <2>4. DOMAIN page' = DOMAIN page \ F /\ \A f \in DOMAIN page' : page'[f] = page[f]
      BY <2>3 DEF WithoutFiles
    <2>5. \A f \in closedDirty : f <= to.file => f \in closedDirty'
      BY <1>1, <2>2, <2>3 DEF AfterClosing, CleanInv
    <2>6. closedDirty' \subseteq DOMAIN page'
      BY <2>3, <2>4 DEF AfterClosing, CleanInv, Dirty
    <2>7. \A f \in DOMAIN page' : Dirty(f)' => Dirty(f)
      BY <2>1, <2>4 DEF Dirty
    <2>8. \A f \in DOMAIN page' : Dirty(f)' => f \in closedDirty'
      BY <2>3, <2>4, <2>7 DEF AfterClosing, CleanInv
    <2>9. \A f \in DOMAIN page : f <= to.file => f \in DOMAIN page'
      BY <1>1, <2>2, <2>4
    <2>10. to.file \in DOMAIN page' => page'[to.file] = Content(page, to.file)
      BY <2>4 DEF Content
    <2> QED BY <1>1, <2>1, <2>4, <2>5, <2>6, <2>8, <2>9, <2>10
  <1>4. CASE TruncateWriteFile(from, to)
    <2> DEFINE above == (to.file + 1)..from.file
               cut == TruncateTo(Content(page, to.file), to.off)
               dirty == (IF above = {} THEN closedDirty ELSE AfterClosing) \ above
    <2>1. \A f \in above : f \in Int /\ f > to.file
      BY <1>1
    <2>2. \/ /\ page' = WithoutFiles(page, above) /\ disk' = disk /\ closedDirty' = dirty
             /\ writing' = FALSE /\ (~writing \/ above # {})
          \/ /\ \/ page' = WithFile(WithoutFiles(page, above), to.file, Content(page, to.file))
                \/ page' = WithFile(WithoutFiles(page, above), to.file, cut)
             /\ writing' = TRUE /\ closedDirty' = dirty /\ disk' = disk
          \/ /\ page' = WithFile(WithoutFiles(page, above), to.file, cut)
             /\ disk' = WithFile(disk, to.file, cut)
             /\ writing' = TRUE /\ closedDirty' = dirty \ {to.file}
      BY <1>4 DEF TruncateWriteFile
    <2>3. writing /\ above = {} => cursor.file = to.file
      BY <1>1 DEF After, Position
    <2>4. Len(cut) = to.off
      BY <1>1 DEF TruncateTo
    <2> HIDE DEF above, cut
    <2>5. dirty \subseteq DOMAIN page \ above
      BY DEF CleanInv, AfterClosing, Dirty
    <2>6. \A f \in closedDirty : f <= to.file => f \in dirty
      BY <1>1, <2>1 DEF AfterClosing, CleanInv
    <2>7. \A f \in DOMAIN page \ above : Dirty(f) =>
             f \in dirty \/ (writing /\ f = to.file /\ above = {})
      BY <2>3 DEF CleanInv, AfterClosing
    <2> HIDE DEF dirty
    <2>8. CASE /\ page' = WithoutFiles(page, above) /\ disk' = disk /\ closedDirty' = dirty
               /\ writing' = FALSE /\ (~writing \/ above # {})
      <3>1. DOMAIN page' = DOMAIN page \ above /\ \A f \in DOMAIN page' : page'[f] = page[f]
        BY <2>8 DEF WithoutFiles
      <3>2. \A f \in DOMAIN page' : Dirty(f)' => Dirty(f)
        BY <2>8, <3>1 DEF Dirty
      <3>3. \A f \in DOMAIN page' : Dirty(f)' => f \in closedDirty'
        BY <2>7, <2>8, <3>1, <3>2
      <3>4. \A f \in DOMAIN page : f <= to.file => f \in DOMAIN page'
        BY <1>1, <2>1, <3>1
      <3>5. to.file \in DOMAIN page' => page'[to.file] = Content(page, to.file)
        BY <3>1 DEF Content
      <3> QED BY <1>1, <2>5, <2>6, <2>8, <3>1, <3>3, <3>4, <3>5
    <2>9. ASSUME NEW s, page' = WithFile(WithoutFiles(page, above), to.file, s), writing' = TRUE,
                 s = Content(page, to.file) \/ Len(s) = to.off,
                 \/ disk' = disk /\ closedDirty' = dirty
                 \/ /\ disk' = WithFile(disk, to.file, s) /\ Len(s) = to.off
                    /\ closedDirty' = dirty \ {to.file}
          PROVE  /\ DOMAIN page' \subseteq DOMAIN page \cup {to.file}
                 /\ \A f \in DOMAIN page : f <= to.file => f \in DOMAIN page'
                 /\ \A f \in DOMAIN page' : f # to.file => page'[f] = page[f]
                 /\ page'[to.file] = Content(page, to.file) \/ Len(page'[to.file]) = to.off
                 /\ \/ disk' = disk /\ \A f \in closedDirty : f <= to.file => f \in closedDirty'
                    \/ /\ DOMAIN disk' = DOMAIN disk \cup {to.file} /\ to.file \in DOMAIN page'
                       /\ disk'[to.file] = page'[to.file] /\ Len(disk'[to.file]) = to.off
                       /\ \A f \in DOMAIN disk : f # to.file => disk'[f] = disk[f]
                       /\ \A f \in closedDirty : f < to.file => f \in closedDirty'
                 /\ closedDirty' \subseteq DOMAIN page'
                 /\ \A f \in DOMAIN page' : Dirty(f)' => f \in closedDirty' \/ (writing' /\ f = to.file)
      <3>1. /\ DOMAIN page' = (DOMAIN page \ above) \cup {to.file} /\ page'[to.file] = s
            /\ \A f \in DOMAIN page' : f # to.file => page'[f] = page[f]
        BY <2>9 DEF WithFile, WithoutFiles
      <3>2. \/ disk' = disk
            \/ /\ DOMAIN disk' = DOMAIN disk \cup {to.file} /\ disk'[to.file] = s
               /\ \A f \in DOMAIN disk : f # to.file => disk'[f] = disk[f]
        BY <2>9 DEF WithFile
      <3>3. \A f \in DOMAIN page' : f # to.file /\ Dirty(f)' => Dirty(f)
        BY <3>1, <3>2 DEF Dirty
      <3>4. \A f \in dirty : f # to.file => f \in closedDirty'
        BY <2>9
      <3>5. \A f \in DOMAIN page' : Dirty(f)' => f \in closedDirty' \/ (writing' /\ f = to.file)
        BY <2>7, <2>9, <3>1, <3>3, <3>4
      <3>6. closedDirty' \subseteq DOMAIN page'
        BY <2>5, <2>9, <3>1
      <3>7. \A f \in DOMAIN page : f <= to.file => f \in DOMAIN page'
        BY <1>1, <2>1, <3>1
      <3>8. \A f \in closedDirty : f < to.file => f \in closedDirty'
        BY <1>1, <2>6, <3>4 DEF CleanInv
      <3>9. CASE disk' = disk /\ closedDirty' = dirty
        BY <2>6, <2>9, <3>1, <3>5, <3>6, <3>7, <3>9
      <3>10. CASE /\ disk' = WithFile(disk, to.file, s) /\ Len(s) = to.off
                  /\ closedDirty' = dirty \ {to.file}
        <4>1. /\ DOMAIN disk' = DOMAIN disk \cup {to.file} /\ disk'[to.file] = s
              /\ \A f \in DOMAIN disk : f # to.file => disk'[f] = disk[f]
          BY <3>10 DEF WithFile
        <4> QED BY <2>9, <3>1, <3>5, <3>6, <3>7, <3>8, <3>10, <4>1
      <3> QED BY <2>9, <3>9, <3>10
    <2> QED BY <1>1, <2>2, <2>4, <2>8, <2>9
  <1> QED BY <1>2, <1>3, <1>4 DEF handleRollback

\* A loss of power mixes what was shown with what was on disk.
LEMMA SurvivorLengths ==
    ASSUME FilesOK(page), FilesOK(disk), NEW F \in SUBSET (DOMAIN page \cup DOMAIN disk),
           NEW files \in Survivors(F)
    PROVE  /\ DOMAIN files = F
           /\ \A f \in F :
                 \/ f \notin DOMAIN page /\ f \in DOMAIN disk /\ files[f] = disk[f]
                 \/ /\ f \in DOMAIN page /\ Len(files[f]) \in Nat
                    /\ Len(files[f]) <= Len(page[f]) \/ Len(files[f]) <= Len(Content(disk, f))
                    /\ Len(files[f]) >= Len(page[f]) \/ Len(files[f]) >= Len(Content(disk, f))
  <1>1. DOMAIN files = F
    BY DEF Survivors
  <1>2. ASSUME NEW f \in F, f \notin DOMAIN page
        PROVE  f \in DOMAIN disk /\ files[f] = disk[f]
    BY <1>2 DEF Survivors
  <1>3. ASSUME NEW f \in F, f \in DOMAIN page
        PROVE  /\ Len(files[f]) \in Nat
               /\ Len(files[f]) <= Len(page[f]) \/ Len(files[f]) <= Len(Content(disk, f))
               /\ Len(files[f]) >= Len(page[f]) \/ Len(files[f]) >= Len(Content(disk, f))
    <2> DEFINE s == page[f]
               t == Content(disk, f)
    <2>1. files[f] \in Mixed(s, t)
      BY <1>3 DEF Survivors
    <2>2. Len(s) \in Nat /\ Len(t) \in Nat
      BY <1>3 DEF FilesOK, Content
    <2> HIDE DEF s, t
    <2>3. \E n \in (IF Len(s) < Len(t) THEN Len(s) ELSE Len(t))..
                   (IF Len(s) < Len(t) THEN Len(t) ELSE Len(s)) :
             DOMAIN files[f] = 1..n /\ files[f] = [i \in 1..n |-> files[f][i]]
      BY <2>1, <2>2 DEF Mixed
    <2>4. PICK n \in (IF Len(s) < Len(t) THEN Len(s) ELSE Len(t))..
                     (IF Len(s) < Len(t) THEN Len(t) ELSE Len(s)) :
             DOMAIN files[f] = 1..n /\ files[f] = [i \in 1..n |-> files[f][i]]
      BY <2>3
    <2>5. /\ n \in Nat
          /\ n <= Len(s) \/ n <= Len(t)
          /\ n >= Len(s) \/ n >= Len(t)
      BY <2>2, <2>4
    <2>6. Len(files[f]) = n
      BY <2>4, <2>5
    <2> QED BY <2>5, <2>6 DEF s, t
  <1> QED BY <1>1, <1>2, <1>3

\* The steps after which another write position is read from the metadata.
LEMMA LocSteps ==
    ASSUME StoreInv, [Next]_vars
    PROVE  \/ UNCHANGED <<ldb, Loc>>
           \/ CommitToCache /\ ldb' = ldb /\ Loc' = cursor /\ tx.pc = "cache" /\ status = "up"
           \/ StoreCache /\ ldb'[WriteLoc] = Loc /\ Loc' = Loc /\ tx.pc = "store"
           \/ StoreTx /\ ldb'[WriteLoc] = cursor /\ Loc' = cursor /\ tx.pc = "direct"
                 /\ status = "up"
           \/ MemoryGone /\ ldb' = ldb /\ Loc' = ldb[WriteLoc]
  <1> USE DEF StoreInv
  <1>1. CASE CommitToCache
    <2>1. /\ cached' = Merged(cached, tx) /\ ldb' = ldb /\ tx.pc = "cache" /\ status = "up"
          /\ WriteLoc \in DOMAIN tx.keys /\ tx.keys[WriteLoc] = cursor
      BY <1>1 DEF CommitToCache, PlaceInv
    <2>2. Loc' = cursor
      BY <2>1 DEF Loc, Merged, Overlay, PlaceInv
    <2> QED BY <1>1, <2>1, <2>2
  <1>2. CASE StoreCache
    <2>1. ldb' = Overlay(ldb, cached) /\ cached' = cached /\ tx.pc = "store"
      BY <1>2 DEF StoreCache
    <2>2. ldb'[WriteLoc] = Loc /\ Loc' = Loc
      BY <2>1 DEF Loc, Overlay, CursorInv
    <2> QED BY <1>2, <2>1, <2>2
  <1>3. CASE ClearCache
    <2>1. cached' = NoUpdate /\ ldb' = ldb /\ Overlay(ldb, cached) = ldb
      BY <1>3 DEF ClearCache, FlushInv
    <2>2. Loc' = ldb[WriteLoc]
      BY <2>1 DEF Loc, NoUpdate, NoKeys
    <2>3. Loc = ldb[WriteLoc]
      <3>1. WriteLoc \in DOMAIN cached.keys => Overlay(ldb, cached)[WriteLoc] = cached.keys[WriteLoc]
        BY DEF Overlay, CursorInv
      <3> QED BY <2>1, <3>1 DEF Loc
    <2> QED BY <2>1, <2>2, <2>3
  <1>4. CASE StoreTx
    <2>1. /\ ldb' = Overlay(ldb, tx) /\ cached' = cached /\ tx.pc = "direct" /\ status = "up"
          /\ cached = NoUpdate /\ WriteLoc \in DOMAIN tx.keys /\ tx.keys[WriteLoc] = cursor
      BY <1>4 DEF StoreTx, PlaceInv, FlushInv
    <2>2. ldb'[WriteLoc] = cursor
      BY <2>1 DEF Overlay, PlaceInv
    <2>3. Loc' = cursor
      BY <2>1, <2>2 DEF Loc, NoUpdate, NoKeys
    <2> QED BY <1>4, <2>1, <2>2, <2>3
  <1>5. CASE CloseFiles \/ Kill \/ PowerLoss
    <2>1. MemoryGone /\ ldb' = ldb
      BY <1>5 DEF CloseFiles, Kill, PowerLoss
    <2>2. Loc' = ldb[WriteLoc]
      BY <2>1 DEF MemoryGone, Loc, NoUpdate, NoKeys
    <2> QED BY <2>1, <2>2
  <1>6. CASE UNCHANGED vars \/ (Next /\ ~(\/ CommitToCache \/ StoreCache \/ ClearCache \/ StoreTx
                                         \/ CloseFiles \/ Kill \/ PowerLoss))
    <2>1. UNCHANGED <<ldb, cached>>
      BY <1>6 DEF Next, Proceed, Begin, Rollback, Commit, Delete, Put, StoreBlock, WriteBlock,
                  RollbackFiles, StoreWriteRow, SyncBlocks, WriteBlockFails, SyncFails,
                  LdbFails, Close, Open, OpenCorrupt, SnapshotLdb, SnapshotCache, CloseReader,
                  meta, vars
    <2> QED BY <2>1 DEF Loc
  <1> QED BY <1>1, <1>2, <1>3, <1>4, <1>5, <1>6

\* The transaction goes back to where the cursor was when Commit was called.
LEMMA OldSteps ==
    ASSUME StoreInv, [Next]_vars
    PROVE  \/ tx'.old = tx.old
              /\ (tx'.pc \in {"blocks", "rollback"} => tx.pc \in {"blocks", "rollback"})
           \/ Commit /\ tx'.old = cursor /\ UNCHANGED store /\ tx.pc = "open"
           \/ tx'.old = [file |-> 0, off |-> 0] /\ tx'.pc \notin {"blocks", "rollback"}
  <1> USE DEF StoreInv
  <1>1. CASE UNCHANGED vars
    BY <1>1 DEF vars
  <1>2. CASE Begin \/ Rollback \/ RollbackFiles \/ CommitToCache \/ StoreTx \/ Close
    BY <1>2 DEF Begin, Rollback, RollbackFiles, CommitToCache, StoreTx, Close, IdleTx
  <1>3. CASE Commit
    BY <1>3 DEF Commit, PlaceInv
  <1>4. CASE \/ \E k \in UserKeys : Delete(k) \/ \E v \in Values : Put(k, v)
             \/ \E b \in Blocks : StoreBlock(b)
    BY <1>4, PutFields, DeleteFields DEF Delete, Put, StoreBlock, PlaceInv
  <1>5. CASE WriteBlock \/ StoreWriteRow
    BY <1>5, PutFields DEF WriteBlock, StoreWriteRow, PlaceInv
  <1>6. CASE SyncBlocks \/ StoreCache \/ ClearCache \/ WriteBlockFails
    BY <1>6 DEF SyncBlocks, StoreCache, ClearCache, WriteBlockFails, Flushed, PlaceInv
  <1>7. CASE SyncFails \/ LdbFails
    <2>1. tx' = IdleTx \/ tx' = [tx EXCEPT !.pc = "closeFiles"]
      BY <1>7 DEF SyncFails, LdbFails, Failed
    <2> QED BY <2>1 DEF IdleTx, PlaceInv
  <1>8. CASE CloseFiles \/ Kill \/ PowerLoss
    BY <1>8 DEF CloseFiles, Kill, PowerLoss, MemoryGone, IdleTx
  <1>9. CASE \/ Open \/ OpenCorrupt
             \/ \E r \in Readers : SnapshotLdb(r) \/ SnapshotCache(r) \/ CloseReader(r)
    BY <1>9 DEF Open, OpenCorrupt, SnapshotLdb, SnapshotCache, CloseReader
  <1> QED BY <1>1, <1>2, <1>3, <1>4, <1>5, <1>6, <1>7, <1>8, <1>9 DEF Next, Proceed

\* Both ways to go back: after a failing write, and when the database is opened.
LEMMA RollbackCases ==
    ASSUME StoreInv, RollbackFiles \/ Open
    PROVE  \E to \in Position : \E from :
             /\ handleRollback(from, to)
             /\ writing => from = cursor /\ cursor \in Position /\ ~After(to, cursor)
             /\ ~After(ldb[WriteLoc], to) /\ ~After(Loc, to)
             /\ UNCHANGED <<ldb, cached, lost, lossy, Loc>>
             /\ tx'.pc = "idle" /\ status' = "up"
             /\ \/ to = tx.old /\ tx.pc = "rollback"
                \/ to = ldb[WriteLoc] /\ status = "down"
  <1> USE DEF StoreInv
  <1>1. CASE RollbackFiles
    <2>1. /\ tx.pc = "rollback" /\ handleRollback(cursor, tx.old) /\ tx' = IdleTx
          /\ UNCHANGED <<ldb, cached, lost, lossy, status>>
      BY <1>1 DEF RollbackFiles, meta, ghost
    <2>2. /\ tx.old \in Position /\ cursor \in Position /\ status = "up"
          /\ ~After(tx.old, cursor) /\ ~After(Loc, tx.old) /\ ~After(ldb[WriteLoc], Loc)
          /\ ldb[WriteLoc] \in Position /\ Loc \in Position
      BY <2>1 DEF PlaceInv, CursorInv
    <2>3. ~After(ldb[WriteLoc], tx.old)
      BY <2>2 DEF After, Position
    <2>4. Loc' = Loc
      BY <2>1 DEF Loc
    <2> QED BY <2>1, <2>2, <2>3, <2>4, IdleFields
  <1>2. CASE Open
    <2>1. /\ status = "down" /\ handleRollback(Scanned, ldb[WriteLoc]) /\ status' = "up"
          /\ UNCHANGED <<ldb, cached, lost, lossy, tx>>
      BY <1>2 DEF Open, meta, ghost
    <2>2. ~writing /\ tx.pc = "idle" /\ cached = NoUpdate /\ ldb[WriteLoc] \in Position
      BY <2>1 DEF OpenFileInv, PlaceInv, CursorInv
    <2>3. Loc = ldb[WriteLoc] /\ Loc' = Loc
      BY <2>1, <2>2 DEF Loc, NoUpdate, NoKeys
    <2>4. ~After(ldb[WriteLoc], ldb[WriteLoc])
      BY <2>2 DEF After, Position
    <2>5. /\ ~After(Loc, ldb[WriteLoc]) /\ tx'.pc = "idle"
      BY <2>1, <2>2, <2>3, <2>4
    <2> QED BY <2>1, <2>2, <2>3, <2>4, <2>5
  <1> QED BY <1>1, <1>2

\* Every step keeps CleanInv,
LEMMA CleanInvStep ==
    ASSUME StoreInv, CleanInv, [Next]_vars
    PROVE  CleanInv'
  <1> USE DEF StoreInv
  <1>1. CASE WriteBlock \/ WriteBlockFails
    <2>1. PICK at \in Position, n \in Nat :
             /\ \/ at = cursor /\ closedDirty' = closedDirty /\ (~writing' => ~writing)
                \/ at.file = cursor.file + 1 /\ closedDirty' = AfterClosing
             /\ \/ page' = page /\ cursor' = at /\ writing' = FALSE
                \/ /\ Written(page, page', at, n)
                   /\ cursor' = [file |-> at.file, off |-> at.off + n]
                   /\ writing' = TRUE
             /\ disk' = disk /\ tx'.pc \in {"blocks", "rollback"}
      BY <1>1, WriteShape
    <2>2. /\ DOMAIN page \subseteq DOMAIN page'
          /\ \A f \in DOMAIN page' : f # at.file => f \in DOMAIN page /\ page'[f] = page[f]
      BY <2>1 DEF Written
    <2>3. closedDirty' \subseteq DOMAIN page'
      BY <2>1, <2>2 DEF CleanInv, AfterClosing, Dirty
    <2>4. \A f \in DOMAIN page' : Dirty(f)' /\ f # at.file => Dirty(f)
      BY <2>1, <2>2 DEF Dirty
    <2>5. cursor'.file = at.file
      BY <2>1
    <2>6. ASSUME NEW f \in DOMAIN page', Dirty(f)'
          PROVE  f \in closedDirty' \/ (writing' /\ f = cursor'.file)
      <3>1. CASE page' = page /\ writing' = FALSE
        <4>1. Dirty(f)
          BY <2>1, <2>6, <3>1 DEF Dirty
        <4>2. f \in closedDirty \/ (writing /\ f = cursor.file)
          BY <3>1, <4>1 DEF CleanInv
        <4> QED BY <2>1, <3>1, <4>1, <4>2 DEF AfterClosing
      <3>2. CASE writing' = TRUE /\ f = at.file
        BY <2>5, <3>2
      <3>3. CASE writing' = TRUE /\ f # at.file
        <4>1. Dirty(f) /\ f \in DOMAIN page
          BY <2>2, <2>4, <2>6, <3>3
        <4>2. f \in closedDirty \/ (writing /\ f = cursor.file)
          BY <4>1 DEF CleanInv
        <4> QED BY <2>1, <3>3, <4>1, <4>2 DEF AfterClosing
      <3> QED BY <2>1, <3>1, <3>2, <3>3
    <2> QED BY <2>1, <2>3, <2>6 DEF CleanInv
  <1>2. CASE RollbackFiles \/ Open
    <2>0. PICK to \in Position : \E from :
             /\ handleRollback(from, to)
             /\ writing => from = cursor /\ cursor \in Position /\ ~After(to, cursor)
             /\ tx'.pc = "idle"
      BY <1>2, RollbackCases
    <2>1. PICK from :
             /\ handleRollback(from, to)
             /\ writing => from = cursor /\ cursor \in Position /\ ~After(to, cursor)
             /\ tx'.pc = "idle"
      BY <2>0
    <2>2. /\ cursor' = to /\ closedDirty' \subseteq DOMAIN page'
          /\ \A f \in DOMAIN page' : Dirty(f)' => f \in closedDirty' \/ (writing' /\ f = to.file)
      BY <2>1, RollbackShape DEF CursorInv
    <2> QED BY <2>1, <2>2 DEF CleanInv
  <1>3. CASE SyncBlocks
    <2>1. /\ page' = page /\ cursor' = cursor /\ writing' = writing
          /\ disk' = [f \in DOMAIN disk \cup SyncedFile |->
                         IF f \in SyncedFile THEN page[f] ELSE disk[f]]
          /\ closedDirty' = closedDirty \ SyncedFile
      BY <1>3 DEF SyncBlocks
    <2>2. \A f \in DOMAIN page : Dirty(f)' => Dirty(f) /\ f \notin SyncedFile
      BY <2>1 DEF Dirty
    <2>3. \A f \in DOMAIN page : Dirty(f)' => f \in closedDirty'
      BY <2>1, <2>2 DEF CleanInv, SyncedFile
    <2> QED BY <2>1, <2>3 DEF CleanInv
  <1>4. CASE CloseFiles \/ Kill
    <2>1. MemoryGone /\ closedDirty' = AfterClosing /\ UNCHANGED <<page, disk>>
      BY <1>4 DEF CloseFiles, Kill
    <2>2. tx'.pc = "idle"
      BY <2>1, IdleFields DEF MemoryGone
    <2>3. \A f \in DOMAIN page : Dirty(f)' => f \in AfterClosing
      BY <2>1 DEF Dirty, CleanInv, AfterClosing
    <2>4. AfterClosing \subseteq DOMAIN page
      BY DEF AfterClosing, CleanInv, Dirty
    <2> QED BY <2>1, <2>2, <2>3, <2>4 DEF CleanInv
  <1>5. CASE PowerLoss
    BY <1>5 DEF PowerLoss, CleanInv, Dirty
  <1>6. CASE /\ UNCHANGED <<page, disk, cursor, writing, closedDirty>>
             /\ tx'.pc \in {"store", "clear", "direct"} => tx.pc \in {"store", "clear", "direct"}
    <2>1. \A f : Dirty(f)' <=> Dirty(f)
      BY <1>6 DEF Dirty
    <2> QED BY <1>6, <2>1 DEF CleanInv
  <1> QED BY <1>1, <1>2, <1>3, <1>4, <1>5, <1>6, FileSteps

\* BoundInv,
LEMMA BoundInvStep ==
    ASSUME StoreInv, CleanInv, BoundInv, [Next]_vars
    PROVE  BoundInv'
  <1> USE DEF StoreInv
  <1>1. PICK n \in Nat : \A f \in DOMAIN page \cup DOMAIN disk : f <= n
    BY DEF BoundInv
  <1>2. DOMAIN page \subseteq Nat /\ DOMAIN disk \subseteq Nat
    BY DEF CursorInv, FilesOK
  <1>3. ASSUME NEW g \in Nat, DOMAIN page' \cup DOMAIN disk' \subseteq DOMAIN page \cup DOMAIN disk \cup {g}
        PROVE  BoundInv'
    <2>1. n + g \in Nat /\ \A f \in DOMAIN page' \cup DOMAIN disk' : f <= n + g
      BY <1>1, <1>2, <1>3
    <2> QED BY <2>1 DEF BoundInv
  <1>4. CASE WriteBlock \/ WriteBlockFails
    <2>1. PICK at \in Position, m \in Nat :
             disk' = disk /\ (page' = page \/ Written(page, page', at, m))
      BY <1>4, WriteShape
    <2>2. at.file \in Nat
      BY DEF Position
    <2> QED BY <1>3, <2>1, <2>2 DEF Written
  <1>5. CASE RollbackFiles \/ Open
    <2>0. PICK to \in Position : \E from :
             /\ handleRollback(from, to)
             /\ writing => from = cursor /\ cursor \in Position /\ ~After(to, cursor)
      BY <1>5, RollbackCases
    <2>1. PICK from :
             /\ handleRollback(from, to)
             /\ writing => from = cursor /\ cursor \in Position /\ ~After(to, cursor)
      BY <2>0
    <2>2. /\ DOMAIN page' \subseteq DOMAIN page \cup {to.file}
          /\ disk' = disk \/ DOMAIN disk' = DOMAIN disk \cup {to.file}
      BY <2>1, RollbackShape DEF CursorInv
    <2>3. to.file \in Nat
      BY DEF Position
    <2> QED BY <1>3, <2>2, <2>3
  <1>6. CASE SyncBlocks
    <2>1. DOMAIN page' = DOMAIN page /\ DOMAIN disk' = DOMAIN disk \cup SyncedFile
      BY <1>6 DEF SyncBlocks
    <2>2. SyncedFile \subseteq {cursor.file} /\ cursor.file \in Nat
      BY DEF SyncedFile, CursorInv, Position
    <2> QED BY <1>3, <2>1, <2>2
  <1>7. CASE PowerLoss
    <2>1. PICK F \in SUBSET (DOMAIN page \cup DOMAIN disk) : page' \in Survivors(F)
      BY <1>7 DEF PowerLoss
    <2>2. DOMAIN page' = F /\ disk' = page'
      BY <1>7, <2>1 DEF PowerLoss, Survivors
    <2> QED BY <1>3, <2>1, <2>2
  <1>8. CASE UNCHANGED <<page, disk>>
    BY <1>8 DEF BoundInv
  <1>9. CASE CloseFiles \/ Kill
    BY <1>8, <1>9 DEF CloseFiles, Kill
  <1> QED BY <1>4, <1>5, <1>6, <1>7, <1>8, <1>9, FileSteps

\* and LimitInv.
LEMMA LimitInvStep ==
    ASSUME StoreInv, CleanInv, LimitInv, [Next]_vars
    PROVE  LimitInv'
  <1> USE DEF StoreInv
  <1> DEFINE Short(files) == \A f \in DOMAIN files : Len(files[f]) <= MaxFileSize
  <1>1. MaxFileSize \in Nat /\ 0 <= MaxFileSize
    BY LengthsAssumption
  <1>2. Short(page) /\ Short(disk)
    BY DEF LimitInv
  <1>3. \A f \in Nat : Len(Content(page, f)) <= MaxFileSize /\ Len(Content(disk, f)) <= MaxFileSize
    BY <1>1, <1>2 DEF Content
  <1>4. ldb'[WriteLoc].off <= MaxFileSize /\ Loc'.off <= MaxFileSize
    <2>1. /\ ldb'[WriteLoc] \in {ldb[WriteLoc], Loc, cursor}
          /\ Loc' \in {ldb[WriteLoc], Loc, cursor}
      BY LocSteps
    <2> QED BY <2>1 DEF LimitInv
  <1>5. tx'.old.off <= MaxFileSize
    <2>1. tx'.old \in {tx.old, cursor, [file |-> 0, off |-> 0]}
      BY OldSteps
    <2> QED BY <1>1, <2>1 DEF LimitInv
  <1>6. ASSUME Short(page'), Short(disk'), cursor'.off <= MaxFileSize
        PROVE  LimitInv'
    BY <1>4, <1>5, <1>6 DEF LimitInv
  <1>7. CASE WriteBlock \/ WriteBlockFails
    <2>1. PICK at \in Position, n \in Nat :
             /\ at.off + n <= MaxFileSize /\ disk' = disk
             /\ \/ page' = page /\ cursor' = at
                \/ /\ Written(page, page', at, n)
                   /\ cursor' = [file |-> at.file, off |-> at.off + n]
      BY <1>7, WriteShape
    <2>2. at.file \in Nat /\ at.off \in Nat /\ at.off <= MaxFileSize
      BY <1>1, <2>1 DEF Position
    <2>3. cursor'.off <= MaxFileSize
      BY <2>1, <2>2
    <2>4. Short(page')
      <3>1. CASE Written(page, page', at, n)
        <4>1. Len(page'[at.file]) <= MaxFileSize
          BY <1>3, <2>1, <2>2, <3>1 DEF Written
        <4> QED BY <1>2, <3>1, <4>1 DEF Written
      <3> QED BY <1>2, <2>1, <3>1
    <2> QED BY <1>2, <1>6, <2>1, <2>3, <2>4
  <1>8. CASE RollbackFiles \/ Open
    <2>0. PICK to \in Position : \E from :
             /\ handleRollback(from, to)
             /\ writing => from = cursor /\ cursor \in Position /\ ~After(to, cursor)
             /\ to = tx.old \/ to = ldb[WriteLoc]
      BY <1>8, RollbackCases
    <2>1. PICK from :
             /\ handleRollback(from, to)
             /\ writing => from = cursor /\ cursor \in Position /\ ~After(to, cursor)
             /\ to = tx.old \/ to = ldb[WriteLoc]
      BY <2>0
    <2>2. to.off \in Nat /\ to.file \in Nat /\ to.off <= MaxFileSize
      BY <2>1 DEF LimitInv, Position
    <2>3. /\ cursor' = to
          /\ DOMAIN page' \subseteq DOMAIN page \cup {to.file}
          /\ \A f \in DOMAIN page' : f # to.file => page'[f] = page[f]
          /\ to.file \in DOMAIN page' =>
                page'[to.file] = Content(page, to.file) \/ Len(page'[to.file]) = to.off
          /\ \/ disk' = disk
             \/ /\ DOMAIN disk' = DOMAIN disk \cup {to.file}
                /\ Len(disk'[to.file]) = to.off
                /\ \A f \in DOMAIN disk : f # to.file => disk'[f] = disk[f]
      BY <2>1, RollbackShape DEF CursorInv
    <2>4. Short(page')
      BY <1>2, <1>3, <2>2, <2>3
    <2>5. Short(disk')
      BY <1>2, <1>3, <2>2, <2>3
    <2> QED BY <1>6, <2>2, <2>3, <2>4, <2>5
  <1>9. CASE SyncBlocks
    <2>1. /\ page' = page /\ cursor' = cursor
          /\ disk' = [f \in DOMAIN disk \cup SyncedFile |->
                         IF f \in SyncedFile THEN page[f] ELSE disk[f]]
      BY <1>9 DEF SyncBlocks
    <2>2. SyncedFile \subseteq DOMAIN page
      BY DEF SyncedFile, OpenFileInv
    <2>3. Short(disk')
      BY <1>2, <2>1, <2>2
    <2> QED BY <1>2, <1>6, <2>1, <2>3 DEF LimitInv
  <1>10. CASE CloseFiles \/ Kill
    <2>1. UNCHANGED <<page, disk>> /\ cursor' = [file |-> 0, off |-> 0]
      BY <1>10 DEF CloseFiles, Kill, MemoryGone
    <2> QED BY <1>1, <1>2, <1>6, <2>1
  <1>11. CASE PowerLoss
    <2>1. PICK F \in SUBSET (DOMAIN page \cup DOMAIN disk) : page' \in Survivors(F)
      BY <1>11 DEF PowerLoss
    <2>2. disk' = page' /\ cursor' = [file |-> 0, off |-> 0]
      BY <1>11 DEF PowerLoss, MemoryGone
    <2>3. ASSUME NEW f \in DOMAIN page' PROVE Len(page'[f]) <= MaxFileSize
      <3>1. /\ f \in F /\ f \in Nat
            /\ \/ f \notin DOMAIN page /\ f \in DOMAIN disk /\ page'[f] = disk[f]
               \/ /\ f \in DOMAIN page /\ Len(page'[f]) \in Nat
                  /\ Len(page'[f]) <= Len(page[f]) \/ Len(page'[f]) <= Len(Content(disk, f))
        BY <2>1, <2>3, SurvivorLengths DEF CursorInv, FilesOK
      <3>2. CASE f \notin DOMAIN page /\ f \in DOMAIN disk /\ page'[f] = disk[f]
        BY <1>2, <3>2
      <3>3. CASE /\ f \in DOMAIN page /\ Len(page'[f]) \in Nat
                 /\ Len(page'[f]) <= Len(page[f]) \/ Len(page'[f]) <= Len(Content(disk, f))
        <4>1. Len(page[f]) \in Nat /\ Len(Content(disk, f)) \in Nat
          BY <3>3 DEF CursorInv, FilesOK, Content
        <4>2. Len(page[f]) <= MaxFileSize
          BY <1>2, <3>3
        <4>3. Len(Content(disk, f)) <= MaxFileSize
          BY <1>3, <3>1
        <4>4. Len(page'[f]) \in Nat /\ (Len(page'[f]) <= Len(page[f]) \/ Len(page'[f]) <= Len(Content(disk, f)))
          BY <3>3
        <4> HIDE DEF Short
        <4> QED BY <1>1, <4>1, <4>2, <4>3, <4>4
      <3> QED BY <3>1, <3>2, <3>3
    <2> QED BY <1>1, <1>6, <2>2, <2>3
  <1>12. CASE UNCHANGED <<page, disk, cursor>>
    BY <1>2, <1>6, <1>12 DEF LimitInv
  <1> QED BY <1>7, <1>8, <1>9, <1>10, <1>11, <1>12, FileSteps

\* A row that can be read stays readable in files that have its file unchanged.
LEMMA IntactSame ==
    ASSUME NEW files, NEW new, NEW b, NEW row, Intact(files, b, row),
           row.file \in DOMAIN new, new[row.file] = files[row.file]
    PROVE  Intact(new, b, row)
  BY DEF Intact

\* Every step keeps the blocks that leveldb knows of durable.
LEMMA DurableStep ==
    ASSUME StoreInv, StoreInv', CleanInv, DurableUnlessClosed, [Next]_vars
    PROVE  DurableUnlessClosed'
  <1> SUFFICES ASSUME NEW b \in Blocks, b \in DOMAIN ldb', b \notin lost',
                      ldb'[b].file \notin closedDirty'
               PROVE  Intact(disk', b, ldb'[b])
    BY DEF DurableUnlessClosed
  <1> DEFINE row == ldb'[b]
             f == row.file
  <1>1. Intact(page', b, row) /\ row \in Location /\ Within(row, ldb'[WriteLoc])
    BY DEF StoreInv, RowInv, RowsOK
  <1>2. f \in Nat /\ f \in DOMAIN page'
    BY <1>1 DEF Location, Intact
  <1>3. ASSUME ldb' = ldb, lost' = lost, f \notin closedDirty
        PROVE  Intact(disk, b, row)
    BY <1>3 DEF DurableUnlessClosed
  <1>4. CASE WriteBlock \/ WriteBlockFails
    <2>1. /\ UNCHANGED <<ldb, lost, disk>>
          /\ closedDirty' = closedDirty \/ closedDirty' = AfterClosing
      BY <1>4, WriteShape DEF StoreInv
    <2> QED BY <1>3, <2>1 DEF AfterClosing
  <1>5. CASE RollbackFiles \/ Open
    <2>0. PICK to \in Position : \E from :
             /\ handleRollback(from, to)
             /\ writing => from = cursor /\ cursor \in Position /\ ~After(to, cursor)
             /\ ~After(ldb[WriteLoc], to) /\ UNCHANGED <<ldb, lost>>
      BY <1>5, RollbackCases
    <2>1. PICK from :
             /\ handleRollback(from, to)
             /\ writing => from = cursor /\ cursor \in Position /\ ~After(to, cursor)
             /\ ~After(ldb[WriteLoc], to) /\ UNCHANGED <<ldb, lost>>
      BY <2>0
    <2>2. \/ disk' = disk /\ \A g \in closedDirty : g <= to.file => g \in closedDirty'
          \/ /\ DOMAIN disk' = DOMAIN disk \cup {to.file} /\ to.file \in DOMAIN page'
             /\ disk'[to.file] = page'[to.file]
             /\ \A g \in DOMAIN disk : g # to.file => disk'[g] = disk[g]
             /\ \A g \in closedDirty : g < to.file => g \in closedDirty'
      BY <2>1, RollbackShape DEF StoreInv, CursorInv
    <2>3. f <= to.file /\ to.file \in Nat
      BY <1>1, <1>2, <2>1 DEF After, Within, Position, StoreInv, CursorInv
    <2>4. CASE disk' = disk /\ \A g \in closedDirty : g <= to.file => g \in closedDirty'
      BY <1>3, <2>1, <2>3, <2>4
    <2>5. CASE /\ DOMAIN disk' = DOMAIN disk \cup {to.file} /\ to.file \in DOMAIN page'
               /\ disk'[to.file] = page'[to.file]
               /\ \A g \in DOMAIN disk : g # to.file => disk'[g] = disk[g]
               /\ \A g \in closedDirty : g < to.file => g \in closedDirty'
      <3>1. CASE f = to.file
        BY <1>1, <2>5, <3>1, IntactSame
      <3>2. CASE f # to.file
        <4>1. f \notin closedDirty
          BY <1>2, <2>3, <2>5, <3>2
        <4>2. Intact(disk, b, row)
          BY <1>3, <2>1, <4>1
        <4>3. f \in DOMAIN disk' /\ disk'[f] = disk[f]
          BY <2>5, <3>2, <4>2 DEF Intact
        <4> QED BY <4>2, <4>3, IntactSame
      <3> QED BY <3>1, <3>2
    <2> QED BY <2>2, <2>4, <2>5
  <1>6. CASE SyncBlocks
    <2>1. /\ UNCHANGED <<page, ldb, lost>>
          /\ disk' = [g \in DOMAIN disk \cup SyncedFile |->
                         IF g \in SyncedFile THEN page[g] ELSE disk[g]]
          /\ closedDirty' = closedDirty \ SyncedFile
      BY <1>6 DEF SyncBlocks, meta, ghost
    <2>2. CASE f \in SyncedFile
      <3>1. f \in DOMAIN disk' /\ disk'[f] = page'[f]
        BY <2>1, <2>2
      <3> QED BY <1>1, <3>1, IntactSame
    <2>3. CASE f \notin SyncedFile
      <3>1. Intact(disk, b, row)
        BY <1>3, <2>1, <2>3
      <3>2. f \in DOMAIN disk' /\ disk'[f] = disk[f]
        BY <2>1, <2>3, <3>1 DEF Intact
      <3> QED BY <3>1, <3>2, IntactSame
    <2> QED BY <2>2, <2>3
  <1>7. CASE CloseFiles \/ Kill
    <2>1. UNCHANGED <<ldb, lost, disk>> /\ closedDirty' = AfterClosing
      BY <1>7 DEF CloseFiles, Kill, ghost
    <2> QED BY <1>3, <2>1 DEF AfterClosing
  <1>8. CASE PowerLoss
    BY <1>1, <1>8 DEF PowerLoss
  <1>9. CASE StoreCache \/ StoreTx
    <2>1. /\ tx.pc \in {"store", "clear", "direct"}
          /\ UNCHANGED <<page, disk, closedDirty>>
      BY <1>9 DEF StoreCache, StoreTx, store
    <2>2. ~Dirty(f)
      BY <1>2, <2>1 DEF CleanInv
    <2>3. f \in DOMAIN disk' /\ disk'[f] = page'[f]
      BY <1>2, <2>1, <2>2 DEF Dirty
    <2> QED BY <1>1, <2>3, IntactSame
  <1>10. CASE UNCHANGED <<ldb, lost, disk, closedDirty>>
    BY <1>3, <1>10
  <1>11. CASE UNCHANGED vars \/ (Next /\ ~(\/ WriteBlock \/ WriteBlockFails \/ RollbackFiles
                  \/ Open \/ SyncBlocks \/ CloseFiles \/ Kill \/ PowerLoss \/ StoreCache \/ StoreTx))
    <2>1. UNCHANGED <<ldb, lost, disk, closedDirty>>
      BY <1>11 DEF Next, Proceed, Begin, Rollback, Commit, Delete, Put, StoreBlock,
                  StoreWriteRow, CommitToCache, ClearCache, SyncFails,
                  LdbFails, Close, OpenCorrupt, SnapshotLdb, SnapshotCache, CloseReader,
                  store, meta, ghost, vars
    <2> QED BY <1>10, <2>1
  <1> QED BY <1>4, <1>5, <1>6, <1>7, <1>8, <1>9, <1>11

-----------------------------------------------------------------------------
(***************************************************************************)
(* The files reach as far as the metadata says.                            *)
(***************************************************************************)

\* Every file up to the one of p exists, and that one is long enough.
Reaches(files, p) ==
    \/ p.file = 0 /\ p.off = 0
    \/ \A f \in 0..p.file : f \in DOMAIN files /\ (f = p.file => p.off <= Len(files[f]))

\* What is on disk reaches p, but for the files that were closed too early.
SyncedUpTo(files, p, except) ==
    \/ p.file = 0 /\ p.off = 0
    \/ \A f \in 0..p.file : f \in except \/ (f \in DOMAIN files /\ (f = p.file => p.off <= Len(files[f])))

\* The files reach as far as the write cursors say.
ReachInv ==
    ~lossy =>
      /\ Reaches(page, ldb[WriteLoc]) /\ Reaches(page, Loc)
      /\ status \in {"up", "closing"} /\ tx.pc # "rollback" => Reaches(page, cursor)
      /\ tx.pc \in {"blocks", "rollback"} => Reaches(page, tx.old)
      /\ SyncedUpTo(disk, ldb[WriteLoc], closedDirty)

\* A position is reached in files that are at least as long.
LEMMA ReachesLonger ==
    ASSUME NEW files, NEW new, NEW p \in Position, FilesOK(files), FilesOK(new), Reaches(files, p),
           \A f \in DOMAIN files : f \in DOMAIN new /\ Len(new[f]) >= Len(files[f])
    PROVE  Reaches(new, p)
  <1>1. CASE p.file = 0 /\ p.off = 0
    BY <1>1 DEF Reaches
  <1>2. CASE \A f \in 0..p.file : f \in DOMAIN files /\ (f = p.file => p.off <= Len(files[f]))
    <2>1. ASSUME NEW f \in 0..p.file PROVE f \in DOMAIN new /\ (f = p.file => p.off <= Len(new[f]))
      <3>1. f \in DOMAIN files /\ f \in DOMAIN new /\ Len(new[f]) >= Len(files[f])
        BY <1>2
      <3>2. Len(files[f]) \in Nat /\ Len(new[f]) \in Nat /\ p.off \in Nat
        BY <3>1 DEF FilesOK, Position
      <3> QED BY <1>2, <3>1, <3>2
    <2> QED BY <2>1 DEF Reaches
  <1> QED BY <1>1, <1>2 DEF Reaches

\* handleRollback leaves everything up to the position it goes back to.
LEMMA ReachesBack ==
    ASSUME NEW files, NEW new, NEW p \in Position, NEW to \in Position, ~After(p, to),
           Reaches(files, p), FilesOK(files), 
           \A f \in DOMAIN files : f <= to.file => f \in DOMAIN new,
           \A f \in DOMAIN new : f # to.file => new[f] = files[f],
           to.file \in DOMAIN new =>
              new[to.file] = Content(files, to.file) \/ Len(new[to.file]) = to.off
    PROVE  Reaches(new, p)
  <1>1. p.file \in Nat /\ p.off \in Nat /\ to.file \in Nat /\ to.off \in Nat
    BY DEF Position
  <1>2. p.file < to.file \/ (p.file = to.file /\ p.off <= to.off)
    BY <1>1 DEF After
  <1>3. CASE p.file = 0 /\ p.off = 0
    BY <1>3 DEF Reaches
  <1>4. CASE \A f \in 0..p.file : f \in DOMAIN files /\ (f = p.file => p.off <= Len(files[f]))
    <2>1. ASSUME NEW f \in 0..p.file PROVE f \in DOMAIN new /\ (f = p.file => p.off <= Len(new[f]))
      <3>1. f \in DOMAIN files /\ f \in Nat /\ f <= to.file
        BY <1>1, <1>2, <1>4
      <3>2. f \in DOMAIN new
        BY <3>1
      <3>3. ASSUME f = p.file PROVE p.off <= Len(new[f])
        <4>1. p.off <= Len(files[f])
          BY <1>4, <3>3
        <4>2. CASE f # to.file
          BY <3>2, <4>1, <4>2
        <4>3. CASE f = to.file
          <5>1. Content(files, to.file) = files[f] /\ p.off <= to.off
            BY <1>1, <1>2, <3>1, <3>3, <4>3 DEF Content
          <5> QED BY <3>2, <4>1, <4>3, <5>1
        <4> QED BY <4>2, <4>3
      <3> QED BY <3>2, <3>3
    <2> QED BY <2>1 DEF Reaches
  <1> QED BY <1>3, <1>4 DEF Reaches

\* What is synced and not dirty reaches as far as what is shown.
LEMMA ReachesSynced ==
    ASSUME NEW p \in Position, Reaches(page, p),
           \A f \in DOMAIN page : Dirty(f) => f \in closedDirty
    PROVE  SyncedUpTo(disk, p, closedDirty)
  BY DEF Reaches, SyncedUpTo, Dirty

\* The steps that change neither a file nor the write row of leveldb leave the
\* cursor where it counts.
LEMMA QuietSteps ==
    ASSUME StoreInv, [Next]_vars,
           ~(\/ WriteBlock \/ WriteBlockFails \/ RollbackFiles \/ Open \/ SyncBlocks
             \/ CloseFiles \/ Kill \/ PowerLoss)
    PROVE  /\ UNCHANGED <<page, disk, cursor, closedDirty, lossy>>
           /\ status' \in {"up", "closing"} => status \in {"up", "closing"}
           /\ tx.pc = "rollback" => tx'.pc = "rollback"
  <1> USE DEF StoreInv
  <1>1. UNCHANGED <<page, disk, cursor, closedDirty>>
    BY FileSteps
  <1>2. lossy' = lossy /\ (status' \in {"up", "closing"} => status \in {"up", "closing"})
    BY DEF Next, Proceed, Begin, Rollback, Commit, Delete, Put, StoreBlock,
           StoreWriteRow, CommitToCache, StoreCache, ClearCache, StoreTx, SyncFails,
           LdbFails, Close, OpenCorrupt, SnapshotLdb, SnapshotCache, CloseReader,
           ghost, vars
  <1>3. tx.pc = "rollback" => tx' = tx
    BY DEF Next, Proceed, Begin, Rollback, Commit, Delete, Put, StoreBlock,
           StoreWriteRow, CommitToCache, StoreCache, ClearCache, StoreTx, SyncFails,
           LdbFails, Close, OpenCorrupt, SnapshotLdb, SnapshotCache, CloseReader,
           PlaceInv, vars
  <1> QED BY <1>1, <1>2, <1>3

\* The steps of Commit after the blocks are written.
LEMMA ReachWrite ==
    ASSUME StoreInv, StoreInv', CleanInv, ReachInv, WriteBlock \/ WriteBlockFails, ~lossy'
    PROVE  ReachInv'
  <1> USE DEF StoreInv
  <1>1. PICK at \in Position, n \in Nat :
             /\ \/ at = cursor /\ closedDirty' = closedDirty
                \/ at.file = cursor.file + 1 /\ at.off = 0 /\ cursor.off > 0
                      /\ closedDirty' = AfterClosing
             /\ \/ page' = page /\ cursor' = at /\ WriteBlockFails
                \/ /\ Written(page, page', at, n)
                   /\ cursor' = [file |-> at.file, off |-> at.off + n]
             /\ UNCHANGED <<disk, ldb, cached, lossy, status>>
             /\ tx.pc = "blocks" /\ tx'.pc \in {"blocks", "rollback"} /\ tx'.old = tx.old
             /\ WriteBlockFails => tx'.pc = "rollback"
    BY WriteShape
  <1>2. /\ FilesOK(page) /\ FilesOK(page') /\ cursor \in Position /\ tx.old \in Position
        /\ ldb[WriteLoc] \in Position /\ Loc \in Position /\ status = "up"
    BY <1>1 DEF CursorInv, PlaceInv
  <1>3. Loc' = Loc
    BY <1>1 DEF Loc
  <1>4. /\ Reaches(page, ldb[WriteLoc]) /\ Reaches(page, Loc) /\ Reaches(page, cursor)
        /\ Reaches(page, tx.old) /\ SyncedUpTo(disk, ldb[WriteLoc], closedDirty)
    BY <1>1, <1>2 DEF ReachInv
  <1>5. \A f \in DOMAIN page : f \in DOMAIN page' /\ Len(page'[f]) >= Len(page[f])
    <2>1. CASE page' = page
      BY <1>2, <2>1 DEF FilesOK
    <2>2. CASE Written(page, page', at, n)
      BY <1>2, <2>2 DEF Written, Content, FilesOK
    <2> QED BY <1>1, <2>1, <2>2
  <1>6. Reaches(page', ldb[WriteLoc]) /\ Reaches(page', Loc) /\ Reaches(page', tx.old)
    BY <1>2, <1>4, <1>5, ReachesLonger
  <1>7. SyncedUpTo(disk, ldb[WriteLoc], closedDirty')
    <2>1. closedDirty \subseteq closedDirty'
      BY <1>1 DEF AfterClosing
    <2> QED BY <1>4, <2>1 DEF SyncedUpTo
  <1>8. tx'.pc # "rollback" => Reaches(page', cursor')
    <2> SUFFICES ASSUME tx'.pc # "rollback" PROVE Reaches(page', cursor')
      OBVIOUS
    <2>1. Written(page, page', at, n) /\ cursor' = [file |-> at.file, off |-> at.off + n]
      BY <1>1
    <2>2. at.file \in DOMAIN page' /\ at.off + n <= Len(page'[at.file])
      <3>1. Len(page'[at.file]) \in Nat /\ at.off + n \in Nat
        BY <1>2, <2>1 DEF Written, FilesOK, Position
      <3> QED BY <2>1, <3>1 DEF Written
    <2>3. ASSUME NEW f \in 0..at.file, f # at.file PROVE f \in DOMAIN page'
      <3>1. at.file \in Nat /\ cursor.file \in Nat /\ cursor.off \in Nat
        BY <1>2 DEF Position
      <3>2. f \in 0..cursor.file /\ ~(cursor.file = 0 /\ cursor.off = 0)
        BY <1>1, <2>3, <3>1
      <3>3. f \in DOMAIN page
        BY <1>4, <3>2 DEF Reaches
      <3> QED BY <1>5, <3>3
    <2> QED BY <2>1, <2>2, <2>3 DEF Reaches
  <1> QED BY <1>1, <1>3, <1>6, <1>7, <1>8 DEF ReachInv

\* A rollback keeps ReachInv.
LEMMA ReachRollback ==
    ASSUME StoreInv, CleanInv, ReachInv, RollbackFiles \/ Open, ~lossy'
    PROVE  ReachInv'
  <1> USE DEF StoreInv
  <1>0. PICK to \in Position : \E from :
             /\ handleRollback(from, to)
             /\ writing => from = cursor /\ cursor \in Position /\ ~After(to, cursor)
             /\ ~After(ldb[WriteLoc], to) /\ ~After(Loc, to)
             /\ UNCHANGED <<ldb, cached, lost, lossy, Loc>>
             /\ tx'.pc = "idle" /\ status' = "up"
             /\ \/ to = tx.old /\ tx.pc = "rollback"
                \/ to = ldb[WriteLoc] /\ status = "down"
    BY RollbackCases
  <1>1. PICK from :
             /\ handleRollback(from, to)
             /\ writing => from = cursor /\ cursor \in Position /\ ~After(to, cursor)
             /\ ~After(ldb[WriteLoc], to) /\ ~After(Loc, to)
             /\ UNCHANGED <<ldb, cached, lost, lossy, Loc>>
             /\ tx'.pc = "idle" /\ status' = "up"
             /\ \/ to = tx.old /\ tx.pc = "rollback"
                \/ to = ldb[WriteLoc] /\ status = "down"
    BY <1>0
  <1>2. /\ FilesOK(page) /\ FilesOK(disk) /\ ldb[WriteLoc] \in Position /\ Loc \in Position
    BY DEF CursorInv
  <1>3. /\ cursor' = to
        /\ \A f \in DOMAIN page : f <= to.file => f \in DOMAIN page'
        /\ \A f \in DOMAIN page' : f # to.file => page'[f] = page[f]
        /\ to.file \in DOMAIN page' =>
              page'[to.file] = Content(page, to.file) \/ Len(page'[to.file]) = to.off
        /\ \/ disk' = disk /\ \A f \in closedDirty : f <= to.file => f \in closedDirty'
           \/ /\ DOMAIN disk' = DOMAIN disk \cup {to.file}
              /\ Len(disk'[to.file]) = to.off
              /\ \A f \in DOMAIN disk : f # to.file => disk'[f] = disk[f]
              /\ \A f \in closedDirty : f < to.file => f \in closedDirty'
    BY <1>1, <1>2, RollbackShape
  <1>4. /\ Reaches(page, ldb[WriteLoc]) /\ Reaches(page, Loc) /\ Reaches(page, to)
        /\ SyncedUpTo(disk, ldb[WriteLoc], closedDirty)
    BY <1>1 DEF ReachInv
  <1>5. ~After(to, to)
    BY DEF After, Position
  <1>6. ASSUME NEW p \in Position, ~After(p, to), Reaches(page, p) PROVE Reaches(page', p)
    BY <1>2, <1>3, <1>6, ReachesBack
  <1>7. Reaches(page', ldb[WriteLoc]) /\ Reaches(page', Loc) /\ Reaches(page', to)
    BY <1>1, <1>2, <1>4, <1>5, <1>6
  <1>8. SyncedUpTo(disk', ldb[WriteLoc], closedDirty')
    <2> DEFINE p == ldb[WriteLoc]
    <2>1. p.file \in Nat /\ p.off \in Nat /\ to.file \in Nat /\ to.off \in Nat
      BY <1>2 DEF Position
    <2>2. p.file < to.file \/ (p.file = to.file /\ p.off <= to.off)
      BY <1>1, <2>1 DEF After
    <2> HIDE DEF p
    <2>3. SyncedUpTo(disk, p, closedDirty)
      BY <1>4 DEF p
    <2>4. CASE p.file = 0 /\ p.off = 0
      BY <2>4 DEF SyncedUpTo, p
    <2>5. CASE ~(p.file = 0 /\ p.off = 0)
      <3>1. ASSUME NEW f \in 0..p.file, f \notin closedDirty'
            PROVE  f \in DOMAIN disk' /\ (f = p.file => p.off <= Len(disk'[f]))
        <4>1. f \in Nat /\ f <= to.file
          BY <2>1, <2>2
        <4>2. CASE disk' = disk /\ \A g \in closedDirty : g <= to.file => g \in closedDirty'
          <5>1. f \notin closedDirty
            BY <3>1, <4>1, <4>2
          <5> QED BY <2>3, <2>5, <4>2, <5>1 DEF SyncedUpTo
        <4>3. CASE /\ DOMAIN disk' = DOMAIN disk \cup {to.file}
                   /\ Len(disk'[to.file]) = to.off
                   /\ \A g \in DOMAIN disk : g # to.file => disk'[g] = disk[g]
                   /\ \A g \in closedDirty : g < to.file => g \in closedDirty'
          <5>1. CASE f = to.file
            BY <2>1, <2>2, <4>3, <5>1
          <5>2. CASE f # to.file
            <6>1. f \notin closedDirty
              BY <2>1, <3>1, <4>1, <4>3, <5>2
            <6>2. f \in DOMAIN disk /\ (f = p.file => p.off <= Len(disk[f]))
              BY <2>3, <2>5, <6>1 DEF SyncedUpTo
            <6> QED BY <4>3, <5>2, <6>2
          <5> QED BY <5>1, <5>2
        <4> QED BY <1>3, <4>2, <4>3
      <3>2. SyncedUpTo(disk', p, closedDirty')
        BY <3>1 DEF SyncedUpTo
      <3> QED BY <3>2 DEF p
    <2> QED BY <2>4, <2>5
  <1> QED BY <1>1, <1>3, <1>7, <1>8 DEF ReachInv

\* Unless a file was closed too early, everything leveldb knows of survives.
LEMMA ReachPowerLoss ==
    ASSUME StoreInv, ReachInv, PowerLoss, ~lossy'
    PROVE  ReachInv'
  <1> USE DEF StoreInv
  <1> DEFINE p == ldb[WriteLoc]
  <1>1. /\ ~lossy /\ closedDirty = {} /\ MemoryGone /\ ldb' = ldb /\ disk' = page'
        /\ closedDirty' = {}
    BY DEF PowerLoss
  <1>2. PICK F \in SUBSET (DOMAIN page \cup DOMAIN disk) :
            DOMAIN page \cap DOMAIN disk \subseteq F /\ page' \in Survivors(F)
    BY DEF PowerLoss
  <1>3. FilesOK(page) /\ FilesOK(disk) /\ p \in Position
    BY DEF CursorInv
  <1>4. Reaches(page, p) /\ SyncedUpTo(disk, p, {})
    BY <1>1 DEF ReachInv
  <1>5. p.file \in Nat /\ p.off \in Nat
    BY <1>3 DEF Position
  <1> HIDE DEF p
  <1>6. Reaches(page', p)
    <2>1. CASE p.file = 0 /\ p.off = 0
      BY <2>1 DEF Reaches
    <2>2. CASE ~(p.file = 0 /\ p.off = 0)
      <3>1. ASSUME NEW f \in 0..p.file
            PROVE  f \in DOMAIN page' /\ (f = p.file => p.off <= Len(page'[f]))
        <4>1. /\ f \in DOMAIN page /\ (f = p.file => p.off <= Len(page[f]))
              /\ f \in DOMAIN disk /\ (f = p.file => p.off <= Len(disk[f]))
          BY <1>4, <2>2 DEF Reaches, SyncedUpTo
        <4>2. f \in F
          BY <1>2, <4>1
        <4>3. /\ DOMAIN page' = F /\ Len(page'[f]) \in Nat
              /\ Len(page'[f]) >= Len(page[f]) \/ Len(page'[f]) >= Len(Content(disk, f))
          BY <1>2, <1>3, <4>1, <4>2, SurvivorLengths
        <4>4. Len(page[f]) \in Nat /\ Len(disk[f]) \in Nat /\ Content(disk, f) = disk[f]
          BY <1>3, <4>1 DEF FilesOK, Content
        <4> QED BY <1>5, <4>1, <4>2, <4>3, <4>4
      <3> QED BY <3>1 DEF Reaches
    <2> QED BY <2>1, <2>2
  <1>7. SyncedUpTo(page', p, {})
    BY <1>6 DEF Reaches, SyncedUpTo
  <1>8. Loc' = p
    BY <1>1 DEF MemoryGone, Loc, NoUpdate, NoKeys, p
  <1>9. /\ Reaches(page', ldb'[WriteLoc]) /\ Reaches(page', Loc')
        /\ SyncedUpTo(disk', ldb'[WriteLoc], closedDirty')
    BY <1>1, <1>6, <1>7, <1>8 DEF p
  <1>10. status' = "down" /\ tx'.pc = "idle"
    BY <1>1, IdleFields DEF MemoryGone
  <1> QED BY <1>9, <1>10 DEF ReachInv

\* Every step keeps ReachInv.
LEMMA ReachInvStep ==
    ASSUME StoreInv, StoreInv', CleanInv, ReachInv, [Next]_vars
    PROVE  ReachInv'
  <1> USE DEF StoreInv
  <1> SUFFICES ASSUME ~lossy' PROVE ReachInv'
    BY DEF ReachInv
  <1>1. CASE WriteBlock \/ WriteBlockFails
    BY <1>1, ReachWrite
  <1>2. CASE RollbackFiles \/ Open
    BY <1>2, ReachRollback
  <1>3. CASE PowerLoss
    BY <1>3, ReachPowerLoss
  <1>4. CASE SyncBlocks
    <2>1. /\ UNCHANGED <<page, cursor, ldb, cached, lossy, status>>
          /\ disk' = [f \in DOMAIN disk \cup SyncedFile |->
                         IF f \in SyncedFile THEN page[f] ELSE disk[f]]
          /\ closedDirty' = closedDirty \ SyncedFile /\ tx.pc = "sync"
      BY <1>4 DEF SyncBlocks, meta, ghost
    <2>2. Loc' = Loc /\ tx'.pc \notin {"blocks", "rollback"}
      BY <1>4, <2>1 DEF Loc, SyncBlocks, Flushed, PlaceInv
    <2>3. Reaches(page, ldb[WriteLoc]) /\ SyncedUpTo(disk, ldb[WriteLoc], closedDirty)
      BY <2>1 DEF ReachInv
    <2>4. SyncedUpTo(disk', ldb[WriteLoc], closedDirty')
      <3> DEFINE p == ldb[WriteLoc]
      <3> HIDE DEF p
      <3>1. Reaches(page, p) /\ SyncedUpTo(disk, p, closedDirty)
        BY <2>3 DEF p
      <3>2. CASE p.file = 0 /\ p.off = 0
        BY <3>2 DEF SyncedUpTo, p
      <3>3. CASE ~(p.file = 0 /\ p.off = 0)
        <4>1. ASSUME NEW f \in 0..p.file, f \notin closedDirty'
              PROVE  f \in DOMAIN disk' /\ (f = p.file => p.off <= Len(disk'[f]))
          <5>1. CASE f \in SyncedFile
            BY <2>1, <3>1, <3>3, <5>1 DEF Reaches
          <5>2. CASE f \notin SyncedFile
            BY <2>1, <3>1, <3>3, <4>1, <5>2 DEF SyncedUpTo
          <5> QED BY <5>1, <5>2
        <4>2. SyncedUpTo(disk', p, closedDirty')
          BY <4>1 DEF SyncedUpTo
        <4> QED BY <4>2 DEF p
      <3> QED BY <3>2, <3>3
    <2> QED BY <2>1, <2>2, <2>4 DEF ReachInv
  <1>5. CASE CloseFiles \/ Kill
    <2>1. /\ MemoryGone /\ UNCHANGED <<page, disk, ldb, lossy>> /\ closedDirty' = AfterClosing
      BY <1>5 DEF CloseFiles, Kill, ghost
    <2>2. Loc' = ldb[WriteLoc] /\ status' = "down" /\ tx'.pc = "idle"
      BY <2>1, IdleFields DEF MemoryGone, Loc, NoUpdate, NoKeys
    <2>3. SyncedUpTo(disk, ldb[WriteLoc], AfterClosing)
      BY <2>1 DEF ReachInv, SyncedUpTo, AfterClosing
    <2> QED BY <2>1, <2>2, <2>3 DEF ReachInv
  <1>6. CASE ~(\/ WriteBlock \/ WriteBlockFails \/ RollbackFiles \/ Open \/ SyncBlocks
               \/ CloseFiles \/ Kill \/ PowerLoss)
    <2>1. /\ UNCHANGED <<page, disk, cursor, closedDirty, lossy>>
          /\ status' \in {"up", "closing"} => status \in {"up", "closing"}
          /\ tx.pc = "rollback" => tx'.pc = "rollback"
      BY <1>6, QuietSteps
    <2>2. /\ Reaches(page, ldb[WriteLoc]) /\ Reaches(page, Loc)
          /\ status \in {"up", "closing"} /\ tx.pc # "rollback" => Reaches(page, cursor)
          /\ tx.pc \in {"blocks", "rollback"} => Reaches(page, tx.old)
          /\ SyncedUpTo(disk, ldb[WriteLoc], closedDirty)
          /\ Loc \in Position /\ cursor \in Position
      BY <2>1 DEF ReachInv, CursorInv
    <2>3. status' \in {"up", "closing"} /\ tx'.pc # "rollback" => Reaches(page', cursor')
      BY <2>1, <2>2
    <2>4. tx'.pc \in {"blocks", "rollback"} => Reaches(page', tx'.old)
      BY <2>1, <2>2, OldSteps DEF PlaceInv
    <2>5. /\ Reaches(page', ldb'[WriteLoc]) /\ Reaches(page', Loc')
          /\ SyncedUpTo(disk', ldb'[WriteLoc], closedDirty')
      <3>1. CASE UNCHANGED <<ldb, Loc>>
        BY <2>1, <2>2, <3>1
      <3>2. CASE ldb' = ldb /\ Loc' = cursor /\ tx.pc = "cache" /\ status = "up"
        BY <2>1, <2>2, <3>2
      <3>3. CASE ldb'[WriteLoc] = Loc /\ Loc' = Loc /\ tx.pc = "store"
        <4>1. SyncedUpTo(disk, Loc, closedDirty)
          BY <2>2, <3>3, ReachesSynced DEF CleanInv
        <4> QED BY <2>1, <2>2, <3>3, <4>1
      <3>4. CASE ldb'[WriteLoc] = cursor /\ Loc' = cursor /\ tx.pc = "direct" /\ status = "up"
        <4>1. Reaches(page, cursor)
          BY <2>2, <3>4
        <4>2. SyncedUpTo(disk, cursor, closedDirty)
          BY <2>2, <3>4, <4>1, ReachesSynced DEF CleanInv
        <4> QED BY <2>1, <3>4, <4>1, <4>2
      <3>5. CASE ldb' = ldb /\ Loc' = ldb[WriteLoc]
        BY <2>1, <2>2, <3>5
      <3> QED BY <3>1, <3>2, <3>3, <3>4, <3>5, LocSteps
    <2> QED BY <2>3, <2>4, <2>5 DEF ReachInv
  <1> QED BY <1>1, <1>2, <1>3, <1>4, <1>5, <1>6

\* scanBlockFiles stops at the last file before the first gap.
LEMMA ScannedFile ==
    ASSUME FilesOK(page), BoundInv, 0 \in DOMAIN page
    PROVE  \E last \in DOMAIN page :
              /\ 0..last \subseteq DOMAIN page /\ last + 1 \notin DOMAIN page
              /\ Scanned = [file |-> last, off |-> Len(page[last])]
  <1> DEFINE gaps == Nat \ DOMAIN page
             Last(n) == 0..n \subseteq DOMAIN page /\ n + 1 \notin DOMAIN page
  <1>1. DOMAIN page \subseteq Nat
    BY DEF FilesOK
  <1>2. gaps # {}
    <2>1. PICK n \in Nat : \A f \in DOMAIN page : f <= n
      BY DEF BoundInv
    <2>2. n + 1 \in Nat /\ ~(n + 1 <= n)
      OBVIOUS
    <2> QED BY <2>1, <2>2
  <1>3. PICK g \in gaps : \A u \in gaps : g <= u
    BY <1>2, LeastNatural
  <1>4. g \in Nat /\ g # 0 /\ g \notin DOMAIN page
    BY <1>3
  <1>5. g - 1 \in Nat /\ (g - 1) + 1 = g
    BY <1>4
  <1>6. \A f \in 0..(g - 1) : f \in DOMAIN page
    BY <1>3, <1>4, <1>5
  <1>7. g - 1 \in DOMAIN page /\ Last(g - 1)
    BY <1>4, <1>5, <1>6
  <1>8. \E n \in DOMAIN page : Last(n)
    BY <1>7
  <1>9. PICK last : last = CHOOSE n \in DOMAIN page :
                        0..n \subseteq DOMAIN page /\ n + 1 \notin DOMAIN page
    OBVIOUS
  <1>10. last \in DOMAIN page /\ Last(last)
    BY <1>8, <1>9
  <1>11. Scanned = [file |-> last, off |-> Len(page[last])]
    BY <1>9 DEF Scanned
  <1> QED BY <1>10, <1>11

\* reconcileDB finds files that reach as far as the metadata says.
LEMMA NoCorruption ==
    ASSUME FilesOK(page), BoundInv, NEW p \in Position, Reaches(page, p)
    PROVE  ~After(p, Scanned)
  <1>1. p.file \in Nat /\ p.off \in Nat
    BY DEF Position
  <1>2. CASE 0 \notin DOMAIN page
    <2>1. 0 \in 0..p.file
      BY <1>1
    <2>2. p.file = 0 /\ p.off = 0
      BY <1>2, <2>1 DEF Reaches
    <2> QED BY <1>2, <2>2 DEF Scanned, After
  <1>3. CASE 0 \in DOMAIN page
    <2>1. PICK last \in DOMAIN page :
             /\ 0..last \subseteq DOMAIN page /\ last + 1 \notin DOMAIN page
             /\ Scanned = [file |-> last, off |-> Len(page[last])]
      BY <1>3, ScannedFile
    <2>2. last \in Nat /\ Len(page[last]) \in Nat
      BY DEF FilesOK
    <2>3. CASE p.file = 0 /\ p.off = 0
      BY <2>1, <2>2, <2>3 DEF After
    <2>4. CASE \A f \in 0..p.file : f \in DOMAIN page /\ (f = p.file => p.off <= Len(page[f]))
      <3>1. last + 1 \notin 0..p.file
        BY <2>1, <2>4
      <3>2. p.file <= last
        BY <1>1, <2>2, <3>1
      <3>3. p.file = last => p.off <= Len(page[last])
        BY <1>1, <2>4
      <3> QED BY <1>1, <2>1, <2>2, <3>2, <3>3 DEF After
    <2> QED BY <2>3, <2>4 DEF Reaches
  <1> QED BY <1>2, <1>3

\* reconcileDB reports corruption only after power was lost with a file
\* closed before a sync.
LEMMA CorruptStep ==
    ASSUME StoreInv, BoundInv, ReachInv, CorruptOnlyIfClosed, [Next]_vars
    PROVE  CorruptOnlyIfClosed'
  <1> USE DEF CorruptOnlyIfClosed
  <1>1. CASE OpenCorrupt
    <2>1. After(ldb[WriteLoc], Scanned) /\ lossy' = lossy
      BY <1>1 DEF OpenCorrupt, ghost
    <2>2. lossy
      BY <2>1, NoCorruption DEF ReachInv, StoreInv, CursorInv
    <2> QED BY <2>1, <2>2
  <1>2. CASE ~OpenCorrupt
    <2>1. \/ status' = status /\ lossy' = lossy
          \/ status' \in {"up", "closing", "down"}
      BY <1>2 DEF Next, Proceed, Begin, Rollback, Commit, Delete, Put, StoreBlock, WriteBlock,
                  RollbackFiles, StoreWriteRow, CommitToCache, SyncBlocks, StoreCache, ClearCache,
                  StoreTx, CloseFiles, WriteBlockFails, SyncFails, LdbFails, Close, Kill,
                  PowerLoss, Open, SnapshotLdb, SnapshotCache, CloseReader, MemoryGone,
                  ghost, vars
    <2> QED BY <2>1
  <1> QED BY <1>1, <1>2

\* The inductive invariant of what is on disk.
DiskInv ==
    /\ StoreInv /\ MetaInv /\ ControlInv
    /\ LimitInv /\ CleanInv /\ BoundInv /\ ReachInv
    /\ DurableUnlessClosed /\ CorruptOnlyIfClosed

\* It holds of an empty database.
LEMMA DiskInit ==
    ASSUME Init
    PROVE  MetaInv /\ ControlInv /\ LimitInv /\ CleanInv /\ BoundInv /\ ReachInv
           /\ DurableUnlessClosed /\ CorruptOnlyIfClosed
  <1>1. /\ page = [f \in {} |-> <<>>] /\ disk = page /\ DOMAIN page = {} /\ closedDirty = {}
        /\ cursor = [file |-> 0, off |-> 0] /\ tx = IdleTx /\ cached = NoUpdate
        /\ ldb = [k \in {WriteLoc} |-> [file |-> 0, off |-> 0]]
        /\ reader = [r \in Readers |-> IdleReader] /\ status = "up"
    BY DEF Init
  <1>2. ldb[WriteLoc] = [file |-> 0, off |-> 0] /\ Loc = ldb[WriteLoc]
    BY <1>1 DEF Loc, NoUpdate, NoKeys
  <1>3. MetaInv
    <2>1. IsMeta(ldb)
      BY <1>1, KeysAssumption DEF IsMeta, Position
    <2> QED BY <1>1, <2>1, IdleUpdates DEF MetaInv, IdleReader
  <1>4. ControlInv
    <2>1. faults \in 0..MaxFaults /\ stops \in 0..MaxStops
      BY BoundsAssumption DEF Init
    <2>2. lost \subseteq Blocks /\ tx.pc = "idle" /\ status = "up"
      BY IdleFields DEF Init
    <2>3. writing \in BOOLEAN /\ ldbBusy \in BOOLEAN /\ lossy \in BOOLEAN
      BY DEF Init
    <2> QED BY <2>1, <2>2, <2>3 DEF ControlInv
  <1>5. LimitInv
    BY <1>1, <1>2, LengthsAssumption DEF LimitInv, IdleTx
  <1>6. CleanInv /\ BoundInv
    BY <1>1 DEF CleanInv, BoundInv
  <1>7. ReachInv
    BY <1>1, <1>2, IdleFields DEF ReachInv, Reaches, SyncedUpTo
  <1>8. DurableUnlessClosed /\ CorruptOnlyIfClosed
    BY <1>1, KeysAssumption DEF DurableUnlessClosed, CorruptOnlyIfClosed
  <1> QED BY <1>3, <1>4, <1>5, <1>6, <1>7, <1>8

\* DiskInv is inductive: a file that has not been synced is open for writing or
\* listed as closed too early, and what leveldb knows of is never in a third one.
THEOREM DiskInvariant == Spec => []DiskInv
  <1>1. Init => MetaInv /\ ControlInv /\ LimitInv /\ CleanInv /\ BoundInv /\ ReachInv
                /\ DurableUnlessClosed /\ CorruptOnlyIfClosed
    BY DiskInit
  <1>2. StoreInv /\ StoreInv' /\ DiskInv /\ [Next]_vars => DiskInv'
    <2> SUFFICES ASSUME StoreInv, StoreInv', DiskInv, [Next]_vars PROVE DiskInv'
      OBVIOUS
    <2>1. MetaInv' /\ ControlInv'
      BY MetaInvStep, ControlInvStep DEF DiskInv
    <2>2. LimitInv' /\ CleanInv' /\ BoundInv'
      BY LimitInvStep, CleanInvStep, BoundInvStep DEF DiskInv
    <2>3. ReachInv' /\ DurableUnlessClosed' /\ CorruptOnlyIfClosed'
      BY ReachInvStep, DurableStep, CorruptStep DEF DiskInv
    <2> QED BY <2>1, <2>2, <2>3 DEF DiskInv
  <1>3. Init /\ StoreInv => DiskInv
    BY <1>1 DEF DiskInv
  <1> QED BY <1>2, <1>3, StoreInvariant, PTL DEF Spec

\* Whatever fails and however the process stops: a block leveldb knows of is on
\* disk unless its file was closed before it was synced, and only a loss of
\* power with such a file makes reconcileDB report corruption.
THEOREM FilesAreSound == Spec => []FilesSound
  <1>1. DiskInv => FilesSound
    <2> SUFFICES ASSUME DiskInv PROVE FilesSound
      OBVIOUS
    <2>1. IsFiles(page) /\ IsFiles(disk)
      BY DEF DiskInv, StoreInv, CursorInv, FilesOK, LimitInv, IsFiles
    <2>2. /\ cursor \in Position /\ WriteLoc \in DOMAIN ldb /\ tx.old \in Position
          /\ closedDirty \subseteq DOMAIN page
      BY DEF DiskInv, StoreInv, CursorInv, PlaceInv, CleanInv
    <2>3. TypeOK
      BY <2>1, <2>2 DEF DiskInv, MetaInv, ControlInv, TypeOK
    <2> QED BY <2>3 DEF DiskInv, FilesSound
  <1> QED BY <1>1, DiskInvariant, PTL

-----------------------------------------------------------------------------
(***************************************************************************)
(* A block keeps its row.                                                  *)
(***************************************************************************)

\* The blocks of a transaction are distinct and new to what it can read.
NewTo(t, m) ==
    /\ \A i \in 1..Len(t.blocks) : t.blocks[i] \notin DOMAIN m /\ t.blocks[i] \notin DOMAIN t.keys
    /\ \A i, j \in 1..Len(t.blocks) : t.blocks[i] = t.blocks[j] => i = j
    /\ \A b \in Blocks : b \in DOMAIN t.keys => b \notin DOMAIN m

\* The cache and leveldb never disagree about a block.
NewRowsInv ==
    /\ NewTo(tx, Visible)
    /\ \A b \in Blocks : b \in DOMAIN cached.keys /\ b \in DOMAIN ldb => cached.keys[b] = ldb[b]

\* A transaction that adds no block stays new to the index.
LEMMA NewToSame ==
    ASSUME NEW t, NEW u, NEW m, NewTo(t, m), u.blocks = t.blocks,
           \A b \in Blocks : b \in DOMAIN u.keys => b \in DOMAIN t.keys,
           t.blocks \in Seq(Blocks)
    PROVE  NewTo(u, m)
  <1>1. \A i \in 1..Len(t.blocks) : t.blocks[i] \in Blocks
    OBVIOUS
  <1> QED BY <1>1 DEF NewTo

\* No transaction is new to every index.
LEMMA NewToIdle ==
    ASSUME NEW t, NEW m, t.blocks = <<>>, t.keys = NoKeys
    PROVE  NewTo(t, m)
  BY DEF NewTo, NoKeys

\* What a new transaction reads changes all at once, or goes back to leveldb.
LEMMA VisibleSteps ==
    ASSUME FlushInv, [Next]_vars
    PROVE  \/ Visible' = Visible
           \/ Visible' = Overlay(Visible, tx) /\ tx' = IdleTx
           \/ MemoryGone /\ ldb' = ldb /\ Visible' = ldb
  <1> USE DEF FlushInv
  <1>1. CASE UNCHANGED <<ldb, cached>>
    BY <1>1 DEF Visible
  <1>2. CASE CommitToCache
    BY <1>2, MergeIsOverlay DEF CommitToCache, Visible
  <1>3. CASE StoreCache
    BY <1>3, OverlayTwice DEF StoreCache, Visible
  <1>4. CASE ClearCache
    <2>1. cached' = NoUpdate /\ ldb' = ldb /\ Overlay(ldb, cached) = ldb
      BY <1>4 DEF ClearCache
    <2> QED BY <2>1, OverlayNothing DEF Visible
  <1>5. CASE StoreTx
    <2>1. /\ cached = NoUpdate /\ cached' = NoUpdate /\ ldb' = Overlay(ldb, tx) /\ tx' = IdleTx
      BY <1>5 DEF StoreTx
    <2>2. Overlay(ldb, cached) = ldb /\ Overlay(ldb', cached') = ldb'
      BY <2>1, OverlayNothing, OverlayIsMap
    <2> QED BY <2>1, <2>2 DEF Visible
  <1>6. CASE CloseFiles \/ Kill \/ PowerLoss
    <2>1. MemoryGone /\ ldb' = ldb
      BY <1>6 DEF Kill, PowerLoss, CloseFiles
    <2>2. Visible' = ldb
      BY <2>1, OverlayNothing DEF MemoryGone, Visible
    <2> QED BY <2>1, <2>2
  <1>7. CASE UNCHANGED vars \/ (Next /\ ~(\/ CommitToCache \/ StoreCache \/ ClearCache \/ StoreTx
                                         \/ CloseFiles \/ Kill \/ PowerLoss))
    <2>1. UNCHANGED <<ldb, cached>>
      BY <1>7 DEF Next, Proceed, Begin, Rollback, Commit, Delete, Put, StoreBlock, WriteBlock,
                  RollbackFiles, StoreWriteRow, SyncBlocks, WriteBlockFails, SyncFails,
                  LdbFails, Close, Open, OpenCorrupt, SnapshotLdb, SnapshotCache, CloseReader,
                  meta, vars
    <2> QED BY <1>1, <2>1
  <1> QED BY <1>2, <1>3, <1>4, <1>5, <1>6, <1>7

\* StoreBlock takes new blocks only, and a block leaves the list when it gets its row.
LEMMA NewToStep ==
    ASSUME StoreInv, MetaInv, NewTo(tx, Visible), [Next]_vars
    PROVE  NewTo(tx', Visible)
  <1> USE DEF StoreInv
  <1>1. tx.blocks \in Seq(Blocks) /\ DOMAIN tx = {"pc", "keys", "removed", "blocks", "old"}
    BY DEF PlaceInv
  <1>2. CASE tx' = tx
    BY <1>2
  <1>3. CASE tx' = IdleTx \/ \E pc : tx' = [IdleTx EXCEPT !.pc = pc]
    <2>1. tx'.blocks = <<>> /\ tx'.keys = NoKeys
      BY <1>3 DEF IdleTx
    <2> QED BY <2>1, NewToIdle
  <1>4. CASE \E pc, old : tx' = [tx EXCEPT !.pc = pc] \/ tx' = [tx EXCEPT !.pc = pc, !.old = old]
    <2>1. tx'.blocks = tx.blocks /\ tx'.keys = tx.keys
      BY <1>1, <1>4
    <2> QED BY <1>1, <2>1, NewToSame
  <1>5. ASSUME NEW k \in UserKeys, Delete(k) \/ \E v \in Values : Put(k, v)
        PROVE  NewTo(tx', Visible)
    <2>1. tx'.blocks = tx.blocks /\ DOMAIN tx'.keys \subseteq DOMAIN tx.keys \cup {k}
      BY <1>1, <1>5, PutFields, DeleteFields DEF Delete, Put
    <2>2. k \notin Blocks
      BY KeysAssumption
    <2> QED BY <1>1, <2>1, <2>2, NewToSame
  <1>6. ASSUME NEW b \in Blocks, StoreBlock(b)
        PROVE  NewTo(tx', Visible)
    <2>1. /\ tx'.blocks = Append(tx.blocks, b) /\ tx'.keys = tx.keys
          /\ ~hasBlock(b)
      BY <1>1, <1>6 DEF StoreBlock
    <2>2. b \notin tx.removed
      BY KeysAssumption DEF MetaInv, IsUpdate
    <2>3. b \notin DOMAIN Visible /\ b \notin DOMAIN tx.keys
      <3>1. DOMAIN Overlay(Visible, tx) = (DOMAIN Visible \cup DOMAIN tx.keys) \ tx.removed
        BY DEF Overlay
      <3> HIDE DEF Visible
      <3> QED BY <2>1, <2>2, <3>1 DEF hasBlock
    <2>4. \A i \in 1..Len(tx.blocks) : tx.blocks[i] # b
      BY <2>1 DEF hasBlock
    <2>5. /\ Len(tx'.blocks) = Len(tx.blocks) + 1 /\ tx'.blocks[Len(tx.blocks) + 1] = b
          /\ \A i \in 1..Len(tx.blocks) : tx'.blocks[i] = tx.blocks[i]
          /\ Len(tx.blocks) \in Nat
      BY <1>1, <2>1
    <2>6. \A i \in 1..Len(tx'.blocks) : i \in 1..Len(tx.blocks) \/ i = Len(tx.blocks) + 1
      BY <2>5
    <2>7. \A i, j \in 1..Len(tx'.blocks) : tx'.blocks[i] = tx'.blocks[j] => i = j
      BY <2>4, <2>5, <2>6 DEF NewTo
    <2> QED BY <2>1, <2>3, <2>5, <2>6, <2>7 DEF NewTo
  <1>7. CASE WriteBlock
    <2> DEFINE b == Head(tx.blocks)
               row == BlockRow(WritePosition(BlockLen[b]), BlockLen[b])
    <2>1. /\ tx.blocks # <<>>
          /\ tx' = [PutKey(tx, b, row) EXCEPT !.blocks = Tail(tx.blocks)]
      BY <1>7 DEF WriteBlock
    <2> HIDE DEF row
    <2>2. tx'.blocks = Tail(tx.blocks) /\ DOMAIN tx'.keys = DOMAIN tx.keys \cup {b}
      BY <1>1, <2>1, PutFields
    <2>3. /\ b = tx.blocks[1] /\ 1 \in 1..Len(tx.blocks)
          /\ \A i \in 1..Len(tx'.blocks) : /\ i + 1 \in 1..Len(tx.blocks) /\ i + 1 # 1
                                           /\ tx'.blocks[i] = tx.blocks[i + 1]
      BY <1>1, <2>1, <2>2
    <2> HIDE DEF b
    <2>4. \A i \in 1..Len(tx'.blocks) : /\ tx'.blocks[i] \notin DOMAIN Visible
                                        /\ tx'.blocks[i] \notin DOMAIN tx'.keys
      BY <2>2, <2>3 DEF NewTo
    <2>5. ASSUME NEW i \in 1..Len(tx'.blocks), NEW j \in 1..Len(tx'.blocks),
                 tx'.blocks[i] = tx'.blocks[j]
          PROVE  i = j
      <3>1. i + 1 = j + 1
        BY <2>3, <2>5 DEF NewTo
      <3> QED BY <3>1
    <2>6. \A x \in Blocks : x \in DOMAIN tx'.keys => x \notin DOMAIN Visible
      BY <2>2, <2>3 DEF NewTo
    <2> QED BY <2>4, <2>5, <2>6 DEF NewTo
  <1>8. CASE StoreWriteRow
    <2>1. PICK pc : tx' = [PutKey(tx, WriteLoc, cursor) EXCEPT !.pc = pc]
      BY <1>8 DEF StoreWriteRow
    <2>2. tx'.blocks = tx.blocks /\ DOMAIN tx'.keys = DOMAIN tx.keys \cup {WriteLoc}
      BY <1>1, <2>1, PutFields
    <2> QED BY <1>1, <2>2, NewToSame, KeysAssumption
  <1>9. CASE Next /\ ~(\/ \E k \in UserKeys : Delete(k) \/ \E v \in Values : Put(k, v)
                       \/ \E b \in Blocks : StoreBlock(b)
                       \/ StoreWriteRow \/ WriteBlock)
    <2> DEFINE Moves == \/ tx' = tx \/ tx' = IdleTx
                        \/ \E pc : tx' = [IdleTx EXCEPT !.pc = pc]
                        \/ \E pc, old : \/ tx' = [tx EXCEPT !.pc = pc]
                                        \/ tx' = [tx EXCEPT !.pc = pc, !.old = old]
    <2>1. Moves
      <3>1. CASE Begin \/ Rollback \/ Commit \/ RollbackFiles \/ CommitToCache \/ StoreTx \/ Close
        BY <3>1 DEF Begin, Rollback, Commit, RollbackFiles, CommitToCache, StoreTx, Close
      <3>2. CASE SyncBlocks \/ StoreCache \/ ClearCache
        BY <3>2 DEF SyncBlocks, StoreCache, ClearCache, Flushed
      <3>3. CASE WriteBlockFails \/ SyncFails \/ LdbFails
        BY <3>3 DEF WriteBlockFails, SyncFails, LdbFails, Failed
      <3>4. CASE CloseFiles \/ Kill \/ PowerLoss
        BY <3>4 DEF CloseFiles, Kill, PowerLoss, MemoryGone
      <3>5. CASE Open \/ OpenCorrupt
        BY <3>5 DEF Open, OpenCorrupt
      <3>6. CASE \E r \in Readers : SnapshotLdb(r) \/ SnapshotCache(r) \/ CloseReader(r)
        BY <3>6 DEF SnapshotLdb, SnapshotCache, CloseReader
      <3> HIDE DEF Moves
      <3> QED BY <1>9, <3>1, <3>2, <3>3, <3>4, <3>5, <3>6 DEF Next, Proceed
    <2> QED BY <2>1, <1>2, <1>3, <1>4
  <1>10. CASE UNCHANGED vars
    BY <1>2, <1>10 DEF vars
  <1> QED BY <1>5, <1>6, <1>7, <1>8, <1>9, <1>10

\* Every step keeps NewRowsInv.
LEMMA NewRowsStep ==
    ASSUME StoreInv, MetaInv, NewRowsInv, [Next]_vars
    PROVE  NewRowsInv'
  <1> USE DEF StoreInv
  <1>1. NewTo(tx', Visible')
    <2>1. CASE Visible' = Visible
      BY <2>1, NewToStep DEF NewRowsInv
    <2>2. CASE tx' = IdleTx \/ MemoryGone
      <3>1. tx'.blocks = <<>> /\ tx'.keys = NoKeys
        BY <2>2, IdleFields DEF MemoryGone, IdleTx
      <3> QED BY <3>1, NewToIdle
    <2> QED BY <2>1, <2>2, VisibleSteps
  <1>2. ASSUME NEW b \in Blocks, b \in DOMAIN cached'.keys, b \in DOMAIN ldb'
        PROVE  cached'.keys[b] = ldb'[b]
    <2>1. b \notin cached.removed /\ b \notin tx.removed
      BY KeysAssumption DEF MetaInv, IsUpdate
    <2>2. CASE UNCHANGED <<ldb, cached>>
      BY <1>2, <2>2 DEF NewRowsInv
    <2>3. CASE CommitToCache
      <3>1. ldb' = ldb /\ cached'.keys = Overlay(cached.keys, tx)
        BY <2>3 DEF CommitToCache, Merged
      <3>2. b \in DOMAIN Visible
        BY <1>2, <2>1, <3>1 DEF Visible, Overlay
      <3>3. b \notin DOMAIN tx.keys
        BY <3>2 DEF NewRowsInv, NewTo
      <3>4. b \in DOMAIN cached.keys /\ cached'.keys[b] = cached.keys[b]
        BY <1>2, <2>1, <3>1, <3>3 DEF Overlay
      <3> QED BY <1>2, <3>1, <3>4 DEF NewRowsInv
    <2>4. CASE StoreCache
      BY <1>2, <2>1, <2>4 DEF StoreCache, Overlay
    <2>5. CASE cached' = NoUpdate
      BY <1>2, <2>5 DEF NoUpdate, NoKeys
    <2>6. CASE ClearCache \/ StoreTx \/ CloseFiles \/ Kill \/ PowerLoss
      BY <2>5, <2>6 DEF ClearCache, StoreTx, CloseFiles, Kill, PowerLoss, MemoryGone, FlushInv
    <2>7. CASE UNCHANGED vars \/ (Next /\ ~(\/ CommitToCache \/ StoreCache \/ ClearCache \/ StoreTx
                                           \/ CloseFiles \/ Kill \/ PowerLoss))
      <3>1. UNCHANGED <<ldb, cached>>
        BY <2>7 DEF Next, Proceed, Begin, Rollback, Commit, Delete, Put, StoreBlock, WriteBlock,
                    RollbackFiles, StoreWriteRow, SyncBlocks, WriteBlockFails, SyncFails,
                    LdbFails, Close, Open, OpenCorrupt, SnapshotLdb, SnapshotCache, CloseReader,
                    meta, vars
      <3> QED BY <2>2, <3>1
    <2> QED BY <2>3, <2>4, <2>6, <2>7
  <1> QED BY <1>1, <1>2 DEF NewRowsInv

\* No step changes the row of a block that stays in the index.
LEMMA RowsStep ==
    ASSUME FlushInv, MetaInv, NewRowsInv, [Next]_vars,
           NEW b \in Blocks \cap DOMAIN Visible \cap DOMAIN Visible'
    PROVE  Visible'[b] = Visible[b]
  <1>1. b \notin DOMAIN tx.keys
    BY DEF NewRowsInv, NewTo
  <1>2. CASE Visible' = Visible
    BY <1>2
  <1>3. CASE Visible' = Overlay(Visible, tx)
    <2> DEFINE m == Visible
    <2>1. b \in DOMAIN Overlay(m, tx) => Overlay(m, tx)[b] = m[b]
      BY <1>1 DEF Overlay
    <2> QED BY <1>3, <2>1
  <1>4. CASE Visible' = ldb
    BY <1>4 DEF Visible, Overlay, NewRowsInv
  <1> QED BY <1>2, <1>3, <1>4, VisibleSteps

\* StoreBlock and the write lock see to it that no transaction, flush or
\* restart gives a block another row while the block is in the index.
THEOREM RowsAreFinal == Spec => RowsNeverChange
  <1>1. Init => NewRowsInv
    <2> SUFFICES ASSUME Init PROVE NewRowsInv
      OBVIOUS
    <2>1. tx.blocks = <<>> /\ tx.keys = NoKeys /\ cached.keys = NoKeys
      BY DEF Init, IdleTx, NoUpdate
    <2>2. NewTo(tx, Visible)
      BY <2>1, NewToIdle
    <2> QED BY <2>1, <2>2 DEF NewRowsInv, NoKeys
  <1>2. StoreInv /\ MetaInv /\ NewRowsInv /\ [Next]_vars => NewRowsInv'
    BY NewRowsStep
  <1>3. DiskInv => StoreInv /\ MetaInv /\ FlushInv
    BY DEF DiskInv, StoreInv
  <1>4. FlushInv /\ MetaInv /\ NewRowsInv /\ [Next]_vars =>
          [\A b \in Blocks \cap DOMAIN Visible \cap DOMAIN Visible' : Visible'[b] = Visible[b]]_vars
    BY RowsStep
  <1> QED BY <1>1, <1>2, <1>3, <1>4, DiskInvariant, PTL DEF Spec, RowsNeverChange
=============================================================================
