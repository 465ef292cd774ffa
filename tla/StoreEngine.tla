---------------------------- MODULE StoreEngine ----------------------------
(***************************************************************************)
(* One storage engine of ReportDB: the files of one day and one counter    *)
(* (src/reportdb/src/storage: file.go, index.go, store.go and the flush    *)
(* and shutdown of store-pool.go).                                         *)
(*                                                                         *)
(* A partition has a memory-mapped data file, cut into blocks that each    *)
(* belong to one key, and an index file, the saved lists of blocks of its  *)
(* keys.  Several writers append records, several readers scan them, a     *)
(* ticker saves the index, the process may die at any point and restart    *)
(* from what the files hold.                                               *)
(*                                                                         *)
(* Offsets are counted in units of eight bytes: the header of the data     *)
(* file is one unit, a record is one unit (length and timestamp) plus its  *)
(* value.  A mapping is MAP_SHARED, so what was copied into it survives    *)
(* the death of the process; the loss of the machine is not modelled.      *)
(***************************************************************************)
EXTENDS Integers, Sequences, FiniteSets

CONSTANTS
  Keys,           \* object ids
  NumPartitions,  \* "partitions" of config.json
  NumWriters,     \* "writers" of config.json
  CounterId,      \* the counter this engine stores
  Readers,        \* goroutines that call Get and GetKeys
  Growth,         \* "fileGrowthSize", in units
  RecordSizes,    \* sizes of encoded records, in units
  MaxFile,        \* bound: the size at which Truncate or Mmap fails
  MaxPuts,        \* bound: Puts begun per key
  MaxCrashes,     \* bound: deaths and restarts of the process
  Faults          \* which of the failures below may happen

HeaderLen == 1

FaultNames == {
  "open",        \* GetHandle cannot open the data file
  "grow",        \* Truncate or Mmap fails before MaxFile is reached
  "save",        \* os.WriteFile of an index file fails after truncating it
  "tornIndex",   \* the process dies inside os.WriteFile of an index file
  "tornHeader" } \* the process dies between the first Truncate of a data
                 \* file and the write of its header

ASSUME KeysAssumption == Keys \subseteq Nat
ASSUME PartitionsAssumption == NumPartitions \in 1..255
ASSUME WritersAssumption == NumWriters \in 1..255 /\ CounterId \in Nat
ASSUME SizesAssumption ==
  /\ Growth \in Nat \ {0}
  /\ RecordSizes \subseteq 1..Growth
  /\ MaxFile \in Nat
ASSUME BoundsAssumption == MaxPuts \in Nat /\ MaxCrashes \in Nat
ASSUME FaultsAssumption == Faults \subseteq FaultNames

VARIABLES
  \* the files
  fileSize,  \* partition -> size of the data file (0: absent or empty)
  header,    \* partition -> first eight bytes of the data file
  cells,     \* partition -> contents of the data file
  idxFile,   \* partition -> state of the index file
  disk,      \* key -> blocks last written to the index file, or about to be
             \*        written to it (readable while "ok")
  \* indexManager.indexHandles
  loaded,    \* partition -> has a map
  mem,       \* key -> its entry list in that map
  \* fileManager.fileHandles
  open,      \* partition -> has a handle
  lastEnd,   \* partition -> handle.lastBlockEnd
  mapping,   \* partition -> state of handle.mappedBuffer
  \* StoreEngine.isUsedPut, and where Shutdown of the pool stands
  isUsedPut, phase,
  shutFloor, \* key -> acked when Shutdown started (history)
  \* writers
  wpc, wkey, wsize, wlist,
  \* readers
  rpc, rkey,
  rlist,     \* the entry list the lookup returned
  rfloor,    \* acked[rkey] at the lookup (history)
  rgot,      \* slices returned by Get
  rslice,    \* do these slices still point into a mapping
  \* the holder of the index lock in Save
  saver,
  \* bounds and history
  puts, crashes, faulted,
  acked      \* key -> records whose Put has returned, and which no restart
             \*        has forgotten

files   == <<fileSize, header, cells, idxFile, disk>>
index   == <<loaded, mem>>
handles == <<open, lastEnd, mapping>>
pool    == <<isUsedPut, phase, shutFloor>>
writers == <<wpc, wkey, wsize, wlist>>
readers == <<rpc, rkey, rlist, rfloor, rgot, rslice>>
bounds  == <<puts, crashes, faulted, acked>>
vars == <<files, index, handles, pool, writers, readers, saver, bounds>>

-----------------------------------------------------------------------------
Partitions == 0..(NumPartitions - 1)
Writers    == 0..(NumWriters - 1)

Partition(k) == k % NumPartitions

\* DistributeData: all events of one counter and object go to one writer.
WriterIndex(k) == (CounterId + k) % NumWriters

KeysOf(p) == {k \in Keys : Partition(k) = p}

\* IndexEntry: EntryStart always equals BlockStart, fill is EntryEnd.
Block == [start : Nat, end : Nat, fill : Nat]

NoKey == -1
Cell == [key : Keys \cup {NoKey}, id : Nat, len : Nat]
Blank == [key |-> NoKey, id |-> 0, len |-> 1]

\* What a header holds once a record was copied over it.
Garbage == MaxFile + 1

SaverIdle == [mode |-> "idle", todo |-> {}, at |-> NoKey]

Init ==
  /\ fileSize = [p \in Partitions |-> 0]
  /\ header   = [p \in Partitions |-> 0]
  /\ cells    = [p \in Partitions |-> [o \in 0..(MaxFile - 1) |-> Blank]]
  /\ idxFile  = [p \in Partitions |-> "absent"]
  /\ disk     = [k \in Keys |-> <<>>]
  /\ loaded   = [p \in Partitions |-> FALSE]
  /\ mem      = [k \in Keys |-> <<>>]
  /\ open     = [p \in Partitions |-> FALSE]
  /\ lastEnd  = [p \in Partitions |-> 0]
  /\ mapping  = [p \in Partitions |-> "nil"]
  /\ isUsedPut = FALSE
  /\ phase = "up"
  /\ shutFloor = [k \in Keys |-> <<>>]
  /\ wpc   = [w \in Writers |-> "idle"]
  /\ wkey  = [w \in Writers |-> NoKey]
  /\ wsize = [w \in Writers |-> 0]
  /\ wlist = [w \in Writers |-> <<>>]
  /\ rpc    = [r \in Readers |-> "idle"]
  /\ rkey   = [r \in Readers |-> NoKey]
  /\ rlist  = [r \in Readers |-> <<>>]
  /\ rfloor = [r \in Readers |-> <<>>]
  /\ rgot   = [r \in Readers |-> <<>>]
  /\ rslice = [r \in Readers |-> "none"]
  /\ saver = SaverIdle
  /\ puts = [k \in Keys |-> 0]
  /\ crashes = 0
  /\ faulted = FALSE
  /\ acked = [k \in Keys |-> <<>>]

-----------------------------------------------------------------------------
(* Reading the files back.                                                 *)

\* What loadIndexFile puts into an empty map.
SavedList(k) ==
  IF idxFile[Partition(k)] = "ok" THEN disk[k] ELSE <<>>

\* The walk of Get over one entry: from EntryStart, by record lengths, up to
\* EntryEnd.
RecordsIn(p, b) ==
  LET walk[at \in Nat] ==
        IF at >= b.fill THEN <<>>
        ELSE <<cells[p][at].id>> \o walk[at + cells[p][at].len]
  IN  walk[b.start]

\* The loop of Get over the first n entries of a list.
Records(p, list, n) ==
  LET upTo[i \in 0..n] ==
        IF i = 0 THEN <<>> ELSE upTo[i - 1] \o RecordsIn(p, list[i])
  IN  upTo[n]

\* The list a lookup of the key finds, and the records it leads to.
ListOf(k) == IF loaded[Partition(k)] THEN mem[k] ELSE SavedList(k)
LiveRecords(k) == Records(Partition(k), ListOf(k), Len(ListOf(k)))
SavedContent(k) == Records(Partition(k), disk[k], Len(disk[k]))
SavedRecords(k) == Records(Partition(k), SavedList(k), Len(SavedList(k)))

-----------------------------------------------------------------------------
(* Locks.  The index lock is held by Save over all of its file writes and  *)
(* by every other operation within one step.  A handle lock is held from   *)
(* Truncate to the header write of CheckCapacity, and by Put from the copy *)
(* to the return of Update.                                                *)

IndexFree == saver.mode = "idle"
HandleFree(p) ==
  \A w \in Writers :
    wpc[w] \in {"header", "update"} => Partition(wkey[w]) # p

\* GetIndexMapEntryList installs the map of a partition that has none and
\* then loads the file into it: an unreadable file leaves it empty.
LoadedMem_Empty(p) == mem

\* EntryEnd is not read back.
LoadedMem_NoEnd(p) ==
  [k \in Keys |->
     IF Partition(k) = p /\ ~loaded[p]
     THEN [i \in 1..Len(SavedList(k)) |->
             [SavedList(k)[i] EXCEPT !.fill = SavedList(k)[i].start]]
     ELSE mem[k]]

LoadedMem(p) ==
  [k \in Keys |-> IF Partition(k) = p /\ ~loaded[p]
                  THEN SavedList(k) ELSE mem[k]]
LoadMap(p) ==
  /\ loaded' = [loaded EXCEPT ![p] = TRUE]
  /\ mem' = LoadedMem(p)
LoadFails(p) == ~loaded[p] /\ idxFile[p] = "torn"

\* GetHandle: an existing handle as it is, else one made from the file.
HandleEnd(p) ==
  IF open[p] THEN lastEnd[p]
  ELSE IF fileSize[p] > 0 THEN header[p] ELSE HeaderLen
HandleMapping(p) ==
  IF open[p] THEN mapping[p]
  ELSE IF fileSize[p] > 0 THEN "valid" ELSE "nil"
GetHandle(p) ==
  /\ open' = [open EXCEPT ![p] = TRUE]
  /\ lastEnd' = [lastEnd EXCEPT ![p] = HandleEnd(p)]
  /\ mapping' = [mapping EXCEPT ![p] = HandleMapping(p)]

\* Munmap pulls the memory from under the slices readers hold.
SlicesAfterMunmap(P) ==
  [r \in Readers |->
     IF rslice[r] = "live" /\ Partition(rkey[r]) \in P
     THEN "unmapped" ELSE rslice[r]]

-----------------------------------------------------------------------------
(* Put.                                                                    *)

\* isUsedPut is set before Put waits for the index lock; a Save that saw it
\* then would write back the maps as they were loaded.
PutBegins(w, k, s) ==
  /\ wpc[w] = "idle"
  /\ WriterIndex(k) = w
  /\ puts[k] < MaxPuts
  /\ IndexFree
  /\ puts' = [puts EXCEPT ![k] = @ + 1]
  /\ isUsedPut' = TRUE
  /\ LoadMap(Partition(k))
  /\ UNCHANGED <<files, handles, phase, shutFloor, readers, saver, crashes,
                 faulted, acked>>

\* Put up to the return of GetIndexMapEntryList.
PutLookup(w, k, s) ==
  /\ PutBegins(w, k, s)
  /\ ~LoadFails(Partition(k))
  /\ wpc'   = [wpc   EXCEPT ![w] = "capacity"]
  /\ wkey'  = [wkey  EXCEPT ![w] = k]
  /\ wsize' = [wsize EXCEPT ![w] = s]
  /\ wlist' = [wlist EXCEPT ![w] = LoadedMem(Partition(k))[k]]

\* The index file cannot be parsed: Put returns the error, the event is
\* logged and dropped, the empty map stays.
PutLookupFails(w, k, s) ==
  /\ PutBegins(w, k, s)
  /\ LoadFails(Partition(k))
  /\ UNCHANGED writers

\* The writer is back in its loop.
WriterReturns(w) ==
  /\ wpc'   = [wpc   EXCEPT ![w] = "idle"]
  /\ wkey'  = [wkey  EXCEPT ![w] = NoKey]
  /\ wsize' = [wsize EXCEPT ![w] = 0]
  /\ wlist' = [wlist EXCEPT ![w] = <<>>]

\* CheckCapacity: is there room in the last block?
HasRoom_OffByOne(list, n) ==
  list # <<>> /\ list[Len(list)].fill + n <= list[Len(list)].end + 1

HasRoom(list, n) ==
  list # <<>> /\ list[Len(list)].fill + n <= list[Len(list)].end

AtCapacity(w) ==
  /\ wpc[w] = "capacity"
  /\ HandleFree(Partition(wkey[w]))

KeepBlock(w) ==
  /\ AtCapacity(w)
  /\ HasRoom(wlist[w], wsize[w])
  /\ GetHandle(Partition(wkey[w]))
  /\ wpc' = [wpc EXCEPT ![w] = "copy"]
  /\ UNCHANGED <<files, index, pool, wkey, wsize, wlist, readers, saver,
                 bounds>>

\* The size before Truncate is taken for the size after it.
NewBlock_OldSize(p) ==
  [start |-> fileSize[p] - Growth, end |-> HandleEnd(p) + Growth,
   fill |-> fileSize[p] - Growth]

NewBlock(p) ==
  [start |-> HandleEnd(p), end |-> HandleEnd(p) + Growth,
   fill |-> HandleEnd(p)]

\* The rest of CheckCapacity but its header write: Munmap, Truncate, Mmap,
\* the new entry, lastBlockEnd.
GrowFile(w) ==
  LET p == Partition(wkey[w])
      b == NewBlock(p)
  IN  /\ AtCapacity(w)
      /\ ~HasRoom(wlist[w], wsize[w])
      /\ HandleMapping(p) # "stale"
      /\ b.end <= MaxFile
      /\ fileSize' = [fileSize EXCEPT ![p] = b.end]
      /\ open' = [open EXCEPT ![p] = TRUE]
      /\ lastEnd' = [lastEnd EXCEPT ![p] = b.end]
      /\ mapping' = [mapping EXCEPT ![p] = "valid"]
      /\ rslice' = SlicesAfterMunmap({p})
      /\ wlist' = [wlist EXCEPT ![w] = Append(@, b)]
      /\ wpc' = [wpc EXCEPT ![w] = "header"]
      /\ UNCHANGED <<header, cells, idxFile, disk, index, pool, wkey, wsize,
                     rpc, rkey, rlist, rfloor, rgot, saver, bounds>>

\* PutUint64 of lastBlockEnd; CheckCapacity returns.
WriteHeader_Stale(w) ==
  LET p == Partition(wkey[w])
  IN  /\ wpc[w] = "header"
      /\ mapping[p] = "valid"
      /\ header' = [header EXCEPT ![p] = wlist[w][Len(wlist[w])].start]
      /\ wpc' = [wpc EXCEPT ![w] = "copy"]
      /\ UNCHANGED <<fileSize, cells, idxFile, disk, index, handles, pool,
                     wkey, wsize, wlist, readers, saver, bounds>>

WriteHeader(w) ==
  LET p == Partition(wkey[w])
  IN  /\ wpc[w] = "header"
      /\ mapping[p] = "valid"
      /\ header' = [header EXCEPT ![p] = lastEnd[p]]
      /\ wpc' = [wpc EXCEPT ![w] = "copy"]
      /\ UNCHANGED <<fileSize, cells, idxFile, disk, index, handles, pool,
                     wkey, wsize, wlist, readers, saver, bounds>>

\* Put returns the error of GetHandle.
OpenFails(w) ==
  /\ AtCapacity(w)
  /\ "open" \in Faults
  /\ ~open[Partition(wkey[w])]
  /\ WriterReturns(w)
  /\ UNCHANGED <<files, index, handles, pool, readers, saver, bounds>>

\* Munmap of a mapping that is already gone: CheckCapacity fails without
\* touching anything, and will fail again.
RemapFails(w) ==
  LET p == Partition(wkey[w])
  IN  /\ AtCapacity(w)
      /\ ~HasRoom(wlist[w], wsize[w])
      /\ HandleMapping(p) = "stale"
      /\ WriterReturns(w)
      /\ UNCHANGED <<files, index, handles, pool, readers, saver, bounds>>

\* Munmap succeeds, then Truncate (n = old size) or Mmap (n = new size)
\* fails.  mappedBuffer is left as it was: nil, or unmapped memory.
GrowFails(w, n) ==
  LET p == Partition(wkey[w])
      b == NewBlock(p)
  IN  /\ AtCapacity(w)
      /\ ~HasRoom(wlist[w], wsize[w])
      /\ HandleMapping(p) # "stale"
      /\ b.end > MaxFile \/ "grow" \in Faults
      /\ \/ n = fileSize[p]
         \/ n = b.end /\ b.end <= MaxFile
      /\ fileSize' = [fileSize EXCEPT ![p] = n]
      /\ open' = [open EXCEPT ![p] = TRUE]
      /\ lastEnd' = [lastEnd EXCEPT ![p] = HandleEnd(p)]
      /\ mapping' = [mapping EXCEPT ![p] =
                       IF HandleMapping(p) = "valid" THEN "stale" ELSE "nil"]
      /\ rslice' = SlicesAfterMunmap({p})
      /\ WriterReturns(w)
      /\ UNCHANGED <<header, cells, idxFile, disk, index, pool, rpc, rkey,
                     rlist, rfloor, rgot, saver, bounds>>

\* copy(handle.mappedBuffer[offset:], data): the cells of a file after the
\* writer's record was put at its offset.
Offset(w) == wlist[w][Len(wlist[w])].fill
CellsAfterCopy(w) ==
  LET k == wkey[w]
  IN  [o \in 0..(MaxFile - 1) |->
         IF o = Offset(w)
         THEN [key |-> k, id |-> puts[k], len |-> wsize[w]]
         ELSE IF o \in (Offset(w) + 1)..(Offset(w) + wsize[w] - 1)
              THEN [key |-> k, id |-> 0, len |-> 1]
              ELSE cells[Partition(k)][o]]

\* EntryEnd is advanced in the entry itself.  The list of the writer, the map
\* and the lists readers hold share an entry: the one with the same start.
Advanced(list, start, n) ==
  [i \in 1..Len(list) |->
     IF list[i].start = start THEN [list[i] EXCEPT !.fill = @ + n]
     ELSE list[i]]

\* Put from handle.lock to the call of Update.
Copy(w) ==
  LET k == wkey[w]
      p == Partition(k)
      s == wlist[w][Len(wlist[w])].start
  IN  /\ wpc[w] = "copy"
      /\ HandleFree(p)
      /\ mapping[p] = "valid"
      /\ cells' = [cells EXCEPT ![p] = CellsAfterCopy(w)]
      /\ header' = [header EXCEPT ![p] =
                      IF Offset(w) < HeaderLen THEN Garbage ELSE @]
      /\ wlist' = [wlist EXCEPT ![w] = Advanced(@, s, wsize[w])]
      /\ mem' = [mem EXCEPT ![k] = Advanced(@, s, wsize[w])]
      /\ rlist' = [r \in Readers |->
                     IF rkey[r] = k THEN Advanced(rlist[r], s, wsize[w])
                     ELSE rlist[r]]
      /\ wpc' = [wpc EXCEPT ![w] = "update"]
      /\ UNCHANGED <<fileSize, idxFile, disk, loaded, handles, pool, wkey,
                     wsize, rpc, rkey, rfloor, rgot, rslice, saver, bounds>>

\* Update, and the return of Put.
Update_KeepsOld(w) ==
  /\ wpc[w] = "update"
  /\ IndexFree
  /\ loaded[Partition(wkey[w])]
  /\ mem' = [mem EXCEPT ![wkey[w]] = IF @ = <<>> THEN wlist[w] ELSE @]
  /\ acked' = [acked EXCEPT ![wkey[w]] = Append(@, puts[wkey[w]])]
  /\ WriterReturns(w)
  /\ UNCHANGED <<files, loaded, handles, pool, readers, saver, puts, crashes,
                 faulted>>

Update(w) ==
  /\ wpc[w] = "update"
  /\ IndexFree
  /\ loaded[Partition(wkey[w])]
  /\ mem' = [mem EXCEPT ![wkey[w]] = wlist[w]]
  /\ acked' = [acked EXCEPT ![wkey[w]] = Append(@, puts[wkey[w]])]
  /\ WriterReturns(w)
  /\ UNCHANGED <<files, loaded, handles, pool, readers, saver, puts, crashes,
                 faulted>>

-----------------------------------------------------------------------------
(* Get and GetKeys.                                                        *)

GetBegins(k) ==
  /\ IndexFree
  /\ LoadMap(Partition(k))
  /\ UNCHANGED <<files, handles, pool, writers, saver, bounds>>

GetLookup(r, k) ==
  /\ rpc[r] = "idle"
  /\ ~LoadFails(Partition(k))
  /\ GetBegins(k)
  /\ rpc'  = [rpc  EXCEPT ![r] = "scan"]
  /\ rkey' = [rkey EXCEPT ![r] = k]
  /\ rlist' = [rlist EXCEPT ![r] = ListOf(k)]
  /\ rfloor' = [rfloor EXCEPT ![r] = acked[k]]
  /\ UNCHANGED <<rgot, rslice>>

\* The query gets the error of the unreadable index file, once.
GetLookupFails(r, k) ==
  /\ rpc[r] = "idle"
  /\ LoadFails(Partition(k))
  /\ GetBegins(k)
  /\ UNCHANGED readers

\* The scan of Get under the read lock.  It returns slices of the mapping.
Scanned(r) == Records(Partition(rkey[r]), rlist[r], Len(rlist[r]))

Scan(r) ==
  LET p == Partition(rkey[r])
  IN  /\ rpc[r] = "scan"
      /\ HandleFree(p)
      /\ GetHandle(p)
      /\ HandleMapping(p) = "valid" \/ rlist[r] = <<>>
      /\ rgot' = [rgot EXCEPT ![r] = Scanned(r)]
      /\ rslice' = [rslice EXCEPT ![r] =
                      IF Scanned(r) = <<>> THEN "none" ELSE "live"]
      /\ rpc' = [rpc EXCEPT ![r] = "decode"]
      /\ UNCHANGED <<files, index, pool, writers, rkey, rlist, rfloor, saver,
                     bounds>>

ReaderReturns(r) ==
  /\ rpc'    = [rpc    EXCEPT ![r] = "idle"]
  /\ rkey'   = [rkey   EXCEPT ![r] = NoKey]
  /\ rlist'  = [rlist  EXCEPT ![r] = <<>>]
  /\ rfloor' = [rfloor EXCEPT ![r] = <<>>]
  /\ rgot'   = [rgot   EXCEPT ![r] = <<>>]
  /\ rslice' = [rslice EXCEPT ![r] = "none"]
  /\ UNCHANGED <<files, index, handles, pool, writers, saver, bounds>>

\* Get returns the error of GetHandle.
ScanFails(r) ==
  /\ rpc[r] = "scan"
  /\ "open" \in Faults
  /\ ~open[Partition(rkey[r])]
  /\ ReaderReturns(r)

\* The data fetcher decodes the slices, after Get released the lock.  Where
\* the memory was unmapped, another mapping may have taken its place.
Decode(r) == rpc[r] = "decode" /\ ReaderReturns(r)

\* GetAllKeys: every partition whose map is empty is loaded, and the loop
\* stops at the first unreadable file.  With no map at all, an empty one is
\* installed for every partition first; with some, only those are visited.
Visited == IF \E p \in Partitions : loaded[p]
           THEN {p \in Partitions : loaded[p]} ELSE Partitions
ToLoad == {p \in Visited : \A k \in KeysOf(p) : mem[k] = <<>>}
TornToLoad == {p \in ToLoad : idxFile[p] = "torn"}

GetKeys(done) ==
  /\ IndexFree
  /\ IF TornToLoad = {} THEN done = ToLoad
     ELSE done \subseteq ToLoad \ TornToLoad
  /\ loaded' = [p \in Partitions |-> p \in Visited]
  /\ mem' = [k \in Keys |-> IF Partition(k) \in done
                            THEN SavedList(k) ELSE mem[k]]
  /\ UNCHANGED <<files, handles, pool, writers, readers, saver, bounds>>

-----------------------------------------------------------------------------
(* Save, by the ticker of the pool or by its Shutdown.                     *)

SaveBegins(mode) ==
  /\ IndexFree
  /\ isUsedPut
  /\ saver' = [mode |-> mode, at |-> NoKey,
               todo |-> {p \in Partitions : loaded[p]}]

\* The ticker of the pool.  A flush that waited for the pool lock until
\* Shutdown released it finds lastSave just set and saves nothing.
Flush ==
  /\ phase = "up"
  /\ SaveBegins("flush")
  /\ UNCHANGED <<files, index, handles, pool, writers, readers, bounds>>

\* Shutdown of the pool takes the pool lock, so no flush is under way.
Shutdown ==
  /\ phase = "up"
  /\ phase' = "saving"
  /\ shutFloor' = acked
  /\ IF isUsedPut THEN SaveBegins("shutdown")
     ELSE IndexFree /\ UNCHANGED saver
  /\ UNCHANGED <<files, index, handles, isUsedPut, writers, readers, bounds>>

\* Save encodes the map of one partition, and os.WriteFile truncates its
\* file.  Writers may advance entries of the map before the write.
SaveTruncate(p) ==
  /\ saver.mode # "idle"
  /\ saver.at = NoKey
  /\ p \in saver.todo
  /\ idxFile' = [idxFile EXCEPT ![p] = "torn"]
  /\ disk' = [k \in Keys |-> IF Partition(k) = p THEN mem[k] ELSE disk[k]]
  /\ saver' = [saver EXCEPT !.at = p]
  /\ UNCHANGED <<fileSize, header, cells, index, handles, pool, writers,
                 readers, bounds>>

\* The rest of os.WriteFile: what was encoded is in the file.
SaveWrite(p) ==
  /\ saver.mode # "idle"
  /\ saver.at = p
  /\ idxFile' = [idxFile EXCEPT ![p] = "ok"]
  /\ saver' = [saver EXCEPT !.at = NoKey, !.todo = @ \ {p}]
  /\ UNCHANGED <<fileSize, header, cells, disk, index, handles, pool,
                 writers, readers, bounds>>

\* The error is logged; the file being written stays truncated and the
\* partitions not yet reached are not saved.
SaveFails ==
  /\ "save" \in Faults
  /\ saver.mode # "idle"
  /\ saver.todo # {}
  /\ saver' = SaverIdle
  /\ UNCHANGED <<files, index, handles, pool, writers, readers, bounds>>

SaveEnds_NoUnlock ==
  /\ saver.mode # "idle"
  /\ saver.at = NoKey
  /\ saver.todo = {}
  /\ UNCHANGED vars

SaveEnds ==
  /\ saver.mode # "idle"
  /\ saver.at = NoKey
  /\ saver.todo = {}
  /\ saver' = SaverIdle
  /\ UNCHANGED <<files, index, handles, pool, writers, readers, bounds>>

\* fileManager.Close, which takes no handle lock.  It leaves mappedBuffer as
\* it was.
CloseFiles ==
  /\ phase = "saving"
  /\ IndexFree
  /\ phase' = "closing"
  /\ mapping' = [p \in Partitions |->
                   IF open[p] /\ mapping[p] = "valid" THEN "stale"
                   ELSE mapping[p]]
  /\ rslice' = SlicesAfterMunmap({p \in Partitions : open[p]})
  /\ UNCHANGED <<files, index, open, lastEnd, isUsedPut, shutFloor, writers,
                 rpc, rkey, rlist, rfloor, rgot, saver, bounds>>

\* indexManager.Close.
CloseIndex ==
  /\ phase = "closing"
  /\ IndexFree
  /\ phase' = "closed"
  /\ loaded' = [p \in Partitions |-> FALSE]
  /\ mem' = [k \in Keys |-> <<>>]
  /\ UNCHANGED <<files, handles, isUsedPut, shutFloor, writers, readers,
                 saver, bounds>>

-----------------------------------------------------------------------------
(* The end of the process, and its restart.                                *)

MayDie ==
  /\ saver.at # NoKey => "tornIndex" \in Faults
  /\ \A p \in Partitions :
       fileSize[p] > 0 /\ header[p] = 0 => "tornHeader" \in Faults

Restart ==
  /\ MayDie
  /\ loaded'  = [p \in Partitions |-> FALSE]
  /\ mem'     = [k \in Keys |-> <<>>]
  /\ open'    = [p \in Partitions |-> FALSE]
  /\ lastEnd' = [p \in Partitions |-> 0]
  /\ mapping' = [p \in Partitions |-> "nil"]
  /\ isUsedPut' = FALSE
  /\ phase' = "up"
  /\ shutFloor' = [k \in Keys |-> <<>>]
  /\ wpc'   = [w \in Writers |-> "idle"]
  /\ wkey'  = [w \in Writers |-> NoKey]
  /\ wsize' = [w \in Writers |-> 0]
  /\ wlist' = [w \in Writers |-> <<>>]
  /\ rpc'    = [r \in Readers |-> "idle"]
  /\ rkey'   = [r \in Readers |-> NoKey]
  /\ rlist'  = [r \in Readers |-> <<>>]
  /\ rfloor' = [r \in Readers |-> <<>>]
  /\ rgot'   = [r \in Readers |-> <<>>]
  /\ rslice' = [r \in Readers |-> "none"]
  /\ saver'  = SaverIdle
  /\ acked' = [k \in Keys |-> SavedRecords(k)]
  /\ UNCHANGED <<files, puts>>

Crash ==
  /\ crashes < MaxCrashes
  /\ crashes' = crashes + 1
  /\ Restart
  /\ UNCHANGED faulted

\* SIGSEGV on unmapped memory.
WriterFaults(w) ==
  /\ \/ wpc[w] = "header"
     \/ wpc[w] = "copy" /\ HandleFree(Partition(wkey[w]))
  /\ mapping[Partition(wkey[w])] # "valid"
ScanFaults(r) ==
  /\ rpc[r] = "scan"
  /\ HandleFree(Partition(rkey[r]))
  /\ HandleMapping(Partition(rkey[r])) # "valid"
  /\ rlist[r] # <<>>
DecodeFaults(r) ==
  rpc[r] = "decode" /\ rslice[r] = "unmapped"

\* Update stores into the map of a partition that has none: a nil map.
UpdatePanics(w) ==
  /\ wpc[w] = "update"
  /\ IndexFree
  /\ ~loaded[Partition(wkey[w])]

Fault ==
  /\ \/ \E w \in Writers : WriterFaults(w) \/ UpdatePanics(w)
     \/ \E r \in Readers : ScanFaults(r) \/ DecodeFaults(r)
  /\ faulted' = TRUE
  /\ Restart
  /\ UNCHANGED crashes

-----------------------------------------------------------------------------
WriterStep(w) ==
  \/ KeepBlock(w) \/ GrowFile(w) \/ WriteHeader(w)
  \/ Copy(w) \/ Update(w)
  \/ OpenFails(w) \/ RemapFails(w)
  \/ \E n \in 0..MaxFile : GrowFails(w, n)

ReaderStep(r) == Scan(r) \/ ScanFails(r) \/ Decode(r)

SaverStep ==
  \/ \E p \in Partitions : SaveTruncate(p) \/ SaveWrite(p)
  \/ SaveFails \/ SaveEnds

Next ==
  \/ \E w \in Writers, k \in Keys, s \in RecordSizes :
       PutLookup(w, k, s) \/ PutLookupFails(w, k, s)
  \/ \E w \in Writers : WriterStep(w)
  \/ \E r \in Readers, k \in Keys : GetLookup(r, k) \/ GetLookupFails(r, k)
  \/ \E r \in Readers : ReaderStep(r)
  \/ \E done \in SUBSET Partitions : GetKeys(done)
  \/ SaverStep
  \/ Flush \/ Shutdown \/ CloseFiles \/ CloseIndex
  \/ Crash \/ Fault

Spec == Init /\ [][Next]_vars

\* Every goroutine that can run will.  A goroutine that waits for a lock gets
\* it although others take it again and again: after a millisecond of waiting
\* a Go mutex is handed to the waiter.  The ticker, events, queries, errors
\* and crashes come when they come.
Fairness ==
  /\ \A w \in Writers : SF_vars(WriterStep(w))
  /\ \A r \in Readers : SF_vars(ReaderStep(r))
  /\ WF_vars(SaverStep)
  /\ WF_vars(Fault)

FairSpec == Spec /\ Fairness

-----------------------------------------------------------------------------
(* Properties.                                                             *)

FilesType ==
  /\ fileSize \in [Partitions -> 0..MaxFile]
  /\ header \in [Partitions -> 0..Garbage]
  /\ cells \in [Partitions -> [0..(MaxFile - 1) -> Cell]]
  /\ idxFile \in [Partitions -> {"absent", "torn", "ok"}]
  /\ disk \in [Keys -> Seq(Block)]
IndexType ==
  /\ loaded \in [Partitions -> BOOLEAN]
  /\ mem \in [Keys -> Seq(Block)]
HandlesType ==
  /\ open \in [Partitions -> BOOLEAN]
  /\ lastEnd \in [Partitions -> 0..Garbage]
  /\ mapping \in [Partitions -> {"nil", "valid", "stale"}]
PoolType ==
  /\ isUsedPut \in BOOLEAN
  /\ phase \in {"up", "saving", "closing", "closed"}
WritersType ==
  /\ wpc \in [Writers -> {"idle", "capacity", "header", "copy", "update"}]
  /\ wkey \in [Writers -> Keys \cup {NoKey}]
  /\ wsize \in [Writers -> RecordSizes \cup {0}]
  /\ wlist \in [Writers -> Seq(Block)]
ReadersType ==
  /\ rpc \in [Readers -> {"idle", "scan", "decode"}]
  /\ rkey \in [Readers -> Keys \cup {NoKey}]
  /\ rlist \in [Readers -> Seq(Block)]
  /\ rslice \in [Readers -> {"none", "live", "unmapped"}]
SaverType ==
  saver \in [mode : {"idle", "flush", "shutdown"},
             at : Partitions \cup {NoKey}, todo : SUBSET Partitions]
BoundsType ==
  /\ puts \in [Keys -> 0..MaxPuts]
  /\ crashes \in 0..MaxCrashes
  /\ faulted \in BOOLEAN

\* The variables have the types their comments give.
TypeOK ==
  /\ FilesType /\ IndexType /\ HandlesType /\ PoolType
  /\ WritersType /\ ReadersType /\ SaverType /\ BoundsType

\* The lists that name blocks of a key: the map, the index file, and the list
\* of a writer that is storing a record of the key.
ListsOf(k) ==
  {mem[k], disk[k]} \cup {wlist[w] : w \in {v \in Writers : wkey[v] = k}}
BlocksOf(k) == UNION {{l[i] : i \in 1..Len(l)} : l \in ListsOf(k)}

\* No byte of a data file belongs to two blocks or to a block and the header,
\* whichever list, in memory or saved before any number of restarts, names
\* the block (CheckCapacity hands out blocks from a header that is written
\* apart from the index).
BlocksDisjoint ==
  \A k \in Keys : \A b \in BlocksOf(k) :
    /\ HeaderLen <= b.start
    /\ b.end <= fileSize[Partition(k)]
    /\ \A m \in KeysOf(Partition(k)) : \A c \in BlocksOf(m) :
         \/ b.end <= c.start
         \/ c.end <= b.start
         \/ k = m /\ b.start = c.start /\ b.end = c.end

\* Whatever list leads a query to a byte of a key, that byte was written by a
\* Put of that key: a query never returns another object's record.
OwnCells ==
  \A k \in Keys : \A b \in BlocksOf(k) : \A o \in b.start..(b.fill - 1) :
    cells[Partition(k)][o].key = k

\* A record that the saved index covers is never overwritten, by any writer,
\* before or after a restart.
SavedCellsStable ==
  [][\A k \in Keys : \A i \in 1..Len(disk[k]) :
       \A o \in disk[k][i].start..(disk[k][i].fill - 1) :
         cells'[Partition(k)][o] = cells[Partition(k)][o]]_vars

\* Saving the index never drops a block, or a part of one, that an earlier
\* save recorded.
SaveForgetsNothing ==
  [][\A k \in Keys : \A i \in 1..Len(disk[k]) :
       /\ i <= Len(disk'[k])
       /\ disk'[k][i].start = disk[k][i].start
       /\ disk'[k][i].fill >= disk[k][i].fill]_vars

\* The root README, line 40, says that ReportDB "supports parallel
\* reads/writes": the records a Get returned stay readable until they are
\* decoded, whatever writers do.
ParallelReadsSafe == \A r \in Readers : ~DecodeFaults(r)

\* A Put or a Get that was begun returns, or its process dies: Put takes the
\* handle lock and then the index lock, Save holds the index lock over slow
\* file writes, and nobody waits for ever.
CallsReturn ==
  /\ \A w \in Writers : wpc[w] # "idle" ~> wpc[w] = "idle"
  /\ \A r \in Readers : rpc[r] # "idle" ~> rpc[r] = "idle"
=============================================================================
