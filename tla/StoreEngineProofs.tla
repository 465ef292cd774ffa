-------------------------- MODULE StoreEngineProofs -------------------------
(***************************************************************************)
(* What StoreEngine guarantees for every number of keys, partitions,       *)
(* writers and readers, every growth size and every bound, proved.         *)
(***************************************************************************)
EXTENDS StoreEngine, TLAPS

USE DEF HeaderLen, NoKey

-----------------------------------------------------------------------------
(* The operators of the model return what their comments say.              *)

LEMMA PartitionType == \A k \in Keys : Partition(k) \in Partitions
  BY KeysAssumption, PartitionsAssumption DEF Partition, Partitions

LEMMA AdvancedType ==
  ASSUME NEW l \in Seq(Block), NEW s, NEW n \in Nat
  PROVE  /\ Advanced(l, s, n) \in Seq(Block)
         /\ Len(Advanced(l, s, n)) = Len(l)
         /\ \A i \in 1..Len(l) :
              Advanced(l, s, n)[i] =
                IF l[i].start = s THEN [l[i] EXCEPT !.fill = @ + n] ELSE l[i]
<1> DEFINE e(i) == IF l[i].start = s THEN [l[i] EXCEPT !.fill = @ + n]
                   ELSE l[i]
<1>1. \A i \in 1..Len(l) : l[i] \in Block
  OBVIOUS
<1>2. \A b \in Block : [b EXCEPT !.fill = @ + n] \in Block
  BY DEF Block
<1>3. \A i \in 1..Len(l) : e(i) \in Block
  BY <1>1, <1>2
<1>4. Len(l) \in Nat
  OBVIOUS
<1>5. Advanced(l, s, n) = [i \in 1..Len(l) |-> e(i)]
  BY DEF Advanced
<1> HIDE DEF e
<1>6. [i \in 1..Len(l) |-> e(i)] \in Seq(Block)
  BY <1>3, <1>4
<1>7. /\ Len([i \in 1..Len(l) |-> e(i)]) = Len(l)
      /\ \A j \in 1..Len(l) : [i \in 1..Len(l) |-> e(i)][j] = e(j)
  BY <1>3, <1>4, <1>6
<1> QED BY <1>5, <1>6, <1>7 DEF e

LEMMA EmptyList == <<>> \in Seq(Block)
  OBVIOUS

LEMMA SizeType ==
  \A s \in RecordSizes : s \in Nat /\ 1 <= s /\ s <= Growth
  BY SizesAssumption

LEMMA HandleType ==
  ASSUME FilesType, HandlesType, NEW p \in Partitions
  PROVE  /\ HandleEnd(p) \in 0..Garbage
         /\ HandleMapping(p) \in {"nil", "valid", "stale"}
  BY SizesAssumption
  DEF FilesType, HandlesType, HandleEnd, HandleMapping, Garbage

LEMMA GetHandleType ==
  ASSUME FilesType, HandlesType, NEW p \in Partitions, GetHandle(p)
  PROVE  HandlesType'
  BY HandleType DEF HandlesType, GetHandle

LEMMA SavedListType ==
  ASSUME FilesType, NEW k \in Keys
  PROVE  SavedList(k) \in Seq(Block)
  BY DEF FilesType, SavedList

LEMMA LoadMapType ==
  ASSUME FilesType, IndexType, NEW p \in Partitions
  PROVE  /\ LoadedMem(p) \in [Keys -> Seq(Block)]
         /\ LoadMap(p) => IndexType'
  BY SavedListType DEF IndexType, LoadedMem, LoadMap

LEMMA SlicesType ==
  ASSUME ReadersType, NEW P
  PROVE  SlicesAfterMunmap(P) \in [Readers -> {"none", "live", "unmapped"}]
  BY DEF ReadersType, SlicesAfterMunmap

LEMMA NewBlockType ==
  ASSUME FilesType, HandlesType, NEW p \in Partitions
  PROVE  NewBlock(p) \in Block
  BY HandleType, SizesAssumption DEF NewBlock, Block, Garbage

-----------------------------------------------------------------------------
(* Which actions change which part of the state.                           *)

LEMMA FilesFrame ==
  ASSUME [Next]_vars
  PROVE  \/ UNCHANGED files
         \/ \E w \in Writers :
              \/ GrowFile(w) \/ WriteHeader(w) \/ Copy(w)
              \/ \E n \in 0..MaxFile : GrowFails(w, n)
         \/ \E p \in Partitions : SaveTruncate(p) \/ SaveWrite(p)
  BY DEF vars, Next, WriterStep, ReaderStep, SaverStep, PutLookup,
         PutLookupFails, PutBegins, KeepBlock, Update, OpenFails, RemapFails,
         GetLookup, GetLookupFails, GetBegins, Scan, ScanFails, Decode,
         ReaderReturns, GetKeys, Flush, Shutdown, CloseFiles, CloseIndex,
         SaveFails, SaveEnds, Crash, Fault, Restart

LEMMA IndexFrame ==
  ASSUME [Next]_vars
  PROVE  \/ UNCHANGED index
         \/ \E k \in Keys : LoadMap(Partition(k))
         \/ \E w \in Writers : Copy(w) \/ Update(w)
         \/ \E done \in SUBSET Partitions : GetKeys(done)
         \/ CloseIndex \/ Restart
  BY DEF vars, Next, WriterStep, ReaderStep, SaverStep, PutLookup,
         PutLookupFails, PutBegins, KeepBlock, GrowFile, WriteHeader,
         OpenFails, RemapFails, GrowFails, GetLookup, GetLookupFails,
         GetBegins, Scan, ScanFails, Decode, ReaderReturns, SaveTruncate,
         SaveWrite, CloseFiles, Flush, Shutdown, SaveFails, SaveEnds, Crash,
         Fault

LEMMA HandlesFrame ==
  ASSUME [Next]_vars
  PROVE  \/ UNCHANGED handles
         \/ \E w \in Writers :
              \/ KeepBlock(w) \/ GrowFile(w)
              \/ \E n \in 0..MaxFile : GrowFails(w, n)
         \/ \E r \in Readers : Scan(r)
         \/ CloseFiles \/ Restart
  BY DEF vars, Next, WriterStep, ReaderStep, SaverStep, PutLookup,
         PutLookupFails, PutBegins, WriteHeader, Copy, Update, OpenFails,
         RemapFails, GetLookup, GetLookupFails, GetBegins, ScanFails, Decode,
         ReaderReturns, GetKeys, CloseIndex, Flush, Shutdown, SaveTruncate,
         SaveWrite, SaveFails, SaveEnds, Crash, Fault

LEMMA WritersFrame ==
  ASSUME [Next]_vars
  PROVE  \/ UNCHANGED writers
         \/ \E w \in Writers, k \in Keys, s \in RecordSizes :
              PutLookup(w, k, s)
         \/ \E w \in Writers : WriterStep(w)
         \/ Restart
  BY DEF vars, Next, ReaderStep, SaverStep, PutLookupFails, GetLookup,
         GetLookupFails, GetBegins, Scan, ScanFails, Decode, ReaderReturns,
         GetKeys, Flush, Shutdown, CloseFiles, CloseIndex, SaveTruncate,
         SaveWrite, SaveFails, SaveEnds, Crash, Fault

LEMMA ReadersFrame ==
  ASSUME [Next]_vars
  PROVE  \/ UNCHANGED readers
         \/ \E w \in Writers :
              \/ GrowFile(w) \/ Copy(w)
              \/ \E n \in 0..MaxFile : GrowFails(w, n)
         \/ \E r \in Readers, k \in Keys : GetLookup(r, k)
         \/ \E r \in Readers : ReaderStep(r)
         \/ CloseFiles \/ Restart
  BY DEF vars, Next, WriterStep, SaverStep, PutLookup, PutLookupFails,
         PutBegins, KeepBlock, WriteHeader, Update, OpenFails, RemapFails,
         GetLookupFails, GetKeys, CloseIndex, Flush, Shutdown, SaveTruncate,
         SaveWrite, SaveFails, SaveEnds, Crash, Fault

-----------------------------------------------------------------------------
(* Type correctness.                                                       *)

\* What a writer or a reader is working on is a key, and a writer only gets
\* the keys that are routed to it.
Working ==
  /\ \A w \in Writers : wpc[w] # "idle" =>
       /\ wkey[w] \in Keys
       /\ wsize[w] \in RecordSizes
       /\ (CounterId + wkey[w]) % NumWriters = w
  /\ \A w \in Writers : wpc[w] = "idle" => wkey[w] = NoKey
  /\ \A r \in Readers : rpc[r] # "idle" => rkey[r] \in Keys

TypeInv == TypeOK /\ Working

LEMMA BusyWriter ==
  ASSUME Working, NEW w \in Writers, wpc[w] # "idle"
  PROVE  /\ wkey[w] \in Keys
         /\ Partition(wkey[w]) \in Partitions
         /\ wsize[w] \in RecordSizes
         /\ wsize[w] \in Nat /\ 1 <= wsize[w]
<1>1. wkey[w] \in Keys /\ wsize[w] \in RecordSizes
  BY DEF Working
<1> QED BY <1>1, PartitionType, SizeType

LEMMA TypeInit == Init => TypeInv
<1> SUFFICES ASSUME Init PROVE TypeInv
  OBVIOUS
<1> USE DEF Init
<1>1. FilesType
  BY EmptyList, SizesAssumption DEF FilesType, Cell, Blank, Garbage
<1>2. IndexType /\ PoolType
  BY EmptyList, Zenon DEF IndexType, PoolType
<1>7. HandlesType
  <2>1. open \in [Partitions -> BOOLEAN]
    BY Zenon
  <2> QED BY <2>1, SizesAssumption DEF HandlesType, Garbage
<1>3. WritersType /\ ReadersType
  BY EmptyList DEF WritersType, ReadersType
<1>5. SaverType
  BY DEF SaverType, SaverIdle
<1>6. BoundsType
  <2>1. faulted \in BOOLEAN
    BY Zenon
  <2> QED BY <2>1, BoundsAssumption DEF BoundsType
<1>4. Working
  BY DEF Working
<1> QED BY <1>1, <1>2, <1>3, <1>4, <1>5, <1>6, <1>7
      DEF TypeInv, TypeOK

LEMMA FilesTypeNext ==
  ASSUME TypeInv, [Next]_vars
  PROVE  FilesType'
<1> USE DEF TypeInv, TypeOK
<1>1. CASE UNCHANGED files
  BY <1>1 DEF files, FilesType
<1>2. ASSUME NEW w \in Writers, GrowFile(w)
      PROVE  FilesType'
  <2>1. Partition(wkey[w]) \in Partitions
    BY <1>2, PartitionType DEF GrowFile, AtCapacity, Working
  <2>2. NewBlock(Partition(wkey[w])).end \in 0..MaxFile
    BY <1>2, <2>1, NewBlockType, SizesAssumption DEF GrowFile, Block
  <2> QED BY <1>2, <2>1, <2>2 DEF GrowFile, FilesType
<1>3. ASSUME NEW w \in Writers, WriteHeader(w)
      PROVE  FilesType'
  BY <1>3, PartitionType
  DEF WriteHeader, FilesType, HandlesType, Working
<1>4. ASSUME NEW w \in Writers, Copy(w)
      PROVE  FilesType'
  <2>1. /\ wkey[w] \in Keys
        /\ Partition(wkey[w]) \in Partitions
        /\ wsize[w] \in Nat
    BY <1>4, BusyWriter DEF Copy
  <2>2. CellsAfterCopy(w) \in [0..(MaxFile - 1) -> Cell]
    <3>1. puts[wkey[w]] \in Nat
      BY <2>1, BoundsAssumption DEF BoundsType
    <3>2. /\ [key |-> wkey[w], id |-> puts[wkey[w]], len |-> wsize[w]] \in Cell
          /\ [key |-> wkey[w], id |-> 0, len |-> 1] \in Cell
      BY <2>1, <3>1 DEF Cell
    <3> QED BY <2>1, <3>2 DEF CellsAfterCopy, FilesType
  <2>3. header' \in [Partitions -> 0..Garbage]
    BY <1>4, <2>1, SizesAssumption DEF Copy, FilesType, Garbage
  <2> QED BY <1>4, <2>1, <2>2, <2>3 DEF Copy, FilesType
<1>5. ASSUME NEW w \in Writers, NEW n \in 0..MaxFile, GrowFails(w, n)
      PROVE  FilesType'
  BY <1>5, PartitionType DEF GrowFails, FilesType
<1>6. ASSUME NEW p \in Partitions, SaveTruncate(p) \/ SaveWrite(p)
      PROVE  FilesType'
  BY <1>6 DEF SaveTruncate, SaveWrite, FilesType, IndexType, index
<1> QED BY <1>1, <1>2, <1>3, <1>4, <1>5, <1>6, FilesFrame

LEMMA IndexTypeNext ==
  ASSUME TypeInv, [Next]_vars
  PROVE  IndexType'
<1> USE DEF TypeInv, TypeOK
<1>1. CASE UNCHANGED index
  BY <1>1 DEF index, IndexType
<1>6. CASE CloseIndex \/ Restart
  <2>1. loaded' = [p \in Partitions |-> FALSE]
    BY <1>6 DEF CloseIndex, Restart
  <2>2. loaded' \in [Partitions -> BOOLEAN]
    BY <2>1, Zenon
  <2>3. mem' = [k \in Keys |-> <<>>]
    BY <1>6 DEF CloseIndex, Restart
  <2>4. mem' \in [Keys -> Seq(Block)]
    BY <2>3, EmptyList
  <2> QED BY <2>2, <2>4 DEF IndexType
<1>2. ASSUME NEW k \in Keys, LoadMap(Partition(k))
      PROVE  IndexType'
  BY <1>2, PartitionType, LoadMapType
<1>3. ASSUME NEW w \in Writers, Copy(w)
      PROVE  IndexType'
  <2>1. wkey[w] \in Keys /\ wsize[w] \in Nat
    BY <1>3, BusyWriter DEF Copy
  <2> QED BY <1>3, <2>1, AdvancedType DEF Copy, IndexType
<1>4. ASSUME NEW w \in Writers, Update(w)
      PROVE  IndexType'
  BY <1>4 DEF Update, IndexType, WritersType
<1>5. ASSUME NEW done \in SUBSET Partitions, GetKeys(done)
      PROVE  IndexType'
  BY <1>5, SavedListType DEF GetKeys, IndexType
<1> QED BY <1>1, <1>2, <1>3, <1>4, <1>5, <1>6, IndexFrame

LEMMA HandlesTypeNext ==
  ASSUME TypeInv, [Next]_vars
  PROVE  HandlesType'
<1> USE DEF TypeInv, TypeOK
<1>1. CASE UNCHANGED handles
  BY <1>1 DEF handles, HandlesType
<1>6. CASE CloseFiles
  BY <1>6 DEF CloseFiles, HandlesType
<1>7. CASE Restart
  BY <1>7, SizesAssumption DEF Restart, HandlesType, Garbage
<1>2. ASSUME NEW w \in Writers, KeepBlock(w)
      PROVE  HandlesType'
  BY <1>2, PartitionType, GetHandleType DEF KeepBlock, AtCapacity, Working
<1>3. ASSUME NEW w \in Writers, GrowFile(w)
      PROVE  HandlesType'
  <2>1. Partition(wkey[w]) \in Partitions
    BY <1>3, PartitionType DEF GrowFile, AtCapacity, Working
  <2>2. NewBlock(Partition(wkey[w])).end \in 0..Garbage
    BY <1>3, <2>1, NewBlockType, SizesAssumption DEF GrowFile, Block, Garbage
  <2> QED BY <1>3, <2>1, <2>2 DEF GrowFile, HandlesType
<1>4. ASSUME NEW w \in Writers, NEW n \in 0..MaxFile, GrowFails(w, n)
      PROVE  HandlesType'
  <2>1. Partition(wkey[w]) \in Partitions
    BY <1>4, PartitionType DEF GrowFails, AtCapacity, Working
  <2> QED BY <1>4, <2>1, HandleType DEF GrowFails, HandlesType
<1>5. ASSUME NEW r \in Readers, Scan(r)
      PROVE  HandlesType'
  BY <1>5, PartitionType, GetHandleType DEF Scan, Working
<1> QED BY <1>1, <1>2, <1>3, <1>4, <1>5, <1>6, <1>7, HandlesFrame

LEMMA WritersTypeNext ==
  ASSUME TypeInv, [Next]_vars
  PROVE  /\ WritersType'
         /\ \A w \in Writers : wpc'[w] # "idle" =>
              /\ wkey'[w] \in Keys
              /\ wsize'[w] \in RecordSizes
              /\ (CounterId + wkey'[w]) % NumWriters = w
         /\ \A w \in Writers : wpc'[w] = "idle" => wkey'[w] = NoKey
<1> DEFINE Goal ==
      /\ WritersType'
      /\ \A w \in Writers : wpc'[w] # "idle" =>
           /\ wkey'[w] \in Keys
           /\ wsize'[w] \in RecordSizes
           /\ (CounterId + wkey'[w]) % NumWriters = w
      /\ \A w \in Writers : wpc'[w] = "idle" => wkey'[w] = NoKey
<1> USE DEF TypeInv, TypeOK
<1>1. CASE UNCHANGED writers
  BY <1>1 DEF writers, WritersType, Working
<1>4. CASE Restart
  BY <1>4, EmptyList DEF WritersType, Restart
<1>2. ASSUME NEW w \in Writers, NEW k \in Keys, NEW s \in RecordSizes,
             PutLookup(w, k, s)
      PROVE  Goal
  <2>1. LoadedMem(Partition(k))[k] \in Seq(Block)
    BY PartitionType, LoadMapType
  <2>2. (CounterId + k) % NumWriters = w
    BY <1>2 DEF PutLookup, PutBegins, WriterIndex
  <2> QED BY <1>2, <2>1, <2>2 DEF PutLookup, WritersType, Working
<1>3. ASSUME NEW w \in Writers, WriterStep(w)
      PROVE  Goal
  <2>1. CASE KeepBlock(w) \/ WriteHeader(w)
    BY <2>1 DEF KeepBlock, AtCapacity, WriteHeader, WritersType, Working
  <2>2. CASE GrowFile(w)
    <3>1. NewBlock(Partition(wkey[w])) \in Block
      BY <2>2, PartitionType, NewBlockType
      DEF GrowFile, AtCapacity, Working
    <3>2. Append(wlist[w], NewBlock(Partition(wkey[w]))) \in Seq(Block)
      BY <3>1 DEF WritersType
    <3> QED BY <2>2, <3>2 DEF GrowFile, AtCapacity, WritersType, Working
  <2>3. CASE Copy(w)
    <3>1. wsize[w] \in Nat
      BY <2>3, BusyWriter DEF Copy
    <3>2. Advanced(wlist[w], wlist[w][Len(wlist[w])].start, wsize[w])
            \in Seq(Block)
      BY <3>1, AdvancedType DEF WritersType
    <3> QED BY <2>3, <3>2 DEF Copy, WritersType, Working
  <2>4. CASE WriterReturns(w)
    BY <2>4 DEF WriterReturns, WritersType, Working
  <2> QED
    BY <1>3, <2>1, <2>2, <2>3, <2>4
    DEF WriterStep, Update, OpenFails, RemapFails, GrowFails
<1> QED BY <1>1, <1>2, <1>3, <1>4, WritersFrame

LEMMA ReadersTypeNext ==
  ASSUME TypeInv, [Next]_vars
  PROVE  /\ ReadersType'
         /\ \A r \in Readers : rpc'[r] # "idle" => rkey'[r] \in Keys
<1> DEFINE Goal ==
      /\ ReadersType'
      /\ \A r \in Readers : rpc'[r] # "idle" => rkey'[r] \in Keys
<1> USE DEF TypeInv, TypeOK
<1>1. CASE UNCHANGED readers
  BY <1>1 DEF readers, ReadersType, Working
<1>8. CASE Restart
  BY <1>8, EmptyList DEF ReadersType, Restart
<1>2. ASSUME NEW w \in Writers, GrowFile(w)
      PROVE  Goal
  BY <1>2, SlicesType DEF GrowFile, ReadersType, Working
<1>3. ASSUME NEW w \in Writers, Copy(w)
      PROVE  Goal
  <2>1. wsize[w] \in Nat
    BY <1>3, BusyWriter DEF Copy
  <2> QED BY <1>3, <2>1, AdvancedType DEF Copy, ReadersType, Working
<1>4. ASSUME NEW w \in Writers, NEW n \in 0..MaxFile, GrowFails(w, n)
      PROVE  Goal
  BY <1>4, SlicesType DEF GrowFails, ReadersType, Working
<1>5. ASSUME NEW r \in Readers, NEW k \in Keys, GetLookup(r, k)
      PROVE  Goal
  <2>1. ListOf(k) \in Seq(Block)
    BY SavedListType DEF ListOf, IndexType
  <2> QED BY <1>5, <2>1 DEF GetLookup, ReadersType, Working
<1>6. ASSUME NEW r \in Readers, ReaderStep(r)
      PROVE  Goal
  <2>1. CASE Scan(r)
    BY <2>1 DEF Scan, ReadersType, Working
  <2>2. CASE ReaderReturns(r)
    BY <2>2, EmptyList DEF ReaderReturns, ReadersType, Working
  <2> QED BY <1>6, <2>1, <2>2 DEF ReaderStep, ScanFails, Decode
<1>7. CASE CloseFiles
  BY <1>7, SlicesType DEF CloseFiles, ReadersType, Working
<1> QED BY <1>1, <1>2, <1>3, <1>4, <1>5, <1>6, <1>7, <1>8,
      ReadersFrame

LEMMA RestTypeNext ==
  ASSUME TypeInv, [Next]_vars
  PROVE  PoolType' /\ SaverType' /\ BoundsType'
<1> USE DEF TypeInv, TypeOK
<1>1. PoolType'
  <2>1. \/ UNCHANGED pool
        \/ isUsedPut' \in {isUsedPut, TRUE, FALSE}
           /\ phase' \in {phase, "up", "saving", "closing", "closed"}
    BY DEF vars, Next, WriterStep, ReaderStep, SaverStep, PutLookup,
           PutLookupFails, PutBegins, KeepBlock, GrowFile, WriteHeader, Copy,
           Update, OpenFails, RemapFails, GrowFails, GetLookup,
           GetLookupFails, GetBegins, Scan, ScanFails, Decode, ReaderReturns,
           GetKeys, Flush, Shutdown, CloseFiles, CloseIndex, SaveTruncate,
           SaveWrite, SaveFails, SaveEnds, Crash, Fault, Restart
  <2> QED BY <2>1 DEF pool, PoolType
<1>2. SaverType'
  <2>1. \/ UNCHANGED saver
        \/ saver' = SaverIdle
        \/ SaveBegins("flush") \/ SaveBegins("shutdown")
        \/ \E p \in Partitions : SaveTruncate(p) \/ SaveWrite(p)
    BY DEF vars, Next, WriterStep, ReaderStep, SaverStep, PutLookup,
           PutLookupFails, PutBegins, KeepBlock, GrowFile, WriteHeader, Copy,
           Update, OpenFails, RemapFails, GrowFails, GetLookup,
           GetLookupFails, GetBegins, Scan, ScanFails, Decode, ReaderReturns,
           GetKeys, Flush, Shutdown, CloseFiles, CloseIndex, SaveFails,
           SaveEnds, Crash, Fault, Restart
  <2>2. CASE UNCHANGED saver \/ saver' = SaverIdle
    BY <2>2 DEF SaverType, SaverIdle
  <2>3. CASE SaveBegins("flush") \/ SaveBegins("shutdown")
    BY <2>3 DEF SaveBegins, SaverType
  <2>4. ASSUME NEW p \in Partitions, SaveTruncate(p) \/ SaveWrite(p)
        PROVE  SaverType'
    BY <2>4 DEF SaveTruncate, SaveWrite, SaverType
  <2> QED BY <2>1, <2>2, <2>3, <2>4
<1>3. BoundsType'
  <2>1. \/ UNCHANGED <<puts, crashes, faulted>>
        \/ \E w \in Writers, k \in Keys, s \in RecordSizes :
             PutBegins(w, k, s)
        \/ Crash \/ Fault
    BY DEF vars, Next, WriterStep, ReaderStep, SaverStep, PutLookup,
           PutLookupFails, KeepBlock, GrowFile, WriteHeader, Copy, Update,
           OpenFails, RemapFails, GrowFails, GetLookup, GetLookupFails,
           GetBegins, Scan, ScanFails, Decode, ReaderReturns, GetKeys, Flush,
           Shutdown, CloseFiles, CloseIndex, SaveTruncate, SaveWrite,
           SaveFails, SaveEnds, bounds
  <2>2. CASE UNCHANGED <<puts, crashes, faulted>>
    BY <2>2 DEF BoundsType
  <2>3. ASSUME NEW w \in Writers, NEW k \in Keys, NEW s \in RecordSizes,
               PutBegins(w, k, s)
        PROVE  BoundsType'
    BY <2>3, BoundsAssumption DEF PutBegins, BoundsType
  <2>4. CASE Crash
    BY <2>4, BoundsAssumption DEF Crash, Restart, BoundsType
  <2>5. CASE Fault
    BY <2>5, Zenon DEF Fault, Restart, BoundsType
  <2> QED BY <2>1, <2>2, <2>3, <2>4, <2>5
<1> QED BY <1>1, <1>2, <1>3

LEMMA TypeNext == TypeInv /\ [Next]_vars => TypeInv'
  BY FilesTypeNext, IndexTypeNext, HandlesTypeNext, WritersTypeNext,
     ReadersTypeNext, RestTypeNext
  DEF TypeInv, TypeOK, Working

\* Every variable keeps its type, whatever fails and whenever the process
\* dies.
THEOREM TypeCorrect == Spec => []TypeOK
<1>1. TypeInv => TypeOK
  BY DEF TypeInv
<1> QED BY <1>1, TypeInit, TypeNext, PTL DEF Spec

-----------------------------------------------------------------------------
(* The inductive invariant.  The name of a thing in it is what it is about; *)
(* it holds unless the process dies between the first Truncate of a data   *)
(* file and the write of its header.                                       *)

\* Where the file can be cut next lies behind its header, and behind what the
\* header says.  A file that is not open has a header, or is empty.
HeadersOk ==
  \A p \in Partitions :
    /\ 1 <= HandleEnd(p)
    /\ header[p] <= HandleEnd(p)
    /\ header[p] <= fileSize[p]

\* Only one writer of a partition is between Truncate and the header write.
OneGrower ==
  \A v, w \in Writers :
    /\ wpc[v] = "header" /\ wpc[w] = "header"
    /\ Partition(wkey[v]) = Partition(wkey[w])
    => v = w

\* A block in a map or an index file lies below the header of its file, and
\* so does a block in a writer's list, but for the one whose header is not
\* written yet.  That one starts where the header will have to go on from.
BelowHeader(k, b) == b.end <= header[Partition(k)]

BlocksPlaced ==
  /\ \A k \in Keys : \A i \in 1..Len(mem[k]) : BelowHeader(k, mem[k][i])
  /\ \A k \in Keys : \A i \in 1..Len(disk[k]) : BelowHeader(k, disk[k][i])
  /\ \A w \in Writers : \A i \in 1..Len(wlist[w]) :
       \/ BelowHeader(wkey[w], wlist[w][i])
       \/ wpc[w] = "header" /\ i = Len(wlist[w])
  /\ \A w \in Writers : wpc[w] = "header" =>
       LET p == Partition(wkey[w])
           b == wlist[w][Len(wlist[w])]
       IN  /\ header[p] <= b.start
           /\ b.end = lastEnd[p]
           /\ b.end <= fileSize[p]
           /\ open[p]

\* Past CheckCapacity the last block of a writer's list has room for the
\* record.
RoomMade ==
  /\ \A w \in Writers : wpc[w] \in {"header", "copy"} =>
       HasRoom(wlist[w], wsize[w])
  /\ \A w \in Writers : wpc[w] = "idle" => wlist[w] = <<>>

\* Every block is well formed and holds nothing but records of its key.
BlockOk(k, b) ==
  /\ 1 <= b.start
  /\ b.start < b.end
  /\ b.start <= b.fill
  /\ b.fill <= b.end
  /\ \A o \in b.start..(b.fill - 1) : cells[Partition(k)][o].key = k

BlocksOk == \A k \in Keys : \A b \in BlocksOf(k) : BlockOk(k, b)

Apart(k, b, m, c) ==
  \/ b.end <= c.start
  \/ c.end <= b.start
  \/ k = m /\ b.start = c.start /\ b.end = c.end

BlocksApart ==
  \A k, m \in Keys : Partition(k) = Partition(m) =>
    \A b \in BlocksOf(k) : \A c \in BlocksOf(m) : Apart(k, b, m, c)

\* Where two lists share a block, the saved one is at most as full as the one
\* in the map, and that one at most as full as the one in the writer's list.
NoFuller(l1, l2) ==
  \A i \in 1..Len(l1), j \in 1..Len(l2) :
    l1[i].start = l2[j].start => l1[i].fill <= l2[j].fill

FillsOrdered ==
  /\ \A k \in Keys :
       /\ NoFuller(disk[k], disk[k])
       /\ NoFuller(disk[k], mem[k])
       /\ NoFuller(mem[k], mem[k])
  /\ \A w \in Writers : wpc[w] # "idle" =>
       /\ NoFuller(disk[wkey[w]], wlist[w])
       /\ NoFuller(mem[wkey[w]], wlist[w])
       /\ NoFuller(wlist[w], wlist[w])

IInv ==
  /\ TypeInv /\ HeadersOk /\ OneGrower /\ BlocksPlaced /\ RoomMade
  /\ BlocksOk /\ BlocksApart /\ FillsOrdered

\* A block of a key is in its map, in its index file or in the list of a
\* writer that works for it.
LEMMA BlockCases ==
  ASSUME NEW k \in Keys, NEW b
  PROVE  b \in BlocksOf(k) <=>
           \/ \E i \in 1..Len(mem[k]) : b = mem[k][i]
           \/ \E i \in 1..Len(disk[k]) : b = disk[k][i]
           \/ \E w \in Writers :
                wkey[w] = k /\ \E i \in 1..Len(wlist[w]) : b = wlist[w][i]
<1> DEFINE In(l) == \E i \in 1..Len(l) : b = l[i]
<1>1. b \in BlocksOf(k) <=> \E l \in ListsOf(k) : In(l)
  BY DEF BlocksOf
<1>2. ASSUME NEW l
      PROVE  l \in ListsOf(k) <=>
               l = mem[k] \/ l = disk[k]
               \/ \E w \in Writers : wkey[w] = k /\ l = wlist[w]
  <2> DEFINE W == {v \in Writers : wkey[v] = k}
             L == {wlist[w] : w \in W}
  <2>1. l \in ListsOf(k) <=> l = mem[k] \/ l = disk[k] \/ l \in L
    BY DEF ListsOf
  <2>2. l \in L <=> \E w \in W : l = wlist[w]
    OBVIOUS
  <2>3. (\E w \in W : l = wlist[w])
        <=> \E w \in Writers : wkey[w] = k /\ l = wlist[w]
    OBVIOUS
  <2> HIDE DEF W, L
  <2> QED BY <2>1, <2>2, <2>3
<1> HIDE DEF In
<1>3. (\E l \in ListsOf(k) : In(l)) <=>
        In(mem[k]) \/ In(disk[k])
        \/ \E w \in Writers : wkey[w] = k /\ In(wlist[w])
  BY <1>2
<1> QED BY <1>1, <1>3 DEF In

LEMMA BlockCasesPrime ==
  ASSUME NEW k \in Keys, NEW b
  PROVE  b \in BlocksOf(k)' <=>
           \/ \E i \in 1..Len(mem'[k]) : b = mem'[k][i]
           \/ \E i \in 1..Len(disk'[k]) : b = disk'[k][i]
           \/ \E w \in Writers :
                wkey'[w] = k /\ \E i \in 1..Len(wlist'[w]) : b = wlist'[w][i]
<1> DEFINE In(l) == \E i \in 1..Len(l) : b = l[i]
<1>1. b \in BlocksOf(k)' <=> \E l \in ListsOf(k)' : In(l)
  BY DEF BlocksOf
<1>2. ASSUME NEW l
      PROVE  l \in ListsOf(k)' <=>
               l = mem'[k] \/ l = disk'[k]
               \/ \E w \in Writers : wkey'[w] = k /\ l = wlist'[w]
  <2> DEFINE W == {v \in Writers : wkey'[v] = k}
             L == {wlist'[w] : w \in W}
  <2>1. l \in ListsOf(k)' <=> l = mem'[k] \/ l = disk'[k] \/ l \in L
    BY DEF ListsOf
  <2>2. l \in L <=> \E w \in W : l = wlist'[w]
    OBVIOUS
  <2>3. (\E w \in W : l = wlist'[w])
        <=> \E w \in Writers : wkey'[w] = k /\ l = wlist'[w]
    OBVIOUS
  <2> HIDE DEF W, L
  <2> QED BY <2>1, <2>2, <2>3
<1> HIDE DEF In
<1>3. (\E l \in ListsOf(k)' : In(l)) <=>
        In(mem'[k]) \/ In(disk'[k])
        \/ \E w \in Writers : wkey'[w] = k /\ In(wlist'[w])
  BY <1>2
<1> QED BY <1>1, <1>3 DEF In

-----------------------------------------------------------------------------
(* Where the lists of the next state come from.                            *)

\* What Copy does to a list that shares the writer's last block.
AdvancedBy(w, l) == Advanced(l, wlist[w][Len(wlist[w])].start, wsize[w])

LEMMA MemStep ==
  ASSUME TypeInv, [Next]_vars, NEW k \in Keys
  PROVE  \/ mem'[k] = mem[k] \/ mem'[k] = disk[k] \/ mem'[k] = <<>>
         \/ \E w \in Writers :
              Update(w) /\ wkey[w] = k /\ mem'[k] = wlist[w]
         \/ \E w \in Writers :
              Copy(w) /\ wkey[w] = k /\ mem'[k] = AdvancedBy(w, mem[k])
<1>1. mem \in [Keys -> Seq(Block)]
  BY DEF TypeInv, TypeOK, IndexType
<1>2. CASE UNCHANGED index \/ CloseIndex \/ Restart
  BY <1>2 DEF index, CloseIndex, Restart
<1>3. ASSUME NEW m \in Keys, LoadMap(Partition(m))
      PROVE  mem'[k] \in {mem[k], disk[k], <<>>}
  BY <1>3 DEF LoadMap, LoadedMem, SavedList
<1>4. ASSUME NEW w \in Writers, Copy(w)
      PROVE  \/ mem'[k] = mem[k]
             \/ wkey[w] = k /\ mem'[k] = AdvancedBy(w, mem[k])
  BY <1>1, <1>4 DEF Copy, AdvancedBy
<1>5. ASSUME NEW w \in Writers, Update(w)
      PROVE  mem'[k] = mem[k] \/ (wkey[w] = k /\ mem'[k] = wlist[w])
  BY <1>1, <1>5 DEF Update
<1>6. ASSUME NEW done \in SUBSET Partitions, GetKeys(done)
      PROVE  mem'[k] \in {mem[k], disk[k], <<>>}
  BY <1>6 DEF GetKeys, SavedList
<1> QED BY <1>2, <1>3, <1>4, <1>5, <1>6, IndexFrame

LEMMA DiskStep ==
  ASSUME TypeInv, [Next]_vars, NEW k \in Keys
  PROVE  \/ disk'[k] = disk[k]
         \/ disk'[k] = mem[k] /\ UNCHANGED <<mem, writers, header>>
<1>1. CASE UNCHANGED files
  BY <1>1 DEF files
<1>2. ASSUME NEW w \in Writers, GrowFile(w) \/ WriteHeader(w) \/ Copy(w)
      PROVE  disk' = disk
  BY <1>2 DEF GrowFile, WriteHeader, Copy
<1>3. ASSUME NEW w \in Writers, NEW n \in 0..MaxFile, GrowFails(w, n)
      PROVE  disk' = disk
  BY <1>3 DEF GrowFails
<1>4. ASSUME NEW p \in Partitions, SaveWrite(p)
      PROVE  disk' = disk
  BY <1>4 DEF SaveWrite
<1>5. ASSUME NEW p \in Partitions, SaveTruncate(p)
      PROVE  \/ disk'[k] = disk[k]
             \/ disk'[k] = mem[k] /\ UNCHANGED <<mem, writers, header>>
  BY <1>5 DEF SaveTruncate, index
<1> QED BY <1>1, <1>2, <1>3, <1>4, <1>5, FilesFrame

LEMMA WlistStep ==
  ASSUME TypeInv, [Next]_vars, NEW w \in Writers
  PROVE  \/ wlist'[w] = <<>>
         \/ wlist'[w] = wlist[w] /\ wkey'[w] = wkey[w]
            /\ (wpc'[w] = wpc[w]
                \/ KeepBlock(w) \/ WriteHeader(w))
         \/ /\ wkey'[w] \in Keys
            /\ wlist'[w] = mem'[wkey'[w]]
            /\ wlist'[w] \in {mem[wkey'[w]], disk[wkey'[w]]}
            /\ wpc'[w] = "capacity"
            /\ UNCHANGED <<files, handles>>
         \/ /\ GrowFile(w) /\ wkey'[w] = wkey[w]
            /\ wlist'[w] = Append(wlist[w], NewBlock(Partition(wkey[w])))
         \/ /\ Copy(w) /\ wkey'[w] = wkey[w]
            /\ wlist'[w] = AdvancedBy(w, wlist[w])
<1> USE DEF TypeInv, TypeOK, WritersType
<1>1. CASE UNCHANGED writers
  BY <1>1 DEF writers
<1>2. CASE Restart
  BY <1>2 DEF Restart
<1>3. ASSUME NEW v \in Writers, NEW k \in Keys, NEW s \in RecordSizes,
             PutLookup(v, k, s)
      PROVE  \/ wlist'[w] = wlist[w] /\ wkey'[w] = wkey[w]
                /\ wpc'[w] = wpc[w]
             \/ /\ wkey'[w] \in Keys
                /\ wlist'[w] = mem'[wkey'[w]]
                /\ wlist'[w] \in {mem[wkey'[w]], disk[wkey'[w]], <<>>}
                /\ wpc'[w] = "capacity"
                /\ UNCHANGED <<files, handles>>
  BY <1>3 DEF PutLookup, PutBegins, LoadMap, LoadedMem, SavedList
<1>4. ASSUME NEW v \in Writers, WriterStep(v), v # w
      PROVE  wlist'[w] = wlist[w] /\ wkey'[w] = wkey[w] /\ wpc'[w] = wpc[w]
  BY <1>4 DEF WriterStep, KeepBlock, GrowFile, WriteHeader, Copy, Update,
              OpenFails, RemapFails, GrowFails, WriterReturns
<1>5. CASE KeepBlock(w) \/ WriteHeader(w)
  BY <1>5 DEF KeepBlock, WriteHeader
<1>6. CASE GrowFile(w)
  BY <1>6 DEF GrowFile
<1>7. CASE Copy(w)
  BY <1>7 DEF Copy, AdvancedBy
<1>8. CASE WriterReturns(w)
  BY <1>8 DEF WriterReturns
<1>9. ASSUME WriterStep(w)
      PROVE  KeepBlock(w) \/ WriteHeader(w) \/ GrowFile(w) \/ Copy(w)
             \/ WriterReturns(w)
  BY <1>9 DEF WriterStep, Update, OpenFails, RemapFails, GrowFails
<1> QED
  BY <1>1, <1>2, <1>3, <1>4, <1>5, <1>6, <1>7, <1>8, <1>9, WritersFrame

LEMMA HeadFrame ==
  ASSUME [Next]_vars
  PROVE  \/ UNCHANGED <<fileSize, header, open, lastEnd>>
         \/ \E w \in Writers :
              \/ KeepBlock(w) \/ GrowFile(w) \/ WriteHeader(w) \/ Copy(w)
              \/ \E n \in 0..MaxFile : GrowFails(w, n)
         \/ \E r \in Readers : Scan(r)
         \/ Restart
  BY DEF vars, Next, WriterStep, ReaderStep, SaverStep, PutLookup,
         PutLookupFails, PutBegins, Update, OpenFails, RemapFails, GetLookup,
         GetLookupFails, GetBegins, ScanFails, Decode, ReaderReturns, GetKeys,
         Flush, Shutdown, CloseFiles, CloseIndex, SaveTruncate, SaveWrite,
         SaveFails, SaveEnds, Crash, Fault, files, handles

-----------------------------------------------------------------------------
(* The header of a data file.                                              *)

LEMMA NewBlockShape ==
  ASSUME TypeInv, HeadersOk, NEW p \in Partitions
  PROVE  LET b == NewBlock(p)
         IN  /\ b \in Block
             /\ b.start = HandleEnd(p) /\ b.fill = b.start
             /\ 1 <= b.start /\ b.start < b.end
             /\ header[p] <= b.start
<1>1. HandleEnd(p) \in Nat
  BY HandleType, SizesAssumption DEF TypeInv, TypeOK, Garbage
<1> QED
  BY <1>1, NewBlockType, SizesAssumption
  DEF TypeInv, TypeOK, NewBlock, HeadersOk

\* The last block of the list of a writer past CheckCapacity.
LEMMA LastBlock ==
  ASSUME TypeInv, RoomMade, BlocksOk, NEW w \in Writers,
         wpc[w] \in {"header", "copy"}
  PROVE  LET b == wlist[w][Len(wlist[w])]
         IN  /\ Len(wlist[w]) \in 1..Len(wlist[w])
             /\ b \in Block
             /\ b \in BlocksOf(wkey[w])
             /\ b.fill + wsize[w] <= b.end
             /\ 1 <= b.start /\ b.start <= b.fill
             /\ Offset(w) = b.fill
<1>1. wlist[w] \in Seq(Block) /\ wlist[w] # <<>>
  BY DEF TypeInv, TypeOK, WritersType, RoomMade, HasRoom
<1>2. Len(wlist[w]) \in 1..Len(wlist[w])
  BY <1>1
<1>3. wkey[w] \in Keys
  BY BusyWriter DEF TypeInv
<1>4. wlist[w][Len(wlist[w])] \in BlocksOf(wkey[w])
  BY <1>2, <1>3, BlockCases
<1> QED
  BY <1>1, <1>2, <1>3, <1>4 DEF RoomMade, HasRoom, BlocksOk, BlockOk, Offset

LEMMA HeadersOkNext ==
  ASSUME IInv, [Next]_vars, "tornHeader" \notin Faults
  PROVE  HeadersOk'
<1> USE DEF IInv
<1>0. /\ fileSize \in [Partitions -> 0..MaxFile]
      /\ header \in [Partitions -> 0..Garbage]
      /\ open \in [Partitions -> BOOLEAN]
      /\ lastEnd \in [Partitions -> 0..Garbage]
      /\ MaxFile \in Nat /\ Garbage \in Nat
  BY SizesAssumption
  DEF TypeInv, TypeOK, FilesType, HandlesType, Garbage
<1>1. CASE UNCHANGED <<fileSize, header, open, lastEnd>>
  BY <1>1 DEF HeadersOk, HandleEnd
<1>2. ASSUME NEW q \in Partitions, GetHandle(q), UNCHANGED files
      PROVE  HeadersOk'
  BY <1>0, <1>2 DEF HeadersOk, HandleEnd, GetHandle, files
<1>3. ASSUME NEW w \in Writers, KeepBlock(w)
      PROVE  HeadersOk'
  <2>1. Partition(wkey[w]) \in Partitions
    BY <1>3, BusyWriter DEF KeepBlock, AtCapacity, TypeInv
  <2> QED BY <1>2, <1>3, <2>1 DEF KeepBlock
<1>4. ASSUME NEW r \in Readers, Scan(r)
      PROVE  HeadersOk'
  <2>1. Partition(rkey[r]) \in Partitions
    BY <1>4, PartitionType DEF Scan, TypeInv, Working
  <2> QED BY <1>2, <1>4, <2>1 DEF Scan
<1>5. ASSUME NEW w \in Writers, GrowFile(w)
      PROVE  HeadersOk'
  <2> DEFINE q == Partition(wkey[w])
  <2>1. q \in Partitions
    BY <1>5, BusyWriter DEF GrowFile, AtCapacity, TypeInv
  <2>2. /\ NewBlock(q).end \in Nat /\ 1 <= NewBlock(q).end
        /\ header[q] <= NewBlock(q).end
    BY <1>0, <2>1, NewBlockShape DEF Block
  <2> QED BY <1>0, <1>5, <2>1, <2>2 DEF GrowFile, HeadersOk, HandleEnd
<1>6. ASSUME NEW w \in Writers, WriteHeader(w)
      PROVE  HeadersOk'
  <2> DEFINE q == Partition(wkey[w])
  <2>1. q \in Partitions
    BY <1>6, BusyWriter DEF WriteHeader, TypeInv
  <2>2. open[q] /\ lastEnd[q] <= fileSize[q]
    BY <1>6 DEF WriteHeader, BlocksPlaced
  <2> QED BY <1>0, <1>6, <2>1, <2>2 DEF WriteHeader, HeadersOk, HandleEnd,
                                       handles
<1>7. ASSUME NEW w \in Writers, Copy(w)
      PROVE  HeadersOk'
  <2>1. 1 <= Offset(w)
    BY <1>7, LastBlock DEF Copy, Block
  <2>2. header' = header
    BY <1>0, <1>7, <2>1, LastBlock DEF Copy, Block
  <2> QED BY <1>1, <1>7, <2>2 DEF Copy, handles
<1>8. ASSUME NEW w \in Writers, NEW n \in 0..MaxFile, GrowFails(w, n)
      PROVE  HeadersOk'
  <2> DEFINE q == Partition(wkey[w])
  <2>1. q \in Partitions
    BY <1>8, BusyWriter DEF GrowFails, AtCapacity, TypeInv
  <2>2. /\ NewBlock(q).end \in Nat
        /\ header[q] <= NewBlock(q).end
    BY <1>0, <2>1, NewBlockShape DEF Block
  <2>3. header[q] <= n
    BY <1>0, <1>8, <2>1, <2>2 DEF GrowFails, HeadersOk
  <2> QED BY <1>0, <1>8, <2>1, <2>3 DEF GrowFails, HeadersOk, HandleEnd
<1>9. CASE Restart
  BY <1>0, <1>9 DEF Restart, MayDie, HeadersOk, HandleEnd, files
<1> QED
  BY <1>1, <1>3, <1>4, <1>5, <1>6, <1>7, <1>8, <1>9, HeadFrame

LEMMA OneGrowerNext ==
  ASSUME IInv, [Next]_vars
  PROVE  OneGrower'
<1> USE DEF IInv
<1>1. ASSUME NEW w \in Writers, wpc'[w] = "header"
      PROVE  \/ wpc[w] = "header" /\ wkey'[w] = wkey[w]
             \/ GrowFile(w) /\ wkey'[w] = wkey[w]
  <2> USE DEF TypeInv, TypeOK, WritersType
  <2>1. CASE UNCHANGED writers
    BY <1>1, <2>1 DEF writers
  <2>2. ASSUME NEW v \in Writers, NEW k \in Keys, NEW s \in RecordSizes,
               PutLookup(v, k, s)
        PROVE  wpc[w] = "header" /\ wkey'[w] = wkey[w]
    BY <1>1, <2>2 DEF PutLookup
  <2>3. ASSUME NEW v \in Writers, WriterStep(v), v # w
        PROVE  wpc[w] = "header" /\ wkey'[w] = wkey[w]
    BY <1>1, <2>3
    DEF WriterStep, KeepBlock, GrowFile, WriteHeader, Copy, Update, OpenFails,
        RemapFails, GrowFails, WriterReturns
  <2>4. CASE WriterStep(w)
    BY <1>1, <2>4
    DEF WriterStep, KeepBlock, GrowFile, WriteHeader, Copy, Update, OpenFails,
        RemapFails, GrowFails, WriterReturns
  <2>5. CASE Restart
    BY <1>1, <2>5 DEF Restart
  <2> QED BY <2>1, <2>2, <2>3, <2>4, <2>5, WritersFrame
<1>2. ASSUME NEW w \in Writers, GrowFile(w), NEW v \in Writers,
             v # w, wpc'[v] = "header"
      PROVE  Partition(wkey[v]) # Partition(wkey[w])
  <2>1. wpc[v] = "header"
    BY <1>2 DEF GrowFile, TypeInv, TypeOK, WritersType
  <2> QED BY <1>2, <2>1 DEF GrowFile, AtCapacity, HandleFree
<1>3. ASSUME NEW v \in Writers, NEW w \in Writers,
             wpc'[v] = "header", wpc'[w] = "header",
             Partition(wkey'[v]) = Partition(wkey'[w]), v # w
      PROVE  FALSE
  <2>1. wpc[v] = "header" /\ wpc[w] = "header"
    BY <1>1, <1>2, <1>3
  <2>2. wkey'[v] = wkey[v] /\ wkey'[w] = wkey[w]
    BY <1>1, <1>3
  <2> QED BY <1>3, <2>1, <2>2 DEF OneGrower
<1>4. \A k : Partition(k)' = Partition(k)
  BY DEF Partition
<1> QED BY <1>3, <1>4 DEF OneGrower

-----------------------------------------------------------------------------
(* Where blocks lie.                                                       *)

LEMMA RoomMadeNext ==
  ASSUME IInv, [Next]_vars
  PROVE  RoomMade'
<1> USE DEF IInv, TypeInv, TypeOK, WritersType
<1>1. CASE UNCHANGED writers
  BY <1>1 DEF writers, RoomMade, HasRoom
<1>2. CASE Restart
  BY <1>2 DEF Restart, RoomMade
<1>3. ASSUME NEW v \in Writers, NEW k \in Keys, NEW s \in RecordSizes,
             PutLookup(v, k, s)
      PROVE  RoomMade'
  BY <1>3 DEF PutLookup, RoomMade, HasRoom
<1>4. ASSUME NEW v \in Writers, KeepBlock(v)
      PROVE  RoomMade'
  BY <1>4 DEF KeepBlock, AtCapacity, RoomMade, HasRoom
<1>5. ASSUME NEW v \in Writers, GrowFile(v)
      PROVE  RoomMade'
  <2> DEFINE p == Partition(wkey[v])
  <2>1. p \in Partitions /\ wsize[v] \in RecordSizes
    BY <1>5, BusyWriter DEF GrowFile, AtCapacity
  <2>2. HandleEnd(p) \in Nat
    BY <2>1, HandleType, SizesAssumption DEF Garbage
  <2>3. /\ NewBlock(p) \in Block
        /\ NewBlock(p).fill + wsize[v] <= NewBlock(p).end
    <3>1. wsize[v] \in Nat /\ wsize[v] <= Growth /\ Growth \in Nat
      <4> HIDE DEF TypeInv, TypeOK, IInv
      <4> QED BY <2>1, SizeType, SizesAssumption
    <3>2. /\ NewBlock(p).fill = HandleEnd(p)
          /\ NewBlock(p).end = HandleEnd(p) + Growth
      BY DEF NewBlock
    <3> QED BY <2>1, <2>2, <3>1, <3>2, NewBlockType
  <2>4. /\ wlist'[v] = Append(wlist[v], NewBlock(p))
        /\ wsize' = wsize /\ wpc'[v] = "header"
        /\ \A w \in Writers : w # v => wpc'[w] = wpc[w] /\ wlist'[w] = wlist[w]
    BY <1>5 DEF GrowFile
  <2>5. HasRoom(wlist'[v], wsize'[v])
    <3>1. wlist'[v] # <<>> /\ wlist'[v][Len(wlist'[v])] = NewBlock(p)
      <4>1. wlist[v] \in Seq(Block)
        OBVIOUS
      <4> HIDE DEF TypeInv, TypeOK, IInv
      <4> QED BY <2>3, <2>4, <4>1
    <3> QED BY <2>3, <2>4, <3>1 DEF HasRoom
  <2> QED BY <2>4, <2>5 DEF RoomMade, HasRoom
<1>6. ASSUME NEW v \in Writers, WriteHeader(v)
      PROVE  RoomMade'
  BY <1>6 DEF WriteHeader, RoomMade, HasRoom
<1>7. ASSUME NEW v \in Writers, Copy(v)
      PROVE  RoomMade'
  BY <1>7 DEF Copy, RoomMade, HasRoom
<1>8. ASSUME NEW v \in Writers, WriterReturns(v)
      PROVE  RoomMade'
  BY <1>8 DEF WriterReturns, RoomMade, HasRoom
<1>9. ASSUME NEW v \in Writers, WriterStep(v)
      PROVE  \/ KeepBlock(v) \/ GrowFile(v) \/ WriteHeader(v) \/ Copy(v)
             \/ WriterReturns(v)
  BY <1>9 DEF WriterStep, Update, OpenFails, RemapFails, GrowFails
<1> QED BY <1>1, <1>2, <1>3, <1>4, <1>5, <1>6, <1>7, <1>8, <1>9, WritersFrame

LEMMA HeaderGrows ==
  ASSUME IInv, [Next]_vars, NEW p \in Partitions
  PROVE  /\ header[p] <= header'[p]
         /\ \/ header'[p] = header[p]
            \/ \E w \in Writers : WriteHeader(w) /\ Partition(wkey[w]) = p
<1> USE DEF IInv
<1>0. header \in [Partitions -> 0..Garbage] /\ Garbage \in Nat
  BY SizesAssumption DEF TypeInv, TypeOK, FilesType, Garbage
<1>1. ASSUME NEW w \in Writers, WriteHeader(w)
      PROVE  /\ header[p] <= header'[p]
             /\ header'[p] = header[p] \/ Partition(wkey[w]) = p
  <2>1. open[Partition(wkey[w])]
    BY <1>1 DEF WriteHeader, BlocksPlaced
  <2> QED BY <1>0, <1>1, <2>1 DEF WriteHeader, HeadersOk, HandleEnd
<1>2. ASSUME NEW w \in Writers, Copy(w)
      PROVE  header' = header
  BY <1>0, <1>2, LastBlock DEF Copy, Block
<1>3. \/ header' = header
      \/ \E w \in Writers : WriteHeader(w) \/ Copy(w)
  BY FilesFrame DEF files, GrowFile, GrowFails, SaveTruncate, SaveWrite
<1> QED BY <1>0, <1>1, <1>2, <1>3

\* The extent of a block is not touched when its fill advances.
LEMMA AdvancedExtent ==
  ASSUME NEW l \in Seq(Block), NEW w \in Writers, wsize[w] \in Nat,
         NEW i \in 1..Len(AdvancedBy(w, l))
  PROVE  /\ i \in 1..Len(l)
         /\ AdvancedBy(w, l)[i].start = l[i].start
         /\ AdvancedBy(w, l)[i].end = l[i].end
         /\ AdvancedBy(w, l)[i].fill =
              IF l[i].start = wlist[w][Len(wlist[w])].start
              THEN l[i].fill + wsize[w] ELSE l[i].fill
<1>1. /\ Len(AdvancedBy(w, l)) = Len(l)
      /\ AdvancedBy(w, l)[i] =
           IF l[i].start = wlist[w][Len(wlist[w])].start
           THEN [l[i] EXCEPT !.fill = @ + wsize[w]] ELSE l[i]
  BY AdvancedType DEF AdvancedBy
<1>2. l[i] \in Block
  BY <1>1
<1> QED BY <1>1, <1>2 DEF Block

LEMMA BlocksPlacedNext ==
  ASSUME IInv, [Next]_vars
  PROVE  BlocksPlaced'
<1> USE DEF IInv
<1>0. /\ header \in [Partitions -> 0..Garbage]
      /\ header' \in [Partitions -> 0..Garbage]
      /\ Garbage \in Nat
      /\ mem \in [Keys -> Seq(Block)] /\ disk \in [Keys -> Seq(Block)]
      /\ wlist \in [Writers -> Seq(Block)]
      /\ wlist' \in [Writers -> Seq(Block)]
  BY SizesAssumption, TypeNext
  DEF TypeInv, TypeOK, FilesType, IndexType, WritersType, Garbage
<1>1. \A k \in Keys, b \in Block :
        BelowHeader(k, b) => b.end <= header'[Partition(k)]
  BY <1>0, HeaderGrows, PartitionType DEF BelowHeader, Block
<1>7. ASSUME NEW k \in Keys
      PROVE  /\ \A i \in 1..Len(mem[k]) :
                  mem[k][i].end <= header'[Partition(k)]
             /\ \A i \in 1..Len(disk[k]) :
                  disk[k][i].end <= header'[Partition(k)]
  BY <1>0, <1>1 DEF BlocksPlaced
<1>8. ASSUME NEW w \in Writers, wkey[w] \in Keys
      PROVE  \A i \in 1..Len(wlist[w]) :
               \/ wlist[w][i].end <= header'[Partition(wkey[w])]
               \/ wpc[w] = "header" /\ i = Len(wlist[w])
  BY <1>0, <1>1, <1>8 DEF BlocksPlaced
<1>2. ASSUME NEW k \in Keys, NEW i \in 1..Len(mem'[k])
      PROVE  mem'[k][i].end <= header'[Partition(k)]
  <2>1. CASE mem'[k] = mem[k] \/ mem'[k] = disk[k] \/ mem'[k] = <<>>
    BY <1>0, <1>1, <1>2, <2>1 DEF BlocksPlaced
  <2>2. ASSUME NEW w \in Writers, Update(w), wkey[w] = k, mem'[k] = wlist[w]
        PROVE  mem'[k][i].end <= header'[Partition(k)]
    <3>1. wpc[w] = "update"
      BY <2>2 DEF Update
    <3> QED BY <1>2, <1>8, <2>2, <3>1
  <2>3. ASSUME NEW w \in Writers, Copy(w), mem'[k] = AdvancedBy(w, mem[k])
        PROVE  mem'[k][i].end <= header'[Partition(k)]
    <3>1. wsize[w] \in Nat
      BY <2>3, BusyWriter DEF Copy, TypeInv
    <3>2. i \in 1..Len(mem[k]) /\ mem'[k][i].end = mem[k][i].end
      BY <1>0, <1>2, <2>3, <3>1, AdvancedExtent
    <3> QED BY <1>0, <1>1, <3>2 DEF BlocksPlaced
  <2> QED BY <2>1, <2>2, <2>3, MemStep
<1>3. ASSUME NEW k \in Keys, NEW i \in 1..Len(disk'[k])
      PROVE  disk'[k][i].end <= header'[Partition(k)]
  <2>1. disk'[k] = disk[k] \/ disk'[k] = mem[k]
    BY DiskStep
  <2> QED BY <1>3, <1>7, <2>1
<1>4. ASSUME NEW w \in Writers, NEW i \in 1..Len(wlist'[w])
      PROVE  \/ wlist'[w][i].end <= header'[Partition(wkey'[w])]
             \/ wpc'[w] = "header" /\ i = Len(wlist'[w])
  <2> DEFINE Goal == \/ wlist'[w][i].end <= header'[Partition(wkey'[w])]
                     \/ wpc'[w] = "header" /\ i = Len(wlist'[w])
  <2>0. wlist[w] # <<>> => wkey[w] \in Keys
    BY BusyWriter DEF RoomMade, TypeInv
  <2>1. CASE wlist'[w] = <<>>
    BY <1>4, <2>1
  <2>2. CASE wlist'[w] = wlist[w] /\ wkey'[w] = wkey[w] /\ wpc'[w] = wpc[w]
    BY <1>4, <1>8, <2>0, <2>2
  <2>3. CASE wlist'[w] = wlist[w] /\ wkey'[w] = wkey[w] /\ KeepBlock(w)
    BY <1>0, <1>1, <1>4, <2>0, <2>3
    DEF BlocksPlaced, KeepBlock, AtCapacity
  <2>4. CASE wlist'[w] = wlist[w] /\ wkey'[w] = wkey[w] /\ WriteHeader(w)
    <3>1. wkey[w] \in Keys /\ Partition(wkey[w]) \in Partitions
      BY <2>4, BusyWriter DEF WriteHeader, TypeInv
    <3>2. header'[Partition(wkey[w])] = lastEnd[Partition(wkey[w])]
      BY <1>0, <2>4, <3>1 DEF WriteHeader
    <3>3. wlist[w][Len(wlist[w])].end = lastEnd[Partition(wkey[w])]
      BY <2>4 DEF WriteHeader, BlocksPlaced
    <3>4. CASE i = Len(wlist[w])
      BY <1>0, <2>4, <3>1, <3>2, <3>3, <3>4
    <3>5. CASE i # Len(wlist[w])
      BY <1>0, <1>1, <1>4, <2>4, <3>1, <3>5 DEF BlocksPlaced
    <3> QED BY <3>4, <3>5
  <2>5. CASE /\ wkey'[w] \in Keys
             /\ wlist'[w] \in {mem[wkey'[w]], disk[wkey'[w]]}
    BY <1>4, <1>7, <2>5
  <2>6. CASE /\ GrowFile(w) /\ wkey'[w] = wkey[w]
             /\ wlist'[w] = Append(wlist[w], NewBlock(Partition(wkey[w])))
    <3>1. wpc'[w] = "header" /\ wpc[w] = "capacity"
      BY <2>6 DEF GrowFile, AtCapacity, TypeInv, TypeOK, WritersType
    <3>2. wkey[w] \in Keys
      BY <3>1, BusyWriter DEF TypeInv
    <3>3. CASE i = Len(wlist'[w])
      BY <3>1, <3>3
    <3>4. CASE i # Len(wlist'[w])
      <4>1. i \in 1..Len(wlist[w]) /\ wlist'[w][i] = wlist[w][i]
        BY <1>0, <1>4, <2>6, <3>4
      <4> QED BY <1>0, <1>1, <2>6, <3>1, <3>2, <4>1 DEF BlocksPlaced
    <3> QED BY <3>3, <3>4
  <2>7. CASE /\ Copy(w) /\ wkey'[w] = wkey[w]
             /\ wlist'[w] = AdvancedBy(w, wlist[w])
    <3>1. wsize[w] \in Nat /\ wkey[w] \in Keys /\ wpc[w] = "copy"
      BY <2>7, BusyWriter DEF Copy, TypeInv
    <3>2. i \in 1..Len(wlist[w]) /\ wlist'[w][i].end = wlist[w][i].end
      BY <1>0, <1>4, <2>7, <3>1, AdvancedExtent
    <3> QED BY <1>0, <1>1, <2>7, <3>1, <3>2 DEF BlocksPlaced
  <2> QED BY <2>1, <2>2, <2>3, <2>4, <2>5, <2>6, <2>7, WlistStep
<1>5. ASSUME NEW w \in Writers, wpc'[w] = "header"
      PROVE  LET p == Partition(wkey'[w])
                 b == wlist'[w][Len(wlist'[w])]
             IN  /\ header'[p] <= b.start
                 /\ b.end = lastEnd'[p]
                 /\ b.end <= fileSize'[p]
                 /\ open'[p]
  <2> DEFINE p == Partition(wkey[w])
  <2>1. CASE GrowFile(w)
    <3>1. p \in Partitions /\ wkey' = wkey
      BY <2>1, BusyWriter DEF GrowFile, AtCapacity, TypeInv
    <3>2. /\ wlist'[w] = Append(wlist[w], NewBlock(p))
          /\ header' = header
          /\ lastEnd'[p] = NewBlock(p).end
          /\ fileSize'[p] = NewBlock(p).end
          /\ open'[p]
      BY <2>1, <3>1
      DEF GrowFile, TypeInv, TypeOK, FilesType, HandlesType, WritersType
    <3>3. NewBlock(p) \in Block /\ header[p] <= NewBlock(p).start
      BY <3>1, NewBlockShape
    <3>4. wlist'[w][Len(wlist'[w])] = NewBlock(p)
      BY <1>0, <3>2, <3>3
    <3> QED BY <3>1, <3>2, <3>3, <3>4 DEF Block
  <2>2. CASE wpc[w] = "header" /\ wkey'[w] = wkey[w] /\ wlist'[w] = wlist[w]
             /\ ~Restart
    <3>1. p \in Partitions /\ wkey[w] \in Keys
      BY <2>2, BusyWriter DEF TypeInv
    <3>2. \A v \in Writers : HandleFree(Partition(wkey[v])) =>
             Partition(wkey[v]) # p
      BY <2>2 DEF HandleFree
    <3>3. header'[p] = header[p]
      <4>1. ASSUME NEW v \in Writers, WriteHeader(v), Partition(wkey[v]) = p
            PROVE  FALSE
        <5>1. wpc[v] = "header" /\ wpc'[v] = "copy"
          BY <4>1 DEF WriteHeader, TypeInv, TypeOK, WritersType
        <5>2. v = w
          BY <2>2, <4>1, <5>1 DEF OneGrower
        <5> QED BY <1>5, <5>1, <5>2
      <4> QED BY <3>1, <4>1, HeaderGrows
    <3>4. /\ fileSize'[p] = fileSize[p]
          /\ lastEnd'[p] = lastEnd[p]
          /\ open'[p] = open[p]
      <4> USE DEF TypeInv, TypeOK, FilesType, HandlesType
      <4>1. CASE UNCHANGED <<fileSize, header, open, lastEnd>>
        BY <4>1
      <4>2. ASSUME NEW v \in Writers, KeepBlock(v) \/ GrowFile(v)
            PROVE  <3>4!:
        BY <3>1, <3>2, <4>2 DEF KeepBlock, GrowFile, AtCapacity, GetHandle,
                               files
      <4>3. ASSUME NEW v \in Writers, NEW n \in 0..MaxFile, GrowFails(v, n)
            PROVE  <3>4!:
        BY <3>1, <3>2, <4>3 DEF GrowFails, AtCapacity
      <4>4. ASSUME NEW v \in Writers, WriteHeader(v) \/ Copy(v)
            PROVE  <3>4!:
        BY <4>4 DEF WriteHeader, Copy, handles
      <4>5. ASSUME NEW r \in Readers, Scan(r)
            PROVE  <3>4!:
        <5>1. HandleFree(Partition(rkey[r])) => Partition(rkey[r]) # p
          BY <2>2 DEF HandleFree
        <5> QED BY <3>1, <4>5, <5>1 DEF Scan, GetHandle, files
      <4> QED BY <2>2, <4>1, <4>2, <4>3, <4>4, <4>5, HeadFrame
    <3> QED BY <2>2, <3>3, <3>4 DEF BlocksPlaced
  <2>3. \/ GrowFile(w)
        \/ wpc[w] = "header" /\ wkey'[w] = wkey[w] /\ wlist'[w] = wlist[w]
           /\ ~Restart
    <3> USE DEF TypeInv, TypeOK, WritersType
    <3>1. ~Restart
      BY <1>5 DEF Restart
    <3>2. CASE UNCHANGED writers
      BY <1>5, <3>1, <3>2 DEF writers
    <3>3. ASSUME NEW v \in Writers, NEW k \in Keys, NEW s \in RecordSizes,
                 PutLookup(v, k, s)
          PROVE  wpc[w] = "header" /\ wkey'[w] = wkey[w]
                 /\ wlist'[w] = wlist[w]
      BY <1>5, <3>3 DEF PutLookup
    <3>4. ASSUME NEW v \in Writers, WriterStep(v), v # w
          PROVE  wpc[w] = "header" /\ wkey'[w] = wkey[w]
                 /\ wlist'[w] = wlist[w]
      BY <1>5, <3>4
      DEF WriterStep, KeepBlock, GrowFile, WriteHeader, Copy, Update,
          OpenFails, RemapFails, GrowFails, WriterReturns
    <3>5. CASE WriterStep(w)
      BY <1>5, <3>5
      DEF WriterStep, KeepBlock, GrowFile, WriteHeader, Copy, Update,
          OpenFails, RemapFails, GrowFails, WriterReturns
    <3> QED BY <3>1, <3>2, <3>3, <3>4, <3>5, WritersFrame
  <2> QED BY <2>1, <2>2, <2>3
<1>6. \A k : Partition(k)' = Partition(k)
  BY DEF Partition
<1> QED BY <1>2, <1>3, <1>4, <1>5, <1>6 DEF BlocksPlaced, BelowHeader

-----------------------------------------------------------------------------
(* Blocks are apart and hold their own key's records.                      *)

LEMMA BlockInBlock ==
  ASSUME TypeInv, NEW k \in Keys, NEW b \in BlocksOf(k)
  PROVE  b \in Block
<1>1. /\ mem[k] \in Seq(Block) /\ disk[k] \in Seq(Block)
      /\ \A w \in Writers : wlist[w] \in Seq(Block)
  BY DEF TypeInv, TypeOK, IndexType, FilesType, WritersType
<1>2. \A l \in Seq(Block) : \A i \in 1..Len(l) : l[i] \in Block
  OBVIOUS
<1> QED BY <1>1, <1>2, BlockCases

\* A block of the next state is one of this state, the one CheckCapacity cut
\* off, or one that Copy has advanced.
LEMMA BlockStep ==
  ASSUME IInv, [Next]_vars, NEW k \in Keys, NEW b \in BlocksOf(k)'
  PROVE  \/ b \in BlocksOf(k)
         \/ \E w \in Writers :
              GrowFile(w) /\ wkey[w] = k /\ b = NewBlock(Partition(k))
         \/ \E w \in Writers :
              /\ Copy(w) /\ wkey[w] = k
              /\ \E c \in BlocksOf(k) :
                   /\ c.start = wlist[w][Len(wlist[w])].start
                   /\ c.fill <= wlist[w][Len(wlist[w])].fill
                   /\ b.start = c.start /\ b.end = c.end
                   /\ b.fill = c.fill + wsize[w]
<1> USE DEF IInv
<1> DEFINE Goal ==
      \/ b \in BlocksOf(k)
      \/ \E w \in Writers :
           GrowFile(w) /\ wkey[w] = k /\ b = NewBlock(Partition(k))
      \/ \E w \in Writers :
           /\ Copy(w) /\ wkey[w] = k
           /\ \E c \in BlocksOf(k) :
                /\ c.start = wlist[w][Len(wlist[w])].start
                /\ c.fill <= wlist[w][Len(wlist[w])].fill
                /\ b.start = c.start /\ b.end = c.end
                /\ b.fill = c.fill + wsize[w]
<1>0. /\ mem \in [Keys -> Seq(Block)] /\ disk \in [Keys -> Seq(Block)]
      /\ wlist \in [Writers -> Seq(Block)]
  BY DEF TypeInv, TypeOK, FilesType, IndexType, WritersType
<1>1. ASSUME NEW w \in Writers, Copy(w), wkey[w] = k, NEW l \in Seq(Block),
             NoFuller(l, wlist[w]), \A i \in 1..Len(l) : l[i] \in BlocksOf(k),
             NEW i \in 1..Len(AdvancedBy(w, l)), b = AdvancedBy(w, l)[i]
      PROVE  Goal
  <2>1. wsize[w] \in Nat /\ wpc[w] = "copy"
    BY <1>1, BusyWriter DEF Copy, TypeInv
  <2>2. /\ i \in 1..Len(l) /\ l[i] \in Block
        /\ b.start = l[i].start /\ b.end = l[i].end
        /\ b.fill = IF l[i].start = wlist[w][Len(wlist[w])].start
                    THEN l[i].fill + wsize[w] ELSE l[i].fill
    BY <1>1, <2>1, AdvancedExtent
  <2>3. CASE l[i].start = wlist[w][Len(wlist[w])].start
    <3>1. l[i].fill <= wlist[w][Len(wlist[w])].fill
      BY <1>1, <2>1, <2>2, <2>3, LastBlock DEF NoFuller
    <3> QED BY <1>1, <2>2, <2>3, <3>1
  <2>4. CASE l[i].start # wlist[w][Len(wlist[w])].start
    <3>1. b = l[i]
      <4>1. AdvancedBy(w, l)[i] =
              IF l[i].start = wlist[w][Len(wlist[w])].start
              THEN [l[i] EXCEPT !.fill = @ + wsize[w]] ELSE l[i]
        BY <1>1, <2>1, <2>2, AdvancedType DEF AdvancedBy
      <4> QED BY <1>1, <2>4, <4>1
    <3> QED BY <1>1, <2>2, <3>1
  <2> QED BY <2>3, <2>4
<1>2. ASSUME NEW i \in 1..Len(mem'[k]), b = mem'[k][i]
      PROVE  Goal
  <2>1. CASE mem'[k] = mem[k] \/ mem'[k] = disk[k] \/ mem'[k] = <<>>
    BY <1>2, <2>1, BlockCases
  <2>2. ASSUME NEW w \in Writers, wkey[w] = k, mem'[k] = wlist[w]
        PROVE  Goal
    BY <1>2, <2>2, BlockCases
  <2>3. ASSUME NEW w \in Writers, Copy(w), wkey[w] = k,
               mem'[k] = AdvancedBy(w, mem[k])
        PROVE  Goal
    <3>1. NoFuller(mem[k], wlist[w])
      BY <2>3 DEF FillsOrdered, Copy
    <3>2. \A j \in 1..Len(mem[k]) : mem[k][j] \in BlocksOf(k)
      BY BlockCases
    <3> QED BY <1>0, <1>1, <1>2, <2>3, <3>1, <3>2
  <2> QED BY <2>1, <2>2, <2>3, MemStep
<1>3. ASSUME NEW i \in 1..Len(disk'[k]), b = disk'[k][i]
      PROVE  b \in BlocksOf(k)
  <2>1. disk'[k] = disk[k] \/ disk'[k] = mem[k]
    BY DiskStep
  <2> QED BY <1>3, <2>1, BlockCases
<1>4. ASSUME NEW w \in Writers, wkey'[w] = k,
             NEW i \in 1..Len(wlist'[w]), b = wlist'[w][i]
      PROVE  Goal
  <2>1. CASE wlist'[w] = <<>>
    BY <1>4, <2>1
  <2>2. CASE wlist'[w] = wlist[w] /\ wkey'[w] = wkey[w]
    BY <1>4, <2>2, BlockCases
  <2>3. CASE wlist'[w] \in {mem[wkey'[w]], disk[wkey'[w]]}
    BY <1>4, <2>3, BlockCases
  <2>4. CASE /\ GrowFile(w) /\ wkey'[w] = wkey[w]
             /\ wlist'[w] = Append(wlist[w], NewBlock(Partition(wkey[w])))
    <3>1. NewBlock(Partition(k)) \in Block
      BY PartitionType, NewBlockType DEF TypeInv, TypeOK
    <3>2. \/ i \in 1..Len(wlist[w]) /\ b = wlist[w][i]
          \/ b = NewBlock(Partition(k))
      BY <1>0, <1>4, <2>4, <3>1
    <3> QED BY <1>4, <2>4, <3>2, BlockCases
  <2>5. CASE /\ Copy(w) /\ wkey'[w] = wkey[w]
             /\ wlist'[w] = AdvancedBy(w, wlist[w])
    <3>1. NoFuller(wlist[w], wlist[w])
      BY <2>5 DEF FillsOrdered, Copy
    <3>2. \A j \in 1..Len(wlist[w]) : wlist[w][j] \in BlocksOf(k)
      BY <1>4, <2>5, BlockCases
    <3> QED BY <1>0, <1>1, <1>4, <2>5, <3>1, <3>2
  <2> QED BY <2>1, <2>2, <2>3, <2>4, <2>5, WlistStep
<1> QED BY <1>2, <1>3, <1>4, BlockCasesPrime

\* Until a writer cuts off a block, all blocks of its file lie below the
\* place where it does.
LEMMA NewBlockApart ==
  ASSUME IInv, NEW w \in Writers, GrowFile(w), NEW m \in Keys,
         Partition(m) = Partition(wkey[w]), NEW c \in BlocksOf(m)
  PROVE  c.end <= NewBlock(Partition(wkey[w])).start
<1> USE DEF IInv
<1> DEFINE p == Partition(wkey[w])
<1>1. p \in Partitions
  BY BusyWriter DEF GrowFile, AtCapacity, TypeInv
<1>2. header[p] <= NewBlock(p).start /\ NewBlock(p).start \in Nat
  BY <1>1, NewBlockShape DEF Block
<1>3. c.end <= header[p]
  <2>1. ASSUME NEW v \in Writers, wkey[v] = m
        PROVE  wpc[v] # "header"
    BY <2>1 DEF GrowFile, AtCapacity, HandleFree
  <2> QED BY <2>1, BlockCases DEF BlocksPlaced, BelowHeader
<1>4. c \in Block /\ header[p] \in Nat
  BY <1>1, BlockInBlock, SizesAssumption
  DEF TypeInv, TypeOK, FilesType, Garbage
<1> QED BY <1>2, <1>3, <1>4 DEF Block

LEMMA BlocksApartNext ==
  ASSUME IInv, [Next]_vars
  PROVE  BlocksApart'
<1> USE DEF IInv
<1> DEFINE Cut(k, b) ==
      \E w \in Writers :
        GrowFile(w) /\ wkey[w] = k /\ b = NewBlock(Partition(k))
<1>1. ASSUME NEW k \in Keys, NEW b \in BlocksOf(k)'
      PROVE  \/ \E c \in BlocksOf(k) : b.start = c.start /\ b.end = c.end
             \/ Cut(k, b)
  BY <1>1, BlockStep
<1>2. ASSUME NEW k \in Keys, NEW b, Cut(k, b),
             NEW m \in Keys, Partition(m) = Partition(k), NEW c \in BlocksOf(m)
      PROVE  c.end <= b.start
  BY <1>2, NewBlockApart
<1>3. ASSUME NEW k \in Keys, NEW b, Cut(k, b),
             NEW m \in Keys, Partition(m) = Partition(k), NEW c, Cut(m, c)
      PROVE  k = m /\ b = c
  <2>1. PICK v \in Writers : GrowFile(v) /\ wkey[v] = k
                             /\ b = NewBlock(Partition(k))
    BY <1>3
  <2>2. PICK w \in Writers : GrowFile(w) /\ wkey[w] = m
                             /\ c = NewBlock(Partition(m))
    BY <1>3
  <2>3. v = w
    <3>1. /\ wpc' = [wpc EXCEPT ![v] = "header"] /\ wpc[v] = "capacity"
          /\ wpc' = [wpc EXCEPT ![w] = "header"] /\ wpc[w] = "capacity"
      BY <2>1, <2>2 DEF GrowFile, AtCapacity
    <3> QED BY <3>1 DEF TypeInv, TypeOK, WritersType
  <2> QED BY <1>3, <2>1, <2>2, <2>3
<1> HIDE DEF Cut
<1>4. ASSUME NEW k \in Keys, NEW m \in Keys, Partition(k) = Partition(m),
             NEW b \in BlocksOf(k)', NEW c \in BlocksOf(m)'
      PROVE  Apart(k, b, m, c)
  <2>1. CASE Cut(k, b)
    <3>1. CASE Cut(m, c)
      BY <1>3, <1>4, <2>1, <3>1 DEF Apart
    <3>2. CASE ~Cut(m, c)
      BY <1>1, <1>2, <1>4, <2>1, <3>2 DEF Apart
    <3> QED BY <3>1, <3>2
  <2>2. CASE ~Cut(k, b) /\ Cut(m, c)
    BY <1>1, <1>2, <1>4, <2>2 DEF Apart
  <2>3. CASE ~Cut(k, b) /\ ~Cut(m, c)
    <3>1. PICK b0 \in BlocksOf(k) : b.start = b0.start /\ b.end = b0.end
      BY <1>1, <2>3
    <3>2. PICK c0 \in BlocksOf(m) : c.start = c0.start /\ c.end = c0.end
      BY <1>1, <2>3
    <3>3. Apart(k, b0, m, c0)
      BY <1>4 DEF BlocksApart
    <3> QED BY <3>1, <3>2, <3>3 DEF Apart
  <2> QED BY <2>1, <2>2, <2>3
<1>5. \A k : Partition(k)' = Partition(k)
  BY DEF Partition
<1> QED BY <1>4, <1>5 DEF BlocksApart, Apart

-----------------------------------------------------------------------------
(* How full blocks are.                                                    *)

LEMMA NoFullerAdvanced ==
  ASSUME NEW w \in Writers, wsize[w] \in Nat,
         NEW l1 \in Seq(Block), NEW l2 \in Seq(Block), NoFuller(l1, l2)
  PROVE  /\ NoFuller(l1, AdvancedBy(w, l2))
         /\ NoFuller(AdvancedBy(w, l1), AdvancedBy(w, l2))
<1> DEFINE s == wlist[w][Len(wlist[w])].start
           up(b) == IF b.start = s THEN b.fill + wsize[w] ELSE b.fill
<1>1. ASSUME NEW l \in Seq(Block), NEW i \in 1..Len(l)
      PROVE  l[i].fill \in Nat
  <2>1. l[i] \in Block
    OBVIOUS
  <2> QED BY <2>1 DEF Block
<1>2. ASSUME NEW l \in Seq(Block), NEW i \in 1..Len(AdvancedBy(w, l))
      PROVE  /\ i \in 1..Len(l)
             /\ AdvancedBy(w, l)[i].start = l[i].start
             /\ AdvancedBy(w, l)[i].fill = up(l[i])
  BY AdvancedExtent
<1> HIDE DEF s
<1>3. ASSUME NEW i \in 1..Len(l1), NEW j \in 1..Len(AdvancedBy(w, l2)),
             l1[i].start = AdvancedBy(w, l2)[j].start
      PROVE  l1[i].fill <= AdvancedBy(w, l2)[j].fill
  <2>1. j \in 1..Len(l2) /\ l1[i].start = l2[j].start
    BY <1>2, <1>3
  <2>2. l1[i].fill <= l2[j].fill
    BY <2>1 DEF NoFuller
  <2>3. AdvancedBy(w, l2)[j].fill = up(l2[j])
    BY <1>2
  <2>4. l1[i].fill \in Nat /\ l2[j].fill \in Nat
    BY <1>1, <2>1
  <2> QED BY <2>2, <2>3, <2>4
<1>4. ASSUME NEW i \in 1..Len(AdvancedBy(w, l1)),
             NEW j \in 1..Len(AdvancedBy(w, l2)),
             AdvancedBy(w, l1)[i].start = AdvancedBy(w, l2)[j].start
      PROVE  AdvancedBy(w, l1)[i].fill <= AdvancedBy(w, l2)[j].fill
  <2>1. i \in 1..Len(l1) /\ j \in 1..Len(l2) /\ l1[i].start = l2[j].start
    BY <1>2, <1>4
  <2>2. l1[i].fill <= l2[j].fill
    BY <2>1 DEF NoFuller
  <2>3. /\ AdvancedBy(w, l1)[i].fill = up(l1[i])
        /\ AdvancedBy(w, l2)[j].fill = up(l2[j])
    BY <1>2
  <2>4. l1[i].fill \in Nat /\ l2[j].fill \in Nat
    BY <1>1, <2>1
  <2> QED BY <2>1, <2>2, <2>3, <2>4
<1> QED BY <1>3, <1>4 DEF NoFuller

LEMMA NoFullerAppend ==
  ASSUME NEW l1 \in Seq(Block), NEW l2 \in Seq(Block), NEW b \in Block,
         \A i \in 1..Len(l1) : l1[i].start # b.start, NoFuller(l1, l2)
  PROVE  NoFuller(l1, Append(l2, b))
<1>1. ASSUME NEW j \in 1..Len(Append(l2, b))
      PROVE  \/ j \in 1..Len(l2) /\ Append(l2, b)[j] = l2[j]
             \/ Append(l2, b)[j] = b
  OBVIOUS
<1> QED BY <1>1 DEF NoFuller

LEMMA NoFullerAppendBoth ==
  ASSUME NEW l \in Seq(Block), NEW b \in Block,
         \A i \in 1..Len(l) : l[i].start # b.start, NoFuller(l, l)
  PROVE  NoFuller(Append(l, b), Append(l, b))
<1>1. ASSUME NEW j \in 1..Len(Append(l, b))
      PROVE  \/ j \in 1..Len(l) /\ Append(l, b)[j] = l[j]
             \/ Append(l, b)[j] = b
  OBVIOUS
<1>2. b.fill <= b.fill
  BY DEF Block
<1> QED BY <1>1, <1>2 DEF NoFuller

LEMMA FillsOrderedNext ==
  ASSUME IInv, [Next]_vars
  PROVE  FillsOrdered'
<1> USE DEF IInv
<1>0. /\ mem \in [Keys -> Seq(Block)] /\ disk \in [Keys -> Seq(Block)]
      /\ wlist \in [Writers -> Seq(Block)]
  BY DEF TypeInv, TypeOK, FilesType, IndexType, WritersType
<1>1. \A l : NoFuller(<<>>, l) /\ NoFuller(l, <<>>)
  BY DEF NoFuller
<1>2. ASSUME NEW w \in Writers, Copy(w)
      PROVE  /\ wpc[w] = "copy" /\ wpc'[w] = "update"
             /\ disk' = disk
             /\ wkey[w] \in Keys /\ wsize[w] \in Nat
  BY <1>2, BusyWriter DEF Copy, TypeInv, TypeOK, WritersType
<1>3. ASSUME NEW v \in Writers, NEW w \in Writers, wkey[v] = wkey[w],
             wpc[v] # "idle", wpc[w] # "idle"
      PROVE  v = w
  BY <1>3 DEF TypeInv, Working
<1>4. ASSUME NEW k \in Keys
      PROVE  /\ NoFuller(disk'[k], disk'[k])
             /\ NoFuller(disk'[k], mem'[k])
             /\ NoFuller(mem'[k], mem'[k])
  <2>1. NoFuller(disk'[k], disk'[k])
    BY DiskStep DEF FillsOrdered
  <2>2. CASE disk'[k] = mem[k] /\ mem' = mem
    BY <2>2 DEF FillsOrdered
  <2>3. CASE disk'[k] = disk[k]
    <3>1. CASE mem'[k] = mem[k] \/ mem'[k] = disk[k] \/ mem'[k] = <<>>
      BY <1>1, <2>3, <3>1 DEF FillsOrdered
    <3>2. ASSUME NEW w \in Writers, Update(w), wkey[w] = k,
                 mem'[k] = wlist[w]
          PROVE  NoFuller(disk'[k], mem'[k]) /\ NoFuller(mem'[k], mem'[k])
      BY <2>3, <3>2 DEF FillsOrdered, Update
    <3>3. ASSUME NEW w \in Writers, Copy(w), mem'[k] = AdvancedBy(w, mem[k])
          PROVE  NoFuller(disk'[k], mem'[k]) /\ NoFuller(mem'[k], mem'[k])
      BY <1>0, <1>2, <2>3, <3>3, NoFullerAdvanced DEF FillsOrdered
    <3> QED BY <2>1, <3>1, <3>2, <3>3, MemStep
  <2> QED BY <2>1, <2>2, <2>3, DiskStep
<1>5. ASSUME NEW w \in Writers, wpc'[w] # "idle"
      PROVE  /\ NoFuller(disk'[wkey'[w]], wlist'[w])
             /\ NoFuller(mem'[wkey'[w]], wlist'[w])
             /\ NoFuller(wlist'[w], wlist'[w])
  <2> DEFINE k == wkey[w]
  <2>1. CASE wlist'[w] = <<>>
    BY <1>1, <2>1
  <2>2. CASE wlist'[w] = wlist[w] /\ wkey'[w] = wkey[w]
             /\ (wpc'[w] = wpc[w] \/ KeepBlock(w) \/ WriteHeader(w))
    <3>1. wpc[w] # "idle" /\ k \in Keys
      BY <1>5, <2>2, BusyWriter DEF KeepBlock, AtCapacity, WriteHeader, TypeInv
    <3>2. disk'[k] = disk[k] \/ disk'[k] = mem[k]
      BY <3>1, DiskStep
    <3>3. ASSUME NEW v \in Writers, Update(v), wkey[v] = k
          PROVE  FALSE
      <4>1. v = w
        BY <1>3, <3>1, <3>3 DEF Update
      <4> QED BY <1>5, <3>3, <4>1
            DEF Update, WriterReturns, TypeInv, TypeOK, WritersType
    <3>4. ASSUME NEW v \in Writers, Copy(v), wkey[v] = k
          PROVE  FALSE
      <4>1. v = w
        BY <1>2, <1>3, <3>1, <3>4
      <4> QED BY <1>2, <2>2, <3>4, <4>1 DEF KeepBlock, AtCapacity, WriteHeader
    <3>5. mem'[k] = mem[k] \/ mem'[k] = disk[k] \/ mem'[k] = <<>>
      BY <3>1, <3>3, <3>4, MemStep
    <3> QED BY <1>1, <2>2, <3>1, <3>2, <3>5 DEF FillsOrdered
  <2>3. CASE /\ wkey'[w] \in Keys
             /\ wlist'[w] = mem'[wkey'[w]]
             /\ wlist'[w] \in {mem[wkey'[w]], disk[wkey'[w]]}
             /\ UNCHANGED files
    BY <2>3 DEF FillsOrdered, files
  <2>4. CASE /\ GrowFile(w) /\ wkey'[w] = wkey[w]
             /\ wlist'[w] = Append(wlist[w], NewBlock(Partition(wkey[w])))
    <3> DEFINE b == NewBlock(Partition(k))
    <3>1. /\ wpc[w] # "idle" /\ k \in Keys /\ Partition(k) \in Partitions
          /\ disk' = disk /\ mem' = mem
      BY <2>4, BusyWriter DEF GrowFile, AtCapacity, TypeInv, index
    <3>2. b \in Block
      BY <3>1, NewBlockShape
    <3>3. ASSUME NEW c \in BlocksOf(k)
          PROVE  c.start # b.start
      <4>1. c.end <= b.start
        BY <2>4, <3>1, NewBlockApart
      <4>2. c.start < c.end /\ c \in Block
        BY <3>1, BlockInBlock DEF BlocksOk, BlockOk
      <4> QED BY <3>2, <4>1, <4>2 DEF Block
    <3>4. /\ \A i \in 1..Len(disk[k]) : disk[k][i].start # b.start
          /\ \A i \in 1..Len(mem[k]) : mem[k][i].start # b.start
          /\ \A i \in 1..Len(wlist[w]) : wlist[w][i].start # b.start
      BY <3>1, <3>3, BlockCases
    <3>5. /\ NoFuller(disk[k], wlist[w])
          /\ NoFuller(mem[k], wlist[w])
          /\ NoFuller(wlist[w], wlist[w])
      BY <3>1 DEF FillsOrdered
    <3> HIDE DEF b
    <3>6. /\ NoFuller(disk[k], Append(wlist[w], b))
          /\ NoFuller(mem[k], Append(wlist[w], b))
          /\ NoFuller(Append(wlist[w], b), Append(wlist[w], b))
      BY <1>0, <3>1, <3>2, <3>4, <3>5, NoFullerAppend, NoFullerAppendBoth
    <3> QED BY <2>4, <3>1, <3>6 DEF b
  <2>5. CASE /\ Copy(w) /\ wkey'[w] = wkey[w]
             /\ wlist'[w] = AdvancedBy(w, wlist[w])
    <3>1. mem'[k] = AdvancedBy(w, mem[k])
      BY <1>0, <1>2, <2>5 DEF Copy, AdvancedBy
    <3> QED BY <1>0, <1>2, <2>5, <3>1, NoFullerAdvanced DEF FillsOrdered
  <2> QED BY <2>1, <2>2, <2>3, <2>4, <2>5, WlistStep
<1> QED BY <1>4, <1>5 DEF FillsOrdered, NoFuller

-----------------------------------------------------------------------------
(* What blocks hold.                                                       *)

LEMMA BlockInFile ==
  ASSUME IInv, NEW k \in Keys, NEW b \in BlocksOf(k)
  PROVE  b.end <= fileSize[Partition(k)]
<1> USE DEF IInv
<1> DEFINE p == Partition(k)
<1>1. /\ p \in Partitions /\ b \in Block
      /\ header[p] <= fileSize[p]
      /\ header[p] \in Nat /\ fileSize[p] \in Nat
  BY PartitionType, BlockInBlock, SizesAssumption
  DEF TypeInv, TypeOK, FilesType, HeadersOk, Garbage
<1>2. b.end <= header[p] \/ b.end <= fileSize[p]
  BY BlockCases DEF BlocksPlaced, BelowHeader
<1> QED BY <1>1, <1>2 DEF Block

\* Copy writes the cells after the last record of the writer's block, and
\* stays inside that block.
LEMMA CopyWrites ==
  ASSUME IInv, NEW w \in Writers, Copy(w)
  PROVE  LET p == Partition(wkey[w])
             l == wlist[w][Len(wlist[w])]
         IN  /\ p \in Partitions /\ wkey[w] \in Keys
             /\ l \in BlocksOf(wkey[w]) /\ l \in Block
             /\ wsize[w] \in Nat /\ l.fill + wsize[w] <= l.end
             /\ \A q \in Partitions : \A o \in 0..(MaxFile - 1) :
                  IF q = p /\ l.fill <= o /\ o < l.fill + wsize[w]
                  THEN cells'[q][o].key = wkey[w]
                  ELSE cells'[q][o] = cells[q][o]
<1> USE DEF IInv
<1> DEFINE p == Partition(wkey[w])
           l == wlist[w][Len(wlist[w])]
<1>1. /\ wpc[w] = "copy" /\ p \in Partitions /\ wkey[w] \in Keys
      /\ wsize[w] \in Nat /\ 1 <= wsize[w]
  BY BusyWriter DEF Copy, TypeInv
<1>2. /\ l \in BlocksOf(wkey[w]) /\ l \in Block
      /\ l.fill + wsize[w] <= l.end /\ Offset(w) = l.fill
  BY <1>1, LastBlock
<1>3. l.fill \in Nat
  BY <1>2 DEF Block
<1>4. cells' = [cells EXCEPT ![p] = CellsAfterCopy(w)]
  BY DEF Copy
<1>5. cells \in [Partitions -> [0..(MaxFile - 1) -> Cell]]
  BY DEF TypeInv, TypeOK, FilesType
<1> HIDE DEF p, l
<1>6. ASSUME NEW o \in 0..(MaxFile - 1)
      PROVE  IF l.fill <= o /\ o < l.fill + wsize[w]
             THEN CellsAfterCopy(w)[o].key = wkey[w]
             ELSE CellsAfterCopy(w)[o] = cells[p][o]
  BY <1>1, <1>2, <1>3, SizesAssumption DEF CellsAfterCopy, p
<1>7. ASSUME NEW q \in Partitions, NEW o \in 0..(MaxFile - 1)
      PROVE  IF q = p /\ l.fill <= o /\ o < l.fill + wsize[w]
             THEN cells'[q][o].key = wkey[w]
             ELSE cells'[q][o] = cells[q][o]
  BY <1>1, <1>4, <1>5, <1>6
<1> QED BY <1>1, <1>2, <1>7 DEF p, l

LEMMA CellsStep ==
  ASSUME [Next]_vars
  PROVE  cells' = cells \/ \E w \in Writers : Copy(w)
  BY FilesFrame DEF files, GrowFile, WriteHeader, GrowFails, SaveTruncate,
                    SaveWrite

LEMMA BlocksOkNext ==
  ASSUME IInv, [Next]_vars
  PROVE  BlocksOk'
<1> USE DEF IInv
<1>0. MaxFile \in Nat /\ Growth \in Nat /\ 1 <= Growth
  BY SizesAssumption
<1>1. ASSUME NEW k \in Keys, NEW b \in BlocksOf(k)
      PROVE  /\ Partition(k) \in Partitions
             /\ b.start \in Nat /\ b.end \in Nat /\ b.fill \in Nat
             /\ b.end <= MaxFile
             /\ BlockOk(k, b)
  <2>1. b \in Block /\ Partition(k) \in Partitions
    BY BlockInBlock, PartitionType
  <2>2. fileSize[Partition(k)] \in 0..MaxFile
    BY <2>1 DEF TypeInv, TypeOK, FilesType
  <2>3. b.end <= fileSize[Partition(k)]
    BY BlockInFile
  <2>4. BlockOk(k, b)
    BY DEF BlocksOk
  <2> QED BY <1>0, <2>1, <2>2, <2>3, <2>4 DEF Block
<1>2. ASSUME NEW k \in Keys, NEW b \in BlocksOf(k)
      PROVE  \A o \in b.start..(b.fill - 1) : cells'[Partition(k)][o].key = k
  <2>1. CASE cells' = cells
    BY <1>1, <2>1 DEF BlockOk
  <2>2. ASSUME NEW w \in Writers, Copy(w),
               NEW o \in b.start..(b.fill - 1)
        PROVE  cells'[Partition(k)][o].key = k
    <3> DEFINE l == wlist[w][Len(wlist[w])]
               m == wkey[w]
    <3>1. /\ m \in Keys /\ l \in BlocksOf(m) /\ wsize[w] \in Nat
          /\ l.fill + wsize[w] <= l.end
      BY <2>2, CopyWrites
    <3>2. /\ o \in 0..(MaxFile - 1) /\ b.start <= o /\ o < b.end
          /\ cells[Partition(k)][o].key = k
      BY <1>0, <1>1, <2>2 DEF BlockOk
    <3>3. l.start <= l.fill /\ l.start \in Nat /\ l.fill \in Nat
          /\ l.end \in Nat
      BY <1>1, <3>1 DEF BlockOk
    <3>4. CASE Partition(k) = Partition(m) /\ l.fill <= o
               /\ o < l.fill + wsize[w]
      <4>1. Apart(k, b, m, l)
        BY <3>1, <3>4 DEF BlocksApart
      <4>2. k = m
        BY <1>1, <3>1, <3>2, <3>3, <3>4, <4>1 DEF Apart
      <4> QED BY <1>1, <2>2, <3>2, <3>4, <4>2, CopyWrites
    <3>5. CASE ~(Partition(k) = Partition(m) /\ l.fill <= o
                 /\ o < l.fill + wsize[w])
      <4>1. cells'[Partition(k)][o] = cells[Partition(k)][o]
        BY <1>1, <2>2, <3>2, <3>5, CopyWrites
      <4> QED BY <3>2, <4>1
    <3> QED BY <3>4, <3>5
  <2> QED BY <2>1, <2>2, CellsStep
<1>3. ASSUME NEW k \in Keys, NEW b \in BlocksOf(k)'
      PROVE  /\ 1 <= b.start /\ b.start < b.end
             /\ b.start <= b.fill /\ b.fill <= b.end
             /\ \A o \in b.start..(b.fill - 1) :
                  cells'[Partition(k)][o].key = k
  <2> DEFINE Goal == /\ 1 <= b.start /\ b.start < b.end
                     /\ b.start <= b.fill /\ b.fill <= b.end
                     /\ \A o \in b.start..(b.fill - 1) :
                          cells'[Partition(k)][o].key = k
  <2>1. ASSUME b \in BlocksOf(k)
        PROVE  Goal
    BY <1>1, <1>2, <2>1 DEF BlockOk
  <2>2. ASSUME b = NewBlock(Partition(k))
        PROVE  Goal
    <3>1. /\ b \in Block /\ b.fill = b.start
          /\ 1 <= b.start /\ b.start < b.end
      BY <2>2, PartitionType, NewBlockShape
    <3>2. b.start \in Nat /\ b.end \in Nat
      BY <3>1 DEF Block
    <3>3. b.start..(b.fill - 1) = {}
      BY <3>1, <3>2
    <3> QED BY <3>1, <3>2, <3>3
  <2>3. ASSUME NEW w \in Writers, Copy(w), wkey[w] = k,
               NEW c \in BlocksOf(k),
               c.start = wlist[w][Len(wlist[w])].start,
               c.fill <= wlist[w][Len(wlist[w])].fill,
               b.start = c.start, b.end = c.end, b.fill = c.fill + wsize[w]
        PROVE  Goal
    <3> DEFINE l == wlist[w][Len(wlist[w])]
    <3>1. /\ l \in BlocksOf(k) /\ wsize[w] \in Nat
          /\ l.fill + wsize[w] <= l.end
      BY <2>3, CopyWrites
    <3>2. /\ BlockOk(k, l) /\ BlockOk(k, c)
          /\ l.start \in Nat /\ l.end \in Nat /\ l.fill \in Nat
          /\ c.start \in Nat /\ c.end \in Nat /\ c.fill \in Nat
          /\ l.end <= MaxFile
      BY <1>1, <2>3, <3>1
    <3>3. c.start = l.start /\ c.fill <= l.fill
      BY <2>3
    <3>4. Apart(k, c, k, l)
      BY <2>3, <3>1 DEF BlocksApart
    <3>5. c.end = l.end
      BY <3>2, <3>3, <3>4 DEF Apart, BlockOk
    <3>6. /\ 1 <= b.start /\ b.start < b.end
          /\ b.start <= b.fill /\ b.fill <= b.end
      BY <2>3, <3>1, <3>2, <3>3, <3>5 DEF BlockOk
    <3>7. ASSUME NEW o \in b.start..(b.fill - 1)
          PROVE  cells'[Partition(k)][o].key = k
      <4>0. /\ o \in Int /\ l.start <= o
            /\ o < c.fill + wsize[w]
        BY <2>3, <3>1, <3>2, <3>3, <3>7
      <4>1. /\ o \in 0..(MaxFile - 1) /\ l.start <= o
            /\ o < l.fill + wsize[w] /\ o \in Nat
        <5> HIDE DEF l
        <5> QED BY <1>0, <3>1, <3>2, <3>3, <4>0 DEF BlockOk
      <4>2. CASE l.fill <= o
        BY <1>1, <2>3, <4>1, <4>2, CopyWrites
      <4>3. CASE ~(l.fill <= o)
        <5>1. o \in l.start..(l.fill - 1)
          BY <3>2, <4>1, <4>3
        <5> QED BY <1>2, <3>1, <5>1
      <4> QED BY <4>2, <4>3
    <3> QED BY <3>6, <3>7
  <2> HIDE DEF Goal
  <2>4. \/ b \in BlocksOf(k) \/ b = NewBlock(Partition(k))
        \/ \E w \in Writers :
             /\ Copy(w) /\ wkey[w] = k
             /\ \E c \in BlocksOf(k) :
                  /\ c.start = wlist[w][Len(wlist[w])].start
                  /\ c.fill <= wlist[w][Len(wlist[w])].fill
                  /\ b.start = c.start /\ b.end = c.end
                  /\ b.fill = c.fill + wsize[w]
    BY BlockStep
  <2>5. Goal
    BY <2>1, <2>2, <2>3, <2>4
  <2> QED BY <2>5 DEF Goal
<1>4. \A k : Partition(k)' = Partition(k)
  BY DEF Partition
<1> QED BY <1>3, <1>4 DEF BlocksOk, BlockOk

-----------------------------------------------------------------------------
(* The theorems.                                                           *)

LEMMA IInvInit == Init => IInv
<1> SUFFICES ASSUME Init PROVE IInv
  OBVIOUS
<1>1. TypeInv
  BY TypeInit
<1>2. HeadersOk
  BY DEF Init, HeadersOk, HandleEnd
<1>3. OneGrower /\ BlocksPlaced /\ RoomMade /\ FillsOrdered
  BY DEF Init, OneGrower, BlocksPlaced, RoomMade, FillsOrdered, NoFuller
<1>4. \A k \in Keys : BlocksOf(k) = {}
  <2>1. \A k \in Keys : mem[k] = <<>> /\ disk[k] = <<>>
    BY DEF Init
  <2>2. \A w \in Writers : wlist[w] = <<>>
    BY DEF Init
  <2> QED BY <2>1, <2>2, BlockCases
<1>5. BlocksOk /\ BlocksApart
  BY <1>4 DEF BlocksOk, BlocksApart
<1> QED BY <1>1, <1>2, <1>3, <1>5 DEF IInv

LEMMA IInvNext ==
  "tornHeader" \notin Faults /\ IInv /\ [Next]_vars => IInv'
<1> SUFFICES ASSUME "tornHeader" \notin Faults, IInv, [Next]_vars
             PROVE  IInv'
  OBVIOUS
<1>1. TypeInv'
  BY TypeNext DEF IInv
<1> QED
  BY <1>1, HeadersOkNext, OneGrowerNext, BlocksPlacedNext, RoomMadeNext,
     BlocksOkNext, BlocksApartNext, FillsOrderedNext
  DEF IInv

LEMMA IInvHolds ==
  ASSUME "tornHeader" \notin Faults
  PROVE  Spec => []IInv
<1>1. IInv /\ [Next]_vars => IInv'
  BY IInvNext
<1> QED BY <1>1, IInvInit, PTL DEF Spec

\* No byte of a data file is handed out twice, in memory or on disk, however
\* writers, saves, failures, deaths and restarts interleave (CheckCapacity).
THEOREM BlocksDisjointCorrect ==
  ASSUME "tornHeader" \notin Faults
  PROVE  Spec => []BlocksDisjoint
<1>1. ASSUME IInv
      PROVE  BlocksDisjoint
  <2>1. ASSUME NEW k \in Keys, NEW b \in BlocksOf(k)
        PROVE  HeaderLen <= b.start /\ b.end <= fileSize[Partition(k)]
    BY <1>1, BlockInFile DEF IInv, BlocksOk, BlockOk
  <2>2. ASSUME NEW k \in Keys, NEW b \in BlocksOf(k),
               NEW m \in KeysOf(Partition(k)), NEW c \in BlocksOf(m)
        PROVE  Apart(k, b, m, c)
    BY <1>1 DEF KeysOf, IInv, BlocksApart
  <2> QED BY <2>1, <2>2 DEF BlocksDisjoint, Apart
<1> QED BY <1>1, IInvHolds, PTL

\* Whatever list leads a query to a byte of a key, a Put of that key wrote it.
THEOREM OwnCellsCorrect ==
  ASSUME "tornHeader" \notin Faults
  PROVE  Spec => []OwnCells
<1>1. IInv => OwnCells
  BY DEF IInv, BlocksOk, BlockOk, OwnCells
<1> QED BY <1>1, IInvHolds, PTL

\* No writer ever overwrites a record that a saved index file covers.
THEOREM SavedCellsStableCorrect ==
  ASSUME "tornHeader" \notin Faults
  PROVE  Spec => SavedCellsStable
<1> DEFINE Stable ==
      \A k \in Keys : \A i \in 1..Len(disk[k]) :
        \A o \in disk[k][i].start..(disk[k][i].fill - 1) :
          cells'[Partition(k)][o] = cells[Partition(k)][o]
<1>1. ASSUME IInv, [Next]_vars
      PROVE  Stable
  <2> USE <1>1
  <2>1. ASSUME NEW w \in Writers, Copy(w), NEW k \in Keys,
               NEW i \in 1..Len(disk[k]),
               NEW o \in disk[k][i].start..(disk[k][i].fill - 1)
        PROVE  cells'[Partition(k)][o] = cells[Partition(k)][o]
    <3> DEFINE b == disk[k][i]
               l == wlist[w][Len(wlist[w])]
               m == wkey[w]
    <3>1. /\ m \in Keys /\ l \in BlocksOf(m) /\ l \in Block
          /\ wsize[w] \in Nat /\ l.fill + wsize[w] <= l.end
          /\ wpc[w] = "copy"
      BY <2>1, CopyWrites DEF Copy
    <3>2. b \in BlocksOf(k) /\ b \in Block /\ Partition(k) \in Partitions
      BY <2>1, BlockCases, BlockInBlock, PartitionType DEF IInv
    <3>3. /\ 1 <= b.start /\ b.fill <= b.end /\ b.start < b.end
          /\ l.start <= l.fill /\ l.start < l.end
      BY <3>1, <3>2 DEF IInv, BlocksOk, BlockOk
    <3>4. fileSize[Partition(k)] \in 0..MaxFile
          /\ b.end <= fileSize[Partition(k)]
      BY <3>2, BlockInFile DEF IInv, TypeInv, TypeOK, FilesType
    <3>5. o \in 0..(MaxFile - 1) /\ b.start <= o /\ o < b.fill
      BY <2>1, <3>2, <3>3, <3>4, SizesAssumption DEF Block
    <3>6. CASE Partition(k) = Partition(m) /\ l.fill <= o
               /\ o < l.fill + wsize[w]
      <4>1. Apart(k, b, m, l)
        BY <3>1, <3>2, <3>6 DEF IInv, BlocksApart
      <4>2. k = m /\ b.start = l.start
        <5>1. /\ b.start \in Nat /\ b.end \in Nat /\ b.fill \in Nat
              /\ l.start \in Nat /\ l.end \in Nat /\ l.fill \in Nat
          BY <3>1, <3>2 DEF Block
        <5>2. ~(b.end <= l.start) /\ ~(l.end <= b.start)
          <6>1. o \in Int
            BY <3>5, SizesAssumption
          <6> HIDE DEF b, l
          <6> QED BY <3>1, <3>3, <3>5, <3>6, <5>1, <6>1
        <5> QED BY <4>1, <5>2 DEF Apart
      <4>3. Len(wlist[w]) \in 1..Len(wlist[w])
        BY <3>1, LastBlock DEF IInv
      <4>4. b.fill <= l.fill
        <5>1. NoFuller(disk[k], wlist[w])
          BY <3>1, <4>2 DEF IInv, FillsOrdered
        <5> QED BY <2>1, <4>2, <4>3, <5>1 DEF NoFuller
      <4>5. o \in Int /\ b.fill \in Int /\ l.fill \in Int
        BY <3>1, <3>2, <3>5, SizesAssumption DEF Block
      <4> HIDE DEF b, l
      <4> QED BY <3>5, <3>6, <4>4, <4>5
    <3>7. CASE ~(Partition(k) = Partition(m) /\ l.fill <= o
                 /\ o < l.fill + wsize[w])
      BY <2>1, <3>2, <3>5, <3>7, CopyWrites
    <3> QED BY <3>6, <3>7
  <2> QED BY <2>1, CellsStep
<1>2. IInv /\ [Next]_vars => [Stable]_vars
  BY <1>1
<1>3. Spec => [][Stable]_vars
  BY <1>2, IInvHolds, PTL DEF Spec
<1> QED BY <1>3 DEF SavedCellsStable
=============================================================================
