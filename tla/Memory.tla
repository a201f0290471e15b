------------------------------- MODULE Memory -------------------------------
(***************************************************************************)
(* How the x86 kernel gets its heap: BootInfoFrameAllocator of             *)
(* src/src/memory.rs hands out the usable frames of the bootloader's       *)
(* memory map one after the other, and init_heap of src/src/allocator.rs   *)
(* maps the heap's pages to them.  Mapper::map_to (a library) takes        *)
(* further frames from the same allocator for the page tables it needs.    *)
(***************************************************************************)
EXTENDS Naturals, Sequences

CONSTANTS
    MemoryMaps,     \* the memory maps the bootloader may pass
    PageSize,       \* 4096
    HeapStart,      \* HEAP_START
    HeapSize,       \* HEAP_SIZE, in bytes
    MaxTables,      \* page tables one map_to may have to create
    NoFrame         \* the None of Option<PhysFrame>

MemoryRegion == [start : Nat, end : Nat, usable : BOOLEAN]

(* What the caller of BootInfoFrameAllocator::init promises of the         *)
(* bootloader's map: regions begin and end at page boundaries and do not   *)
(* overlap.  The allocator does not check it: with a region that begins    *)
(* inside a page, containing_address would hand out memory before it.      *)
Disjoint(r1, r2) == r1.end <= r2.start \/ r2.end <= r1.start

WellFormed(map) ==
    /\ \A i \in DOMAIN map :
          /\ map[i].start % PageSize = 0 /\ map[i].end % PageSize = 0
          /\ map[i].start <= map[i].end
    /\ \A i, j \in DOMAIN map : i # j => Disjoint(map[i], map[j])

ASSUME MemoryAssumption ==
    /\ NoFrame \notin Nat
    /\ PageSize \in Nat \ {0} /\ MaxTables \in Nat
    /\ HeapStart \in Nat /\ HeapSize \in Nat \ {0}
    /\ \A map \in MemoryMaps :
          /\ map \in Seq(MemoryRegion)
          /\ WellFormed(map)

VARIABLES
    memory_map, next,   \* BootInfoFrameAllocator
    page,               \* the page of the loop of init_heap, by number
    frame,              \* the frame allocated for it, or NoFrame
    owed,               \* page tables map_to still has to create for it
    present,            \* the pages mapped so far
    mapped,             \* the frames they are mapped to, in order
    tables,             \* the frames used as page tables, in order
    status              \* "mapping", "ready" (heap initialised), "failed"

memVars == <<memory_map, next, page, frame, owed, present, mapped, tables, status>>

(* PhysFrame::containing_address: the start of the frame. *)
ContainingFrame(addr) == (addr \div PageSize) * PageSize

(* The frames of one region: step_by from its start. *)
FramesOf(r) ==
    [i \in 1 .. (r.end - r.start + PageSize - 1) \div PageSize |->
        ContainingFrame(r.start + (i - 1) * PageSize)]

(* Mutant: reserved regions are handed out too. *)
MutAllFrames(map) ==
    LET upto[n \in 0 .. Len(map)] ==
            IF n = 0 THEN <<>> ELSE upto[n - 1] \o FramesOf(map[n])
    IN  upto[Len(map)]

(* usable_frames: those of the usable regions, in the order of the map. *)
usable_frames(map) ==
    LET upto[n \in 0 .. Len(map)] ==
            IF n = 0 THEN <<>>
            ELSE IF map[n].usable THEN upto[n - 1] \o FramesOf(map[n]) ELSE upto[n - 1]
    IN  upto[Len(map)]

-----------------------------------------------------------------------------
(* Page::containing_address: the number of the page. *)
ContainingPage(addr) == addr \div PageSize

(* Mutant: the first address after the heap. *)
MutHeapEnd == HeapStart + HeapSize

(* heap_end: the last address of the heap. *)
HeapEnd == HeapStart + HeapSize - 1

(* The ends of page_range, both inclusive. *)
HeapStartPage == ContainingPage(HeapStart)

HeapEndPage == ContainingPage(HeapEnd)

MemInit ==
    /\ memory_map \in MemoryMaps
    /\ next = 0
    /\ page = HeapStartPage /\ frame = NoFrame /\ owed = 0
    /\ present = {} /\ mapped = <<>> /\ tables = <<>>
    /\ status = "mapping"

(* Mutant: next is not advanced. *)
MutAdvance == next

Advance == next + 1

(* allocate_frame: the frame, or NoFrame when memory is exhausted; next is *)
(* advanced in either case.                                                *)
Allocated ==
    IF next < Len(usable_frames(memory_map))
    THEN usable_frames(memory_map)[next + 1]
    ELSE NoFrame

OutOfFrames ==
    /\ status = "mapping" /\ page <= HeapEndPage
    /\ frame = NoFrame \/ owed > 0
    /\ Allocated = NoFrame
    /\ next' = Advance
    /\ status' = "failed"
    /\ UNCHANGED <<memory_map, page, frame, owed, present, mapped, tables>>

(* One turn of init_heap: a frame for the page, then map_to with the page  *)
(* tables it needs.                                                        *)
AllocateForPage ==
    /\ status = "mapping" /\ page <= HeapEndPage /\ frame = NoFrame
    /\ Allocated # NoFrame
    /\ frame' = Allocated
    /\ next' = Advance
    /\ owed' \in 0 .. MaxTables
    /\ UNCHANGED <<memory_map, page, present, mapped, tables, status>>

CreateTable ==
    /\ status = "mapping" /\ frame # NoFrame /\ owed > 0
    /\ Allocated # NoFrame
    /\ tables' = Append(tables, Allocated)
    /\ next' = Advance
    /\ owed' = owed - 1
    /\ UNCHANGED <<memory_map, page, frame, present, mapped, status>>

MapPage ==
    /\ status = "mapping" /\ frame # NoFrame /\ owed = 0
    /\ present' = present \cup {page}
    /\ mapped' = Append(mapped, frame)
    /\ page' = page + 1
    /\ frame' = NoFrame
    /\ UNCHANGED <<memory_map, next, owed, tables, status>>

(* ALLOCATOR.lock().init, after the loop. *)
InitAllocator ==
    /\ status = "mapping" /\ page > HeapEndPage
    /\ frame = NoFrame
    /\ status' = "ready"
    /\ UNCHANGED <<memory_map, next, page, frame, owed, present, mapped, tables>>

MemNext ==
    AllocateForPage \/ CreateTable \/ MapPage \/ InitAllocator \/ OutOfFrames

MemSpec == MemInit /\ [][MemNext]_memVars

-----------------------------------------------------------------------------
(* Every frame that has been handed out, in order. *)
HandedOut == mapped \o tables \o (IF frame = NoFrame THEN <<>> ELSE <<frame>>)

(* No frame serves twice: neither two heap pages, nor two page tables, nor *)
(* a heap page and a page table share one, although init_heap and map_to   *)
(* draw from the same allocator alternately.                               *)
FramesAreDistinct ==
    \A i, j \in DOMAIN HandedOut : HandedOut[i] = HandedOut[j] => i = j

(* Every frame lies inside a region the bootloader calls usable. *)
FramesAreUsable ==
    \A i \in DOMAIN HandedOut : \E k \in DOMAIN memory_map :
        /\ memory_map[k].usable
        /\ memory_map[k].start <= HandedOut[i]
        /\ HandedOut[i] + PageSize <= memory_map[k].end

(* When the heap is initialised each of its bytes lies in a mapped page,   *)
(* and no page was mapped that holds none of them, wherever in a page the  *)
(* heap begins and ends.                                                   *)
HeapFullyMapped ==
    LET Holds(p, a) == p * PageSize <= a /\ a < (p + 1) * PageSize
        Heap == HeapStart .. HeapStart + HeapSize - 1
    IN  status = "ready" =>
            /\ \A a \in Heap : \E p \in present : Holds(p, a)
            /\ \A p \in present : \E a \in Heap : Holds(p, a)

=============================================================================
