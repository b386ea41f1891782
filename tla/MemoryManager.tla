--------------------------- MODULE MemoryManager ---------------------------
(***************************************************************************)
(* The memory manager of libjpeg (jmemmgr.c) over the system-dependent     *)
(* part (jmemansi.c, jmemname.c, jmemdos.c, jmemmac.c or jmemnobs.c):      *)
(* small objects that share pools, large objects, and the buffers of       *)
(* virtual arrays, one of which is the one of module VirtualArray.         *)
(***************************************************************************)
EXTENDS VirtualArray, Sequences, FiniteSets, Functions

CONSTANTS
  samplesperrow,       \* the bytes of a row of the observed array
  Sizes,               \* of the objects asked for
  OtherArrays,         \* virtual arrays requested beside it: rows, width, maxaccess
  Limits,              \* values of max_memory_to_use
  FreeBlocks,          \* the sizes CompactMem may find
  FIRST_SLOP, EXTRA_SLOP, MIN_SLOP, MAX_ALLOC_CHUNK, ALIGN, HEADER, CONTROL, POINTER,
  MAC_SLOP,
  MaxObjects,          \* bound: pools and large objects at a time
  MaxArrays            \* bound: virtual arrays at a time

PERMANENT == 0
IMAGE     == 1
Pools     == {PERMANENT, IMAGE}

ASSUME ObjectsAssumption ==
  /\ samplesperrow \in Nat \ {0} /\ Sizes \subseteq Nat \ {0}
  /\ \A o \in OtherArrays : {o.rows, o.width, o.maxaccess} \subseteq Nat \ {0}
ASSUME SystemAssumption ==
  /\ {HEADER, CONTROL, MAC_SLOP} \subseteq Nat /\ {ALIGN, POINTER, MIN_SLOP, MAX_ALLOC_CHUNK} \subseteq Nat \ {0}
  /\ FIRST_SLOP \in [Pools -> Nat] /\ EXTRA_SLOP \in [Pools -> Nat]
  /\ Limits \subseteq Int /\ FreeBlocks \subseteq Nat

VARIABLES
  backend,             \* the system-dependent part that was linked
  max_memory_to_use,
  mem,                 \* small_list, large_list, total_space_allocated, and obtained:
                       \* the bytes that the system has given and not got back
  arrays,              \* the virtual arrays, in the order they are realized in
  plan,                \* avail_mem and max_minheights of realize_virt_arrays
  open_files,          \* of the system
  state                \* "open", "realizing", "error" after ERREXIT, "destroyed"

poolVars == <<backend, max_memory_to_use, mem, arrays, plan, open_files, state>>
allVars == <<arrayVars, poolVars>>

Observed == [rows |-> rows_in_array, width |-> samplesperrow, maxaccess |-> maxaccess,
             in_mem |-> 0, b_s_open |-> FALSE, observed |-> TRUE]
Other(o) == [rows |-> o.rows, width |-> o.width, maxaccess |-> o.maxaccess,
             in_mem |-> 0, b_s_open |-> FALSE, observed |-> FALSE]
NoPlan == [avail |-> 0, least |-> 0, max_minheights |-> 0, arrays |-> 0]

ManagerInit ==
  /\ ArrayInit
  /\ backend \in {"file", "mac", "nobs"}
  /\ max_memory_to_use \in IF backend = "nobs" THEN {0} ELSE Limits
  /\ mem = [small |-> [p \in Pools |-> <<>>], large |-> [p \in Pools |-> <<>>],
            total |-> CONTROL, obtained |-> CONTROL]
  /\ arrays = <<>> /\ plan = NoPlan /\ open_files = 0
  /\ state = "open"

-----------------------------------------------------------------------------
RoundUp(size) == ((size + ALIGN - 1) \div ALIGN) * ALIGN

Objects(m) == SumFunction([p \in Pools |-> Len(m.small[p]) + Len(m.large[p])])

\* The pools of the list with room for size bytes; the first one is taken.
WithRoom(m, p, size) == {k \in DOMAIN m.small[p] : m.small[p][k].left >= size}
FirstOf(S) == CHOOSE k \in S : \A j \in S : k <= j

\* The slop that alloc_small asks for at first, and after the system refused.
Slop(m, p, size) ==
  LET wanted == IF m.small[p] = <<>> THEN FIRST_SLOP[p] ELSE EXTRA_SLOP[p]
      room == MAX_ALLOC_CHUNK - (size + HEADER)
  IN  IF wanted > room THEN room ELSE wanted
Slops(first) == {first} \union {slop \in {first \div d : d \in {2, 4, 8, 16, 32, 64, 128, 256}} : slop >= MIN_SLOP}

NewPool(m, p, size, slop) ==
  [m EXCEPT !.small[p] = Append(@, [used |-> size, left |-> slop]),
            !.total = @ + size + HEADER + slop,
            !.obtained = @ + size + HEADER + slop]

\* The outcomes of alloc_small for a size that was rounded up.
SmallAllocations(m, p, size) ==
  IF WithRoom(m, p, size) # {}
  THEN {[m EXCEPT !.small[p][FirstOf(WithRoom(m, p, size))] =
           [used |-> @.used + size, left |-> @.left - size]]}
  ELSE {NewPool(m, p, size, slop) : slop \in Slops(Slop(m, p, size))}

\* alloc_large always makes a new pool.
LargeAllocation(m, p, size) ==
  [m EXCEPT !.large[p] = <<size>> \o @,
            !.total = @ + size + HEADER,
            !.obtained = @ + size + HEADER]

TooLarge(size) == size > MAX_ALLOC_CHUNK - HEADER

\* The chunks of alloc_sarray: as many rows together as one request allows.
RowsPerChunk(width, rows) ==
  LET most == (MAX_ALLOC_CHUNK - HEADER) \div width
  IN  IF most < rows THEN most ELSE rows
Chunks(width, rows) ==
  LET n == RowsPerChunk(width, rows)
      count == (rows + n - 1) \div n
  IN  [k \in 1 .. count |-> (IF k < count THEN n ELSE rows - (count - 1) * n) * width]

\* alloc_sarray after its first done chunks, each before those that were there;
\* what was got stays in the pool if the system refuses the next.
SomeChunks(m, p, width, rows, done) ==
  LET sizes == [k \in 1 .. done |-> RoundUp(Chunks(width, rows)[(done + 1) - k])]
      bytes == SumFunction([k \in 1 .. done |-> sizes[k] + HEADER])
  IN  [m EXCEPT !.large[p] = sizes \o @, !.total = @ + bytes, !.obtained = @ + bytes]

-----------------------------------------------------------------------------
Open == state = "open" /\ Objects(mem) < MaxObjects

AllocSmall ==
  /\ Open
  /\ \E p \in Pools, size \in Sizes :
       /\ ~ TooLarge(size)
       /\ mem' \in SmallAllocations(mem, p, RoundUp(size))
  /\ UNCHANGED <<arrayVars, backend, max_memory_to_use, arrays, plan, open_files, state>>

AllocLarge ==
  /\ Open
  /\ \E p \in Pools, size \in Sizes :
       ~ TooLarge(size) /\ mem' = LargeAllocation(mem, p, RoundUp(size))
  /\ UNCHANGED <<arrayVars, backend, max_memory_to_use, arrays, plan, open_files, state>>

\* A request larger than malloc can serve, or refused by the system.
AllocFails ==
  /\ state = "open" /\ state' = "error"
  /\ UNCHANGED <<arrayVars, backend, max_memory_to_use, mem, arrays, plan, open_files>>

\* request_virt_sarray: the list grows at its head.
RequestVirtArray ==
  /\ Open
  /\ Len(arrays) < MaxArrays
  /\ \E a \in {Observed} \union {Other(o) : o \in OtherArrays} :
       /\ a.observed => \A k \in DOMAIN arrays : ~ arrays[k].observed
       /\ mem' \in SmallAllocations(mem, IMAGE, RoundUp(CONTROL))
       /\ arrays' = <<a>> \o arrays
  /\ UNCHANGED <<arrayVars, backend, max_memory_to_use, plan, open_files, state>>

Unrealized == {k \in DOMAIN arrays : arrays[k].in_mem = 0}
LeastSpace == [k \in DOMAIN arrays |-> arrays[k].maxaccess * arrays[k].width]
FullSpace == [k \in DOMAIN arrays |-> arrays[k].rows * arrays[k].width]
space_per_minheight == SumFunctionOnSet(LeastSpace, Unrealized)
maximum_space == SumFunctionOnSet(FullSpace, Unrealized)

\* jpeg_mem_available: with files as backing store, what max_memory_to_use has left;
FileAvailable == {max_memory_to_use - mem.total}

\* without backing store, everything;
NobsAvailable == {maximum_space}

\* on the Macintosh, what CompactMem finds, less a slop, within the same limit.
MacAvailable ==
  LET limit == max_memory_to_use - mem.total
      needed == IF maximum_space > limit /\ limit > 0 THEN limit ELSE maximum_space
      slop == (needed \div 16) + MAC_SLOP
      Capped(n) == IF n > limit /\ limit > 0 THEN limit ELSE n
  IN  {Capped(IF free < slop THEN 0 ELSE free - slop) : free \in FreeBlocks}

Available ==
  CASE backend = "file" -> FileAvailable
    [] backend = "nobs" -> NobsAvailable
    [] backend = "mac"  -> MacAvailable

\* The strips of maxaccess rows that each buffer may have.
MinHeights(avail) ==
  IF avail >= maximum_space THEN 1000000000
  ELSE IF avail < space_per_minheight THEN 1
  ELSE avail \div space_per_minheight

BeginRealize ==
  /\ state = "open" /\ Unrealized # {}
  /\ \E avail \in Available :
       plan' = [avail |-> avail, least |-> space_per_minheight, max_minheights |-> MinHeights(avail),
                arrays |-> Cardinality(Unrealized)]
  /\ state' = "realizing"
  /\ UNCHANGED <<arrayVars, backend, max_memory_to_use, mem, arrays, open_files>>

\* (mutant) The last, partial strip of an array is not counted.
BufferRowsRoundedDown(a) ==
  IF a.rows \div a.maxaccess <= plan.max_minheights THEN a.rows ELSE plan.max_minheights * a.maxaccess

BufferRows(a) ==
  IF ((a.rows - 1) \div a.maxaccess) + 1 <= plan.max_minheights THEN a.rows ELSE plan.max_minheights * a.maxaccess

\* alloc_sarray refuses rows that are longer than a chunk may be, and more pointers
\* than one object has room for.
Allocatable(a, h) == a.width <= MAX_ALLOC_CHUNK - HEADER /\ ~ TooLarge(h * POINTER)

\* The next array gets its buffer, and a backing store if it needs one.
RealizeArray ==
  /\ state = "realizing" /\ Unrealized # {}
  /\ LET k == FirstOf(Unrealized)
         a == arrays[k]
         h == BufferRows(a)
     IN  /\ h = a.rows \/ backend # "nobs"
         /\ Allocatable(a, h)
         /\ open_files' = IF h < a.rows THEN open_files + 1 ELSE open_files
         /\ \E m \in SmallAllocations(mem, IMAGE, RoundUp(h * POINTER)) :
              mem' = SomeChunks(m, IMAGE, a.width, h, Len(Chunks(a.width, h)))
         /\ arrays' = [arrays EXCEPT ![k].in_mem = h, ![k].b_s_open = (h < a.rows)]
         /\ IF a.observed THEN RealizeWith(h) ELSE UNCHANGED arrayVars
  /\ UNCHANGED <<backend, max_memory_to_use, plan, state>>

\* (mutant) b_s_open is only set when the buffer is there.
RealizeFailsBeforeFlag ==
  /\ state = "realizing" /\ Unrealized # {}
  /\ LET k == FirstOf(Unrealized)
         a == arrays[k]
         h == BufferRows(a)
     IN  /\ h = a.rows \/ backend # "nobs"
         /\ open_files' = IF h < a.rows THEN open_files + 1 ELSE open_files
  /\ state' = "error"
  /\ UNCHANGED <<arrayVars, backend, max_memory_to_use, mem, arrays, plan>>

\* The backing store cannot be opened, or memory runs out between two chunks.
RealizeFails ==
  /\ state = "realizing" /\ Unrealized # {}
  /\ LET k == FirstOf(Unrealized)
         a == arrays[k]
         h == BufferRows(a)
     IN  \/ h < a.rows /\ UNCHANGED <<mem, open_files, arrays>>
         \/ /\ h = a.rows \/ backend # "nobs"
            /\ open_files' = IF h < a.rows THEN open_files + 1 ELSE open_files
            /\ arrays' = [arrays EXCEPT ![k].b_s_open = (h < a.rows)]
            /\ \/ UNCHANGED mem
               \/ /\ Allocatable(a, h)
                  /\ \E m \in SmallAllocations(mem, IMAGE, RoundUp(h * POINTER)),
                        done \in 0 .. Len(Chunks(a.width, h)) - 1 :
                       mem' = SomeChunks(m, IMAGE, a.width, h, done)
  /\ state' = "error"
  /\ UNCHANGED <<arrayVars, backend, max_memory_to_use, plan>>

EndRealize ==
  /\ state = "realizing" /\ Unrealized = {}
  /\ state' = "open"
  /\ UNCHANGED <<arrayVars, backend, max_memory_to_use, mem, arrays, plan, open_files>>

\* What the pools take, with their headers.
InPools(m, p) ==
  SumFunction([k \in DOMAIN m.small[p] |-> m.small[p][k].used + m.small[p][k].left + HEADER])
    + SumFunction([k \in DOMAIN m.large[p] |-> m.large[p][k] + HEADER])
Freed(m, p) ==
  [m EXCEPT !.small[p] = <<>>, !.large[p] = <<>>,
            !.total = @ - InPools(m, p), !.obtained = @ - InPools(m, p)]

\* The files that free_pool closes.
OpenStores == {k \in DOMAIN arrays : arrays[k].b_s_open}

\* free_pool of the image, as jpeg_abort calls it; what an error left half done
\* goes too.
FreeImage ==
  /\ state \in {"open", "error"}
  /\ mem' = Freed(mem, IMAGE)
  /\ arrays' = <<>> /\ open_files' = open_files - Cardinality(OpenStores) /\ plan' = NoPlan
  /\ Free
  /\ state' = "open"
  /\ UNCHANGED <<backend, max_memory_to_use>>

SelfDestruct ==
  /\ state \in {"open", "error"}
  /\ mem' = LET m == Freed(Freed(mem, IMAGE), PERMANENT)
            IN  [m EXCEPT !.total = 0, !.obtained = @ - CONTROL]
  /\ arrays' = <<>> /\ open_files' = open_files - Cardinality(OpenStores) /\ plan' = NoPlan
  /\ Free
  /\ state' = "destroyed"
  /\ UNCHANGED <<backend, max_memory_to_use>>

\* The caller uses the observed array once it is realized.
UseArray ==
  /\ state = "open" /\ rows_in_mem > 0
  /\ ArrayNext
  /\ UNCHANGED poolVars

ManagerNext ==
  \/ AllocSmall \/ AllocLarge \/ AllocFails \/ RequestVirtArray
  \/ BeginRealize \/ RealizeArray \/ RealizeFails \/ EndRealize
  \/ FreeImage \/ SelfDestruct \/ UseArray

ManagerSpec == ManagerInit /\ [][ManagerNext]_allVars

-----------------------------------------------------------------------------
\* What libjpeg believes it holds is what the system has given it, and after
\* jpeg_destroy, be it in the middle of a realize_virt_arrays that failed,
\* nothing is left: no memory and no temporary file.
NothingLost ==
  /\ mem.total = (IF state = "destroyed" THEN 0 ELSE CONTROL) + InPools(mem, PERMANENT) + InPools(mem, IMAGE)
  /\ mem.obtained = mem.total
  /\ open_files = Cardinality(OpenStores)

\* jmemmgr.c:493: each buffer holds at least the rows of one access, is a
\* multiple of them or the whole array, and together the buffers of one call
\* take no more than is available, unless even the least they need is more.
BuffersFit ==
  state = "open" /\ Unrealized = {} /\ arrays # <<>> =>
    /\ \A k \in DOMAIN arrays :
         LET a == arrays[k]
         IN  a.in_mem = a.rows \/ (a.in_mem < a.rows /\ a.in_mem > 0 /\ a.in_mem % a.maxaccess = 0)
    /\ SumFunctionOnSet([k \in DOMAIN arrays |-> arrays[k].in_mem * arrays[k].width], 1 .. plan.arrays)
         <= (IF plan.avail > plan.least THEN plan.avail ELSE plan.least)
=============================================================================
