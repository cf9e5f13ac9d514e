------------------------------- MODULE Buddy -------------------------------
(***************************************************************************)
(* The page allocator of kernel/src/memory.c: the reservation table and    *)
(* the startup allocator used while booting, the frame array with the      *)
(* doubly linked free lists threaded through it, splitting and merging.    *)
(* The RAM and the reserved ranges come from the device tree (Fdt).       *)
(* p_alloc and p_free run with interrupts off, so each is one step.        *)
(* Physical addresses are the integers 0..UINT_MAX and wrap past it.       *)
(***************************************************************************)
EXTENDS Fdt

CONSTANTS
  PAGE_SIZE,     \* a power of two
  UINT_MAX,      \* UINT64_MAX
  INT_MAX,       \* INT32_MAX, the largest frame index
  MAX_ORDER,     \* MEMORY_BUDDY_MAX_ORDER
  MAX_RESERVES,  \* MEMORY_MAX_RESERVES
  MAX_REGIONS,   \* FDT_MAX_MEM_REGIONS
  FRAME_META,    \* sizeof(struct frame_meta)
  Boards         \* what the device tree and the linker may describe

\* 64 entries against two device tree lists of 16, page 0, the device tree,
\* the kernel, the user window, the archive and the frame array.
ASSUME TableLargeEnough == MAX_RESERVES >= 2 * MAX_REGIONS + 6

VARIABLES
  board,         \* the machine being booted
  booted,        \* memory_init has been called
  memory_ready,  \* set with slab_ready: memory_init reaches both or neither
  reserves,      \* reserves[0..reserve_count-1]
  asked,         \* ghost: the ranges memory_init was to keep out
  buddy          \* [regions, at, frame_array, free_lists]; the array lies at address at

FRAME_BUDDY == -1
FRAME_USED == -2
FRAME_ALLOC_BASE == -100

alloc_tag_from_order(order) == FRAME_ALLOC_BASE - order
is_alloc_head_tag(tag) == tag <= FRAME_ALLOC_BASE
order_from_alloc_tag(tag) == FRAME_ALLOC_BASE - tag

-----------------------------------------------------------------------------
(* Addresses and reservations *)

align_down_u64(v, a) == v - (v % a)
align_up_u64(v, a) == align_down_u64((v + a - 1) % (UINT_MAX + 1), a)
ranges_overlap(s1, e1, s2, e2) == s1 < e2 /\ s2 < e1

\* start + size, or the largest address when the sum wraps.
EndOf(start, size) == IF start + size > UINT_MAX THEN UINT_MAX ELSE start + size

RoundOut_Wraps(start, size) ==
  LET end == (start + size) % (UINT_MAX + 1)
  IN [start |-> align_down_u64(start, PAGE_SIZE), end |-> align_up_u64(end, PAGE_SIZE)]

\* The pages of a range, up to the largest address at the most.
RoundOut(start, size) ==
  LET end == EndOf(start, size)
  IN [start |-> align_down_u64(start, PAGE_SIZE),
      end |-> IF end > UINT_MAX - (PAGE_SIZE - 1) THEN UINT_MAX
              ELSE align_up_u64(end, PAGE_SIZE)]

memory_reserve(res, r) ==
  LET range == RoundOut(r.base, r.size)
  IN IF r.size = 0 \/ range.end <= range.start \/ Len(res) >= MAX_RESERVES THEN res
     ELSE Append(res, range)

is_reserved_pa(res, pa) == \E i \in DOMAIN res : res[i].start <= pa /\ pa < res[i].end

\* startup_alloc's search: past the first overlapping reservation, again and
\* again, until the block overlaps none; 0 when an address would wrap.
RECURSIVE SkipReserved(_, _, _, _)
SkipReserved(res, p, size, align) ==
  LET hits == {i \in DOMAIN res : ranges_overlap(p, p + size, res[i].start, res[i].end)}
      first == res[CHOOSE i \in hits : \A j \in hits : i <= j]
  IN CASE p + size > UINT_MAX -> 0
       [] p + size <= UINT_MAX /\ hits = {} -> p
       [] OTHER -> IF first.end > UINT_MAX - (align - 1) THEN 0
                   ELSE SkipReserved(res, align_up_u64(first.end, align), size, align)

\* From startup_allocator_init's range (page 0 excluded); 0 is failure.
startup_alloc(res, region, size, align) ==
  LET lim == EndOf(region.base, region.size)
      cur == IF region.base < PAGE_SIZE THEN PAGE_SIZE ELSE region.base
      p == SkipReserved(res, align_up_u64(cur, align), size, align)
  IN IF lim <= cur \/ size = 0 \/ cur > UINT_MAX - (align - 1) \/ p + size > lim THEN 0 ELSE p

-----------------------------------------------------------------------------
(* Frame indices *)

Frames(b) == DOMAIN b.frame_array

InRegion(r, idx) == r.first_idx <= idx /\ idx < r.first_idx + r.page_count
find_region_by_index(b, idx) == CHOOSE r \in ToSet(b.regions) : InRegion(r, idx)

index_to_pa(b, idx) ==
  LET r == find_region_by_index(b, idx) IN r.base + (idx - r.first_idx) * PAGE_SIZE

\* -1 for an address outside the regions or not at the start of a page.
pa_to_index(b, pa) ==
  LET owners == {r \in ToSet(b.regions) : r.base <= pa /\ pa < r.base + r.size}
      r == CHOOSE r \in owners : TRUE
  IN IF owners = {} \/ pa % PAGE_SIZE # 0 THEN -1
     ELSE r.first_idx + (pa - r.base) \div PAGE_SIZE

-----------------------------------------------------------------------------
(* Blocks and free lists *)

Block(idx, order) == idx .. idx + 2^order - 1

MarkBlock(b, idx, order, head, body) ==
  [b EXCEPT !.frame_array = [i \in DOMAIN @ |->
     IF i = idx THEN [@[i] EXCEPT !.state = head]
     ELSE IF i \in Block(idx, order) THEN [@[i] EXCEPT !.state = body] ELSE @[i]]]

block_mark_free(b, idx, order) == MarkBlock(b, idx, order, order, FRAME_BUDDY)
block_mark_alloc(b, idx, order) ==
  MarkBlock(b, idx, order, alloc_tag_from_order(order), FRAME_USED)

\* frame_array[idx].field = value, for an index that is not -1.
SetPrev(b, idx, v) == IF idx < 0 THEN b ELSE [b EXCEPT !.frame_array[idx].free_prev = v]
SetNext(b, idx, v) == IF idx < 0 THEN b ELSE [b EXCEPT !.frame_array[idx].free_next = v]

freelist_push(b, order, idx) ==
  LET old == b.free_lists[order]
      linked == SetPrev(SetNext(SetPrev(b, idx, -1), idx, old), old, idx)
  IN [linked EXCEPT !.free_lists[order] = idx]

freelist_pop(b, order) ==
  LET head == b.free_lists[order]
      next == b.frame_array[head].free_next
      unlinked == SetNext(SetPrev(SetPrev(b, next, -1), head, -1), head, -1)
  IN [unlinked EXCEPT !.free_lists[order] = next]

CanRemove(b, order, idx) ==
  /\ b.frame_array[idx].state = order
  /\ b.frame_array[idx].free_prev < 0 => b.free_lists[order] = idx

freelist_remove(b, order, idx) ==
  LET prev == b.frame_array[idx].free_prev
      next == b.frame_array[idx].free_next
      cut == IF prev < 0 THEN [b EXCEPT !.free_lists[order] = next] ELSE SetNext(b, prev, next)
  IN SetNext(SetPrev(SetPrev(cut, next, prev), idx, -1), idx, -1)

\* local ^ 2^order
FlipBit(local, order) ==
  IF (local \div 2^order) % 2 = 0 THEN local + 2^order ELSE local - 2^order

\* The buddy inside the region, or -1.
buddy_index_Global(b, idx, order) ==
  LET bud == FlipBit(idx, order) IN IF bud \in Frames(b) THEN bud ELSE -1

buddy_index(b, idx, order) ==
  LET r == find_region_by_index(b, idx)
      local == FlipBit(idx - r.first_idx, order)
  IN IF local >= r.page_count THEN -1 ELSE r.first_idx + local

-----------------------------------------------------------------------------
(* Building the initial state *)

floor_log2_u64(v) == CHOOSE n \in 0 .. v : 2^n <= v /\ v < 2^(n + 1)

\* The largest order that fits the run and is aligned in the region.
RunOrder(start, pages) ==
  CHOOSE o \in 0 .. MAX_ORDER :
    /\ o <= floor_log2_u64(pages) /\ start % 2^o = 0
    /\ \A k \in o + 1 .. MAX_ORDER : k > floor_log2_u64(pages) \/ start % 2^k # 0

RECURSIVE add_free_run(_, _, _, _)
add_free_run(b, r, start, pages) ==
  IF pages = 0 THEN b
  ELSE LET order == RunOrder(start, pages)
           idx == r.first_idx + start
       IN add_free_run(freelist_push(block_mark_free(b, idx, order), order, idx),
                       r, start + 2^order, pages - 2^order)

\* buddy_setup_metadata: nothing is free yet.
EmptyFrames(rs, at, total) ==
  [regions |-> rs, at |-> at,
   frame_array |-> [i \in 0 .. total - 1 |->
     [state |-> FRAME_USED, free_prev |-> -1, free_next |-> -1, kind |-> "NONE"]],
   free_lists |-> [o \in 0 .. MAX_ORDER |-> -1]]

\* Each maximal run of unreserved pages of one region becomes free blocks.
BuildRegion(b, r, res) ==
  LET Free(p) == p < r.page_count /\ ~is_reserved_pa(res, r.base + p * PAGE_SIZE)
      step(acc, p) ==
        CASE Free(p) -> [acc EXCEPT !.len = @ + 1]
          [] ~Free(p) /\ acc.len > 0 ->
               [b |-> add_free_run(acc.b, r, p - acc.len, acc.len), len |-> 0]
          [] OTHER -> acc
  IN FoldLeft(step, [b |-> b, len |-> 0], [p \in 1 .. r.page_count + 1 |-> p - 1]).b

buddy_build_initial_state(b, res) ==
  FoldLeft(LAMBDA c, r : BuildRegion(c, r, res), b, b.regions)

\* One turn of memory_init's loop over the device tree's RAM.
AddRegion(acc, dt) ==
  LET start == align_up_u64(dt.base, PAGE_SIZE)
      end == align_down_u64(EndOf(dt.base, dt.size), PAGE_SIZE)
      pages == (end - start) \div PAGE_SIZE
      bad == \/ dt.base > UINT_MAX - (PAGE_SIZE - 1)
             \/ /\ end > start
                /\ \/ pages > INT_MAX - acc.total
                   \/ \E i \in DOMAIN acc.regions : LET r == acc.regions[i] IN
                        ranges_overlap(start, end, r.base, r.base + r.size)
      region == [base |-> start, size |-> end - start,
                 first_idx |-> acc.total, page_count |-> pages]
  IN CASE ~acc.ok \/ Len(acc.regions) = MAX_REGIONS -> acc
       [] acc.ok /\ Len(acc.regions) < MAX_REGIONS /\ bad -> [acc EXCEPT !.ok = FALSE]
       [] OTHER -> IF end <= start THEN acc
                   ELSE [ok |-> TRUE, regions |-> Append(acc.regions, region),
                         total |-> acc.total + pages]

\* What the boot code asks to keep out of the allocator, in its order, up to
\* the device tree list that is refused.
Asked(bd) ==
  LET Region(range) == [base |-> range.start, size |-> range.end - range.start]
      map == fdt_get_memreserve_regions(bd.tree, MAX_REGIONS)
  IN <<[base |-> 0, size |-> PAGE_SIZE], bd.fdt, bd.kernel, bd.window,
       Region(platform_init(bd.tree, bd.hint))>>
     \o map.regions
     \o (IF map.ok THEN fdt_get_reserved_memory_regions(bd.tree, MAX_REGIONS).regions ELSE <<>>)

\* memory_init with the RAM found, the ranges asked for, whether both device tree
\* lists were read, and whether platform_init succeeded.
SetUp(found, want, lists, platform) ==
  LET res == FoldLeft(memory_reserve, <<>>, want)
      bytes == found.total * FRAME_META
      frames == startup_alloc(res, found.regions[1], bytes, PAGE_SIZE)
      all == memory_reserve(res, [base |-> frames, size |-> bytes])
      usable == platform /\ found.ok /\ found.total > 0
      ok == usable /\ lists /\ frames # 0
  IN /\ memory_ready' = ok
     /\ asked' = {r \in ToSet(want) : r.size > 0}
     /\ reserves' = IF ok THEN all ELSE IF usable THEN res ELSE <<>>
     /\ buddy' = IF ok
                 THEN buddy_build_initial_state(
                        EmptyFrames(found.regions, frames, found.total), all)
                 ELSE EmptyFrames(<<>>, 0, 0)

\* kernel_main up to memory_init, and the whole of it.  A failure at any point
\* leaves the allocator not ready for good: memory_init is called once.
memory_init ==
  /\ ~booted /\ ~memory_ready
  /\ booted' = TRUE
  /\ SetUp(FoldLeft(AddRegion, [ok |-> TRUE, regions |-> <<>>, total |-> 0],
                    fdt_get_memory_regions(board.tree, MAX_REGIONS).regions),
           Asked(board),
           /\ fdt_get_memreserve_regions(board.tree, MAX_REGIONS).ok
           /\ fdt_get_reserved_memory_regions(board.tree, MAX_REGIONS).ok,
           platform_init_devices(board.tree))
  /\ UNCHANGED board

-----------------------------------------------------------------------------
(* Runtime *)

\* The smallest order of at least this many pages, past MAX_ORDER if none.
NeedOrder(pages) == CHOOSE o \in 0 .. MAX_ORDER + 1 :
  /\ 2^o >= pages \/ o = MAX_ORDER + 1
  /\ \A k \in 0 .. o - 1 : 2^k < pages

\* Halve the block at idx from order cur down to need; right halves are freed.
RECURSIVE Split(_, _, _, _)
Split(b, idx, cur, need) ==
  IF cur = need THEN b
  ELSE LET o == cur - 1
           right == freelist_push(block_mark_free(b, idx + 2^o, o), o, idx + 2^o)
       IN Split(block_mark_free(right, idx, o), idx, o, need)

\* The new state and the frame index of the block, -1 when refused.
p_alloc_locked(b, pages) ==
  LET need == NeedOrder(pages)
      fits == {o \in need .. MAX_ORDER : b.free_lists[o] >= 0}
      cur == CHOOSE o \in fits : \A k \in fits : o <= k
      idx == b.free_lists[cur]
  IN IF ~memory_ready \/ pages = 0 \/ fits = {} THEN [b |-> b, idx |-> -1]
     ELSE [b |-> block_mark_alloc(Split(freelist_pop(b, cur), idx, cur, need), idx, need),
           idx |-> idx]

RECURSIVE Merge(_, _, _)
Merge(b, idx, order) ==
  LET bud == buddy_index(b, idx, order)
  IN IF order < MAX_ORDER /\ bud >= 0 /\ CanRemove(b, order, bud)
     THEN Merge(freelist_remove(b, order, bud), IF bud < idx THEN bud ELSE idx, order + 1)
     ELSE freelist_push(block_mark_free(b, idx, order), order, idx)

p_free_locked_NoMerge(b, pa) ==
  LET idx == pa_to_index(b, pa)
      tag == b.frame_array[idx].state
      order == order_from_alloc_tag(tag)
  IN IF ~memory_ready \/ pa = 0 \/ idx < 0 \/ ~is_alloc_head_tag(tag) THEN b
     ELSE freelist_push(block_mark_free(b, idx, order), order, idx)

p_free_locked(b, pa) ==
  LET idx == pa_to_index(b, pa)
      tag == b.frame_array[idx].state
  IN IF ~memory_ready \/ pa = 0 \/ idx < 0 \/ ~is_alloc_head_tag(tag) THEN b
     ELSE Merge(b, idx, order_from_alloc_tag(tag))

page_set_kind(b, idx, kind) ==
  IF memory_ready /\ idx >= 0 /\ is_alloc_head_tag(b.frame_array[idx].state)
  THEN [b EXCEPT !.frame_array[idx].kind = kind] ELSE b

-----------------------------------------------------------------------------
(* Properties *)

AllocHeads(b) == {i \in Frames(b) : is_alloc_head_tag(b.frame_array[i].state)}
FreeHeads(b) == {i \in Frames(b) : b.frame_array[i].state >= 0}
BlockAt(b, i) ==
  LET tag == b.frame_array[i].state
  IN Block(i, IF tag >= 0 THEN tag ELSE order_from_alloc_tag(tag))
Taken(b) == UNION {BlockAt(b, i) : i \in AllocHeads(b)}
Reserved(b, res) == {i \in Frames(b) : is_reserved_pa(res, index_to_pa(b, i))}

\* An aligned block of the region-local numbering.
Aligned(b, i, order) ==
  LET r == find_region_by_index(b, i)
  IN (i - r.first_idx) % 2^order = 0 /\ i + 2^order <= r.first_idx + r.page_count

\* The free list of an order, read along free_next; at most n frames of it.
RECURSIVE Walk(_, _, _)
Walk(b, i, n) ==
  IF i < 0 \/ n = 0 THEN <<>> ELSE <<i>> \o Walk(b, b.frame_array[i].free_next, n - 1)

\* The frame array and the free lists describe one division of the pages:
\* every free list, read forwards, holds exactly the free heads of its order,
\* with back links to match; blocks are aligned within one region and do not
\* overlap; pages in no block are exactly the reserved ones.  A merge with a
\* frame that is not the buddy, or a half-made unlink, breaks it.
BuddyExact ==
  LET b == buddy
      Heads == AllocHeads(b) \cup FreeHeads(b)
  IN /\ \A o \in 0 .. MAX_ORDER :
          LET list == Walk(b, b.free_lists[o], Cardinality(Frames(b)) + 1)
          IN /\ ToSet(list) = {i \in FreeHeads(b) : b.frame_array[i].state = o}
             /\ Cardinality(ToSet(list)) = Len(list)
             /\ \A k \in DOMAIN list :
                  b.frame_array[list[k]].free_prev = IF k = 1 THEN -1 ELSE list[k - 1]
     /\ \A i \in Heads :
          /\ Aligned(b, i, Cardinality({k \in 1 .. MAX_ORDER : 2^k <= Cardinality(BlockAt(b, i))}))
          /\ \A j \in BlockAt(b, i) \ {i} :
               b.frame_array[j].state = IF i \in FreeHeads(b) THEN FRAME_BUDDY ELSE FRAME_USED
          /\ \A j \in Heads \ {i} : BlockAt(b, i) \cap BlockAt(b, j) = {}
     /\ Frames(b) \ UNION {BlockAt(b, i) : i \in Heads} = Reserved(b, reserves)

\* p_alloc refuses a request only when no aligned run of that many pages is
\* left: free buddies are always merged, both when memory_init carves the
\* runs between reservations and after any sequence of frees.
RefusedOnlyWhenNone ==
  \A o \in 0 .. MAX_ORDER :
    (\E i \in Frames(buddy) :
       Aligned(buddy, i, o) /\ Block(i, o) \cap (Taken(buddy) \cup Reserved(buddy, reserves)) = {})
    => \E k \in o .. MAX_ORDER : buddy.free_lists[k] >= 0

\* What the boot code reads from a valid device tree is what its nesting says;
\* from a malformed one it reads nothing.
DeviceTreeRead == ~booted =>
  IF fdt_check_header(board.tree) THEN LookupsExact(board.tree, MAX_REGIONS)
  ELSE /\ fdt_path_offset(board.tree, <<>>) = 0 /\ ~platform_init_devices(board.tree)
       /\ ~fdt_get_memory_regions(board.tree, MAX_REGIONS).ok
=============================================================================
