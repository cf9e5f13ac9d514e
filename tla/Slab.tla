-------------------------------- MODULE Slab --------------------------------
(***************************************************************************)
(* kmalloc and kfree of kernel/src/slab.c over the page allocator: size    *)
(* classes with one-page slabs on partial, full and empty lists, and whole *)
(* buddy blocks for larger requests.  Both run with interrupts off, so a   *)
(* call, with the page allocator calls it makes, is one step.              *)
(***************************************************************************)
EXTENDS Buddy

CONSTANTS
  SLAB_HEADER,      \* sizeof(struct slab_header)
  kmalloc_classes,  \* object sizes, ascending powers of two up to half a page
  Sizes,            \* the sizes asked of kmalloc
  Pages,            \* the counts asked of p_alloc
  Offsets           \* where in a page a pointer given to kfree or p_free lies

VARIABLES
  caches,  \* per class, the lists PARTIAL, FULL and EMPTY of slab frames
  slabs,   \* per frame, the header at the start of the page, if one was built
  live     \* ghost: the blocks clients hold, [ptr, size, via]

vars == <<board, booted, memory_ready, reserves, asked, buddy, caches, slabs, live>>

Classes == DOMAIN kmalloc_classes
Lists == {"PARTIAL", "FULL", "EMPTY"}
KMALLOC_MAX_SLAB_SIZE == PAGE_SIZE \div 2
NoSlab == [magic |-> FALSE, cls |-> 0, freelist |-> <<>>, inuse |-> 0,
           capacity |-> 0, state |-> "PARTIAL"]

\* Smallest fitting class, 0 for the whole-page path.
size_to_class(size) ==
  LET fits == {c \in Classes : size <= kmalloc_classes[c]}
  IN IF size = 0 \/ size > KMALLOC_MAX_SLAB_SIZE \/ fits = {} THEN 0
     ELSE CHOOSE c \in fits : \A d \in fits : c <= d

\* Offset of the first object, and how many follow it.
slab_object_start(cls) == align_up_u64(SLAB_HEADER, kmalloc_classes[cls])
slab_calc_capacity(cls) ==
  LET start == slab_object_start(cls)
  IN IF start >= PAGE_SIZE THEN 0 ELSE (PAGE_SIZE - start) \div kmalloc_classes[cls]

-----------------------------------------------------------------------------
(* The state one call works on: m = [buddy, caches, slabs] *)

Mem == [buddy |-> buddy, caches |-> caches, slabs |-> slabs]

Store(m) == buddy' = m.buddy /\ caches' = m.caches /\ slabs' = m.slabs

\* cache_add_partial, cache_add_full and cache_add_empty.
cache_add(m, s, list) ==
  [m EXCEPT !.caches[m.slabs[s].cls][list] = <<s>> \o @, !.slabs[s].state = list]

\* The slab's state names the list whose head may be this slab.
cache_remove_slab(m, s) ==
  [m EXCEPT !.caches[m.slabs[s].cls][m.slabs[s].state] = SelectSeq(@, LAMBDA t : t # s)]

Move(m, s, list) == cache_add(cache_remove_slab(m, s), s, list)

\* A page from the buddy allocator, with its objects pushed in address order.
kmalloc_refill_class(m, cls) ==
  LET r == p_alloc_locked(m.buddy, 1)
      n == slab_calc_capacity(cls)
      base == index_to_pa(r.b, r.idx) + slab_object_start(cls)
      header == [magic |-> TRUE, cls |-> cls, inuse |-> 0, capacity |-> n, state |-> "PARTIAL",
                 freelist |-> [i \in 1 .. n |-> base + (n - i) * kmalloc_classes[cls]]]
      tagged == page_set_kind(r.b, r.idx, "SLAB")
  IN CASE r.idx < 0 -> m
       [] r.idx >= 0 /\ n = 0 ->
            [m EXCEPT !.buddy = p_free_locked(page_set_kind(tagged, r.idx, "NONE"),
                                              index_to_pa(r.b, r.idx))]
       [] OTHER -> cache_add([m EXCEPT !.buddy = tagged, !.slabs[r.idx] = header],
                             r.idx, "PARTIAL")

\* A partial slab for the class: one it has, else its empty one, else a new one.
WithPartial(m, cls) ==
  LET c == m.caches[cls]
  IN IF c["PARTIAL"] # <<>> THEN m
     ELSE IF c["EMPTY"] # <<>> THEN Move(m, Head(c["EMPTY"]), "PARTIAL")
     ELSE kmalloc_refill_class(m, cls)

\* Pop one object of the first partial slab; ptr 0 is failure.
PopObject(m, cls) ==
  LET s == Head(m.caches[cls]["PARTIAL"])
      h == m.slabs[s]
      taken == [m EXCEPT !.slabs[s].freelist = Tail(@), !.slabs[s].inuse = @ + 1]
  IN IF \/ m.caches[cls]["PARTIAL"] = <<>>
        \/ h.state # "PARTIAL" \/ h.freelist = <<>> \/ h.inuse >= h.capacity
     THEN [m |-> m, ptr |-> 0]
     ELSE [m |-> IF h.inuse + 1 = h.capacity THEN Move(taken, s, "FULL") ELSE taken,
           ptr |-> Head(h.freelist)]

AllocObject(m, cls) == PopObject(WithPartial(m, cls), cls)

AllocPages(m, size) ==
  LET r == p_alloc_locked(m.buddy, (size + PAGE_SIZE - 1) \div PAGE_SIZE)
  IN IF size > PAGE_SIZE * 2^MAX_ORDER \/ r.idx < 0 THEN [m |-> m, ptr |-> 0]
     ELSE [m |-> [m EXCEPT !.buddy = page_set_kind(r.b, r.idx, "LARGE")],
           ptr |-> index_to_pa(r.b, r.idx)]

Hold(ptr, size, via) ==
  live' = IF ptr = 0 THEN live ELSE live \cup {[ptr |-> ptr, size |-> size, via |-> via]}

kmalloc(size) ==
  LET r == IF ~memory_ready \/ size = 0 THEN [m |-> Mem, ptr |-> 0]
           ELSE IF size <= KMALLOC_MAX_SLAB_SIZE
           THEN IF size_to_class(size) = 0 THEN [m |-> Mem, ptr |-> 0]
                ELSE AllocObject(Mem, size_to_class(size))
           ELSE AllocPages(Mem, size)
  IN /\ Store(r.m)
     /\ Hold(r.ptr, size, "kmalloc")
     /\ UNCHANGED <<board, booted, memory_ready, reserves, asked>>

-----------------------------------------------------------------------------
(* kfree *)

GoodObject_NoListTest(m, s, ptr) ==
  LET h == m.slabs[s]
      start == index_to_pa(m.buddy, s) + slab_object_start(h.cls)
  IN /\ h.magic
     /\ start <= ptr /\ ptr < start + kmalloc_classes[h.cls] * h.capacity
     /\ (ptr - start) % kmalloc_classes[h.cls] = 0
     /\ h.inuse > 0

\* kfree's refusals for a pointer into slab page s.
GoodObject(m, s, ptr) ==
  LET h == m.slabs[s]
      start == index_to_pa(m.buddy, s) + slab_object_start(h.cls)
  IN /\ h.magic
     /\ start <= ptr /\ ptr < start + kmalloc_classes[h.cls] * h.capacity
     /\ (ptr - start) % kmalloc_classes[h.cls] = 0
     /\ h.inuse > 0
     /\ ptr \notin ToSet(h.freelist)

\* Give an empty slab's page back.
Reclaim_LateKind(m, s) ==
  LET b == p_free_locked(m.buddy, index_to_pa(m.buddy, s))
  IN [m EXCEPT !.slabs[s] = NoSlab, !.buddy = page_set_kind(b, s, "NONE")]

Reclaim(m, s) ==
  LET b == page_set_kind(m.buddy, s, "NONE")
  IN [m EXCEPT !.slabs[s] = NoSlab, !.buddy = p_free_locked(b, index_to_pa(b, s))]

FreeObject(m0, s, ptr) ==
  LET h == m0.slabs[s]
      pushed == [m0 EXCEPT !.slabs[s].freelist = <<ptr>> \o @, !.slabs[s].inuse = @ - 1]
      m == IF h.state = "FULL" THEN Move(pushed, s, "PARTIAL") ELSE pushed
      off == cache_remove_slab(m, s)
  IN IF h.inuse > 1 THEN [m EXCEPT !.slabs[s].state = "PARTIAL"]
     ELSE IF off.caches[h.cls]["EMPTY"] = <<>> THEN cache_add(off, s, "EMPTY")
     ELSE Reclaim(off, s)

FreePages(m, idx, ptr) ==
  [m EXCEPT !.buddy = p_free_locked(page_set_kind(@, idx, "NONE"), ptr)]

kfree(ptr) ==
  LET base == align_down_u64(ptr, PAGE_SIZE)
      idx == pa_to_index(buddy, base)
      f == buddy.frame_array[idx]
      m == IF ~memory_ready \/ ptr = 0 \/ idx < 0 THEN Mem
           ELSE IF f.kind = "SLAB" /\ GoodObject(Mem, idx, ptr) THEN FreeObject(Mem, idx, ptr)
           ELSE IF f.kind = "LARGE" /\ ptr = base /\ is_alloc_head_tag(f.state)
           THEN FreePages(Mem, idx, ptr)
           ELSE Mem
  IN /\ Store(m)
     /\ live' = {l \in live : l.ptr # ptr}
     /\ UNCHANGED <<board, booted, memory_ready, reserves, asked>>

-----------------------------------------------------------------------------
(* The page interface, used directly by the allocator's self tests *)

p_alloc(pages) ==
  LET r == p_alloc_locked(buddy, pages)
  IN /\ buddy' = r.b
     /\ Hold(IF r.idx < 0 THEN 0 ELSE index_to_pa(r.b, r.idx), pages * PAGE_SIZE, "p_alloc")
     /\ UNCHANGED <<board, booted, memory_ready, reserves, asked, caches, slabs>>

p_free(ptr) ==
  /\ buddy' = p_free_locked(buddy, ptr)
  /\ live' = {l \in live : l.ptr # ptr}
  /\ UNCHANGED <<board, booted, memory_ready, reserves, asked, caches, slabs>>

slab_init ==
  /\ memory_init
  /\ caches' = [c \in Classes |-> [l \in Lists |-> <<>>]]
  /\ slabs' = [f \in Frames(buddy') |-> NoSlab]
  /\ UNCHANGED live

\* A client frees what it holds through the interface it came from, or an
\* address nobody holds; only kfree knows about slab pages.
MayFree(ptr, via) ==
  /\ \A l \in live : l.ptr = ptr => l.via = via
  /\ via = "p_alloc" => \A f \in DOMAIN slabs : slabs[f].magic => ptr # index_to_pa(buddy, f)

Ptrs ==
  {index_to_pa(buddy, f) + o : f \in Frames(buddy), o \in Offsets} \cup {0, UINT_MAX - PAGE_SIZE + 1}

Init ==
  /\ board \in Boards
  /\ booted = FALSE /\ memory_ready = FALSE /\ reserves = <<>> /\ asked = {}
  /\ buddy = EmptyFrames(<<>>, 0, 0)
  /\ caches = [c \in Classes |-> [l \in Lists |-> <<>>]]
  /\ slabs = <<>>
  /\ live = {}

Next ==
  \/ slab_init
  \/ \E size \in Sizes : booted /\ kmalloc(size)
  \/ \E ptr \in Ptrs : booted /\ MayFree(ptr, "kmalloc") /\ kfree(ptr)
  \/ \E n \in Pages : booted /\ p_alloc(n)
  \/ \E ptr \in Ptrs : booted /\ MayFree(ptr, "p_alloc") /\ p_free(ptr)

Spec == Init /\ [][Next]_vars

-----------------------------------------------------------------------------
(* Properties *)

Bytes(base, size) == base .. base + size - 1
Header(f) == Bytes(index_to_pa(buddy, f), SLAB_HEADER)
SlabFrames == {f \in Frames(buddy) : buddy.frame_array[f].kind = "SLAB"}
Holders(f) == {l \in live : l.ptr \in Bytes(index_to_pa(buddy, f), PAGE_SIZE)}

\* No byte that the boot code asks to keep is in a page the allocator hands
\* out, now or later, or in the frame array, and no byte of the array is in
\* such a page: none is lost where memory_reserve rounds a range, or where the
\* end of one wraps past the last address.
ReservedKept ==
  LET kept == {a \in UNION {Bytes(r.base, r.size) : r \in asked} : a <= UINT_MAX}
      array == Bytes(buddy.at, Cardinality(Frames(buddy)) * FRAME_META)
      pages == UNION {BlockAt(buddy, i) : i \in AllocHeads(buddy) \cup FreeHeads(buddy)}
      given == UNION {Bytes(index_to_pa(buddy, f), PAGE_SIZE) : f \in pages}
                 \cup UNION {Bytes(l.ptr, l.size) : l \in live}
  IN memory_ready => kept \cap array = {} /\ given \cap (kept \cup array) = {}

\* No two clients share a byte, and no client's bytes hold a slab header or an
\* object still on a free list: an object is never handed out twice, whatever
\* frees, double frees and reclaimed pages came before.
ObjectsDisjoint ==
  /\ \A k, l \in live : k # l => Bytes(k.ptr, k.size) \cap Bytes(l.ptr, l.size) = {}
  /\ \A f \in SlabFrames, l \in live :
       /\ Bytes(l.ptr, l.size) \cap Header(f) = {}
       /\ \A q \in ToSet(slabs[f].freelist) :
            Bytes(l.ptr, l.size) \cap Bytes(q, kmalloc_classes[slabs[f].cls]) = {}

\* Every page is accounted for.  A page tagged SLAB is an allocated block on
\* exactly the list its state names, with as many objects in use as clients
\* hold and the rest on its free list; a class keeps at most one empty slab;
\* every other allocated block is held by a client, and a tag never outlives
\* its block.  memory_check_slabs_ok tests a part of this.
NothingLost ==
  /\ \A c \in Classes : Len(caches[c]["EMPTY"]) <= 1
  /\ \A c \in Classes, l \in Lists : LET list == caches[c][l] IN
       /\ Cardinality(ToSet(list)) = Len(list)
       /\ ToSet(list) = {f \in SlabFrames : slabs[f].cls = c /\ slabs[f].state = l}
  /\ \A f \in SlabFrames : LET h == slabs[f] IN
       /\ h.magic /\ f \in AllocHeads(buddy)
       /\ h.inuse = Cardinality(Holders(f)) /\ Len(h.freelist) = h.capacity - h.inuse
       /\ h.state = (IF h.inuse = h.capacity THEN "FULL"
                     ELSE IF h.inuse = 0 THEN "EMPTY" ELSE "PARTIAL")
  /\ \A f \in Frames(buddy) : LET kind == buddy.frame_array[f].kind IN
       /\ kind # "NONE" => f \in AllocHeads(buddy)
       /\ f \in AllocHeads(buddy) \ SlabFrames =>
            \E l \in live : l.ptr = index_to_pa(buddy, f) /\ (kind = "LARGE") = (l.via = "kmalloc")
=============================================================================
