-------------------------------- MODULE Fdt --------------------------------
(***************************************************************************)
(* The device tree reader of kernel/src/fdt.c and what platform.c takes    *)
(* from it.  The blob is f = [header, toks, rsvmap]: whether the address,  *)
(* magic and block bounds pass, the structure block as a sequence of       *)
(* tokens, and the entries of the reserve map that lie inside totalsize.   *)
(* A node is the index of its BEGIN_NODE token, 0 the failure -1.  A       *)
(* property value is a sequence of 32-bit cells, or of strings.            *)
(***************************************************************************)
EXTENDS Integers, Sequences, FiniteSets, SequencesExt

CONSTANTS
  FDT_MAX_DEPTH,
  CELL,         \* 2^32
  MemoryNames,  \* node names that are "memory" or start with "memory@"
  UARTNAME,     \* the compatible string of the board's UART
  HINT_MAX      \* longest archive range taken from the loader

\* A token with its operand.  BAD is any token the reader does not know, or a
\* BEGIN_NODE or PROP whose name or value does not end inside its block.
Begin(name) == [t |-> "BEGIN_NODE", name |-> name]
Prop(name, val) == [t |-> "PROP", name |-> name, val |-> val]
Tok(t) == [t |-> t]

OPEN == "unterminated"  \* a last string without its NUL

\* The strings of a value up to an empty or an unterminated one.
prop_has_compatible(val, want) ==
  \E i \in DOMAIN val : val[i] = want /\ \A j \in 1 .. i : val[j] \notin {"", OPEN}

\* A walk over the tokens from index lo: step until the walk is done, at END at
\* the latest.  Walking halves keeps the evaluation shallow.
Scan(f, step(_, _), init, lo) ==
  LET RECURSIVE walk(_, _, _)
      walk(acc, a, b) ==
        CASE acc.done \/ a > b -> acc
          [] ~acc.done /\ a = b -> IF f.toks[a].t = "END" THEN [acc EXCEPT !.done = TRUE] ELSE step(acc, a)
          [] OTHER -> walk(walk(acc, a, (a + b) \div 2), (a + b) \div 2 + 1, b)
  IN walk(init, lo, Len(f.toks))

\* One root, balanced nodes of bounded depth, properties only inside nodes, END.
fdt_check_header(f) ==
  LET Bad(acc) == [acc EXCEPT !.bad = TRUE, !.done = TRUE]
      step(acc, i) ==
        LET t == f.toks[i].t
        IN CASE t = "BEGIN_NODE" ->
                  IF (acc.depth = 0 /\ acc.root_seen) \/ acc.depth + 1 > FDT_MAX_DEPTH THEN Bad(acc)
                  ELSE [acc EXCEPT !.depth = @ + 1, !.root_seen = TRUE]
             [] t = "END_NODE" -> IF acc.depth = 0 THEN Bad(acc) ELSE [acc EXCEPT !.depth = @ - 1]
             [] t = "PROP" -> IF acc.depth = 0 THEN Bad(acc) ELSE acc
             [] t = "NOP" -> acc
             [] OTHER -> Bad(acc)
      last == Scan(f, step, [depth |-> 0, root_seen |-> FALSE, bad |-> FALSE, done |-> FALSE], 1)
  IN f.header /\ last.done /\ ~last.bad /\ last.root_seen /\ last.depth = 0

\* The walk of fdt_path_offset leaves a node.
Leave_KeepMatch(acc) == [acc EXCEPT !.depth = @ - 1]

Leave(acc) ==
  [acc EXCEPT !.depth = @ - 1, !.match = IF @ = acc.depth THEN acc.depth - 1 ELSE @]

\* path is the sequence of its components.
fdt_path_offset(f, path) ==
  LET step(acc, i) ==
        LET d == acc.depth + 1
            hit == (d = 0) \/ (acc.match = d - 1 /\ d <= Len(path) /\ f.toks[i].name = path[d])
            end == hit /\ d = Len(path)
        IN CASE f.toks[i].t = "BEGIN_NODE" ->
                  [depth |-> d, match |-> IF hit THEN d ELSE acc.match, done |-> end,
                   node |-> IF end THEN i ELSE 0]
             [] f.toks[i].t = "END_NODE" -> Leave(acc)
             [] OTHER -> acc
  IN IF Len(path) > FDT_MAX_DEPTH \/ ~fdt_check_header(f) THEN 0
     ELSE Scan(f, step, [depth |-> -1, match |-> -1, done |-> FALSE, node |-> 0], 1).node

\* A BEGIN_NODE token of the validated part of the block.
fdt_is_node_offset(f, n) ==
  /\ n \in DOMAIN f.toks /\ f.toks[n].t = "BEGIN_NODE"
  /\ \A i \in 1 .. n : f.toks[i].t # "END"

\* The index of the node's own property, 0 if there is none.
fdt_getprop(f, n, name) ==
  LET step(acc, i) ==
        CASE f.toks[i].t = "BEGIN_NODE" -> [acc EXCEPT !.depth = @ + 1]
          [] f.toks[i].t = "END_NODE" -> [acc EXCEPT !.depth = @ - 1, !.done = acc.depth = 0]
          [] f.toks[i].t = "PROP" /\ acc.depth = 0 /\ f.toks[i].name = name ->
               [acc EXCEPT !.at = i, !.done = TRUE]
          [] OTHER -> acc
  IN IF ~fdt_check_header(f) \/ ~fdt_is_node_offset(f, n) THEN 0
     ELSE Scan(f, step, [depth |-> 0, at |-> 0, done |-> FALSE], n + 1).at

\* The value, empty if there is none.
ValueAt(f, p) == IF p = 0 THEN <<>> ELSE f.toks[p].val
Value(f, n, name) == ValueAt(f, fdt_getprop(f, n, name))

fdt_find_compatible(f, want) ==
  LET step(acc, i) ==
        CASE f.toks[i].t = "BEGIN_NODE" ->
               IF acc.depth + 1 >= FDT_MAX_DEPTH THEN [acc EXCEPT !.done = TRUE]
               ELSE [acc EXCEPT !.depth = @ + 1, !.current_node[acc.depth + 1] = i]
          [] f.toks[i].t = "END_NODE" -> [acc EXCEPT !.depth = @ - 1]
          [] f.toks[i].t = "PROP" /\ acc.depth >= 0 /\ f.toks[i].name = "compatible" ->
               IF prop_has_compatible(f.toks[i].val, want)
               THEN [acc EXCEPT !.node = acc.current_node[acc.depth], !.done = TRUE] ELSE acc
          [] OTHER -> acc
  IN IF ~fdt_check_header(f) THEN 0
     ELSE Scan(f, step, [depth |-> -1, current_node |-> [d \in 0 .. FDT_MAX_DEPTH - 1 |-> 0],
                         node |-> 0, done |-> FALSE], 1).node

FirstCell(v, defval) == IF v = <<>> THEN defval ELSE v[1]

fdt_get_u32(f, n, name, defval) == FirstCell(Value(f, n, name), defval)

\* Cells, most significant first.
Number(cells) == FoldLeft(LAMBDA acc, c : acc * CELL + c, 0, cells)

\* One or two cells; -1 is failure.
FirstCells(v) == IF v = <<>> THEN -1 ELSE Number(SubSeq(v, 1, IF Len(v) >= 2 THEN 2 ELSE 1))

fdt_get_u64_prop(f, n, name) == FirstCells(Value(f, n, name))

-----------------------------------------------------------------------------
(* Lists of regions: [ok, regions] *)

Fail == [ok |-> FALSE, regions |-> <<>>]

\* The entries of a list that are not empty; more than max are refused.
Bounded(list, max) ==
  LET kept == SelectSeq(list, LAMBDA r : r.size # 0)
  IN IF Len(kept) > max THEN Fail ELSE [ok |-> TRUE, regions |-> kept]

\* The whole address and size tuples of a reg value.
Tuples(v, ac, sc) ==
  [t \in 1 .. Len(v) \div (ac + sc) |->
     LET at == (t - 1) * (ac + sc)
     IN [base |-> Number(SubSeq(v, at + 1, at + ac)),
         size |-> Number(SubSeq(v, at + ac + 1, at + ac + sc))]]

fdt_get_memory_regions(f, max) ==
  LET root == fdt_path_offset(f, <<>>)
      ac == fdt_get_u32(f, root, "#address-cells", 2)
      sc == fdt_get_u32(f, root, "#size-cells", 2)
      Memory(i) == f.toks[i].name \in MemoryNames
                   \/ FirstCell(Value(f, i, "device_type"), "") = "memory"
      step(acc, i) ==
        CASE f.toks[i].t = "BEGIN_NODE" ->
               [acc EXCEPT !.depth = @ + 1,
                           !.out = IF acc.depth = 0 /\ Memory(i)
                                   THEN @ \o Tuples(Value(f, i, "reg"), ac, sc) ELSE @]
          [] f.toks[i].t = "END_NODE" -> [acc EXCEPT !.depth = @ - 1]
          [] OTHER -> acc
  IN IF root = 0 \/ ~({ac, sc} \subseteq {1, 2}) THEN Fail
     ELSE Bounded(Scan(f, step, [depth |-> -1, out |-> <<>>, done |-> FALSE], 1).out, max)

fdt_get_reserved_memory_regions(f, max) ==
  LET node == fdt_path_offset(f, <<"reserved-memory">>)
      root == fdt_path_offset(f, <<>>)
      ac == fdt_get_u32(f, node, "#address-cells", fdt_get_u32(f, root, "#address-cells", 2))
      sc == fdt_get_u32(f, node, "#size-cells", fdt_get_u32(f, root, "#size-cells", 2))
      step(acc, i) ==
        CASE f.toks[i].t = "BEGIN_NODE" ->
               [acc EXCEPT !.depth = @ + 1,
                           !.out = IF acc.depth = 0
                                   THEN @ \o Tuples(Value(f, i, "reg"), ac, sc) ELSE @]
          [] f.toks[i].t = "END_NODE" -> [acc EXCEPT !.depth = @ - 1, !.done = acc.depth = 0]
          [] OTHER -> acc
  IN CASE ~fdt_check_header(f) -> Fail
       [] fdt_check_header(f) /\ node = 0 -> [ok |-> TRUE, regions |-> <<>>]
       [] OTHER -> IF ~({ac, sc} \subseteq {1, 2}) THEN Fail
                   ELSE Bounded(Scan(f, step, [depth |-> 0, out |-> <<>>, done |-> FALSE],
                                     node + 1).out, max)

\* The map ends with an entry of zeros.
fdt_get_memreserve_regions(f, max) ==
  LET ends == {i \in DOMAIN f.rsvmap : f.rsvmap[i] = [base |-> 0, size |-> 0]}
      stop == IF ends = {} THEN Len(f.rsvmap) ELSE (CHOOSE i \in ends : \A j \in ends : i <= j) - 1
  IN IF ~fdt_check_header(f) \/ ends = {} THEN Fail
     ELSE Bounded(SubSeq(f.rsvmap, 1, stop), max)

-----------------------------------------------------------------------------
(* Single values, and platform_init *)

NoRange == [start |-> 0, end |-> 0]
RangeOf(s, e) == IF s < 0 \/ e < 0 \/ e <= s THEN NoRange ELSE [start |-> s, end |-> e]

\* NoRange when /chosen gives none; a property of node 0 is a failure.
fdt_get_initrd_range(f) ==
  LET node == fdt_path_offset(f, <<"chosen">>)
  IN RangeOf(fdt_get_u64_prop(f, node, "linux,initrd-start"),
             fdt_get_u64_prop(f, node, "linux,initrd-end"))

fdt_get_reg_base(f, n) ==
  LET Base(v) == IF Len(v) < 2 THEN -1 ELSE Number(SubSeq(v, 1, 2))
  IN Base(Value(f, n, "reg"))

fdt_get_interrupt_id(f, n) == fdt_get_u32(f, n, "interrupts", -1)

platform_init_devices(f) ==
  LET uart == fdt_find_compatible(f, UARTNAME)
      plic == fdt_find_compatible(f, "riscv,plic0")
  IN /\ uart # 0 /\ plic # 0
     /\ fdt_get_reg_base(f, uart) # -1
     /\ fdt_get_interrupt_id(f, uart) # -1
     /\ fdt_get_reg_base(f, plic) # -1

\* The archive: where /chosen says, else where the loader says, else nowhere.
platform_init(f, hint) ==
  LET good == hint.start # 0 /\ hint.end > hint.start /\ hint.end - hint.start <= HINT_MAX
      Else(r) == IF r.start # 0 THEN r ELSE IF good THEN hint ELSE NoRange
  IN Else(fdt_get_initrd_range(f))

-----------------------------------------------------------------------------
(* The tree a blob describes, by nesting rather than by a walk *)

Ends(f) == CHOOSE e \in DOMAIN f.toks : f.toks[e].t = "END" /\ \A i \in 1 .. e - 1 : f.toks[i].t # "END"
Count(f, t, lo, hi) == Cardinality({i \in lo .. hi : f.toks[i].t = t})
Nodes(f) == {i \in 1 .. Ends(f) : f.toks[i].t = "BEGIN_NODE"}
Least(S) == IF S = {} THEN 0 ELSE CHOOSE i \in S : \A j \in S : i <= j

\* Token i lies inside node n: n is not closed before it.
Inside(f, n, i) ==
  n < i /\ \A j \in n .. i : Count(f, "BEGIN_NODE", n, j) > Count(f, "END_NODE", n, j)
Over(f, i) == {n \in Nodes(f) : Inside(f, n, i)}
Owner(f, i) == CHOOSE n \in Over(f, i) : \A m \in Over(f, i) : m <= n
Names(f, n) == [k \in 1 .. Cardinality(Over(f, n)) |->
  f.toks[CHOOSE m \in Over(f, n) \cup {n} : Cardinality(Over(f, m)) = k].name]
Props(f) == {i \in 1 .. Ends(f) : f.toks[i].t = "PROP"}

\* The regions the reg properties of these nodes give, by the cell counts found.
Regs(f, S, ac, sc) ==
  {r \in UNION {ToSet(Tuples(Value(f, n, "reg"), ac, sc)) : n \in S} : r.size # 0}

\* Every lookup gives the first match in document order, by the nesting of the
\* blob: a path the first node with these names from the root down, a property
\* the node's own and never a descendant's, a compatible string the node that
\* owns the property, the RAM list the memory nodes under the root, and the
\* reserved list the children of /reserved-memory and no deeper node.
LookupsExact(f, max) ==
  /\ \A path \in {Names(f, n) : n \in Nodes(f)} \cup {Names(f, n) \o <<"a">> : n \in Nodes(f)} :
       fdt_path_offset(f, path) = Least({n \in Nodes(f) : Names(f, n) = path})
  /\ \A n \in Nodes(f), p \in {f.toks[i].name : i \in Props(f)} :
       fdt_getprop(f, n, p) = Least({i \in Props(f) : f.toks[i].name = p /\ Owner(f, i) = n})
  /\ \A want \in {UARTNAME, "riscv,plic0"} :
       LET hits == {i \in Props(f) : /\ f.toks[i].name = "compatible"
                                     /\ prop_has_compatible(f.toks[i].val, want)}
       IN fdt_find_compatible(f, want) = IF hits = {} THEN 0 ELSE Owner(f, Least(hits))
  /\ LET root == Least(Nodes(f))
         kids(n) == {m \in Nodes(f) \ {root} : Owner(f, m) = n}
         ram == fdt_get_memory_regions(f, max)
         memory == {n \in kids(root) : f.toks[n].name \in MemoryNames
                                       \/ Value(f, n, "device_type") = <<"memory">>}
         node == Least({n \in kids(root) : f.toks[n].name = "reserved-memory"})
         kept == fdt_get_reserved_memory_regions(f, max)
         ac == fdt_get_u32(f, root, "#address-cells", 2)
         sc == fdt_get_u32(f, root, "#size-cells", 2)
     IN /\ ram.ok => ToSet(ram.regions) = Regs(f, memory, ac, sc)
        /\ kept.ok => ToSet(kept.regions) =
             IF node = 0 THEN {}
             ELSE Regs(f, kids(node), fdt_get_u32(f, node, "#address-cells", ac),
                       fdt_get_u32(f, node, "#size-cells", sc))
=============================================================================
