------------------------------- MODULE MCSlab -------------------------------
(* Boards for TLC, with pages of 8 bytes, cells of 4 bits, addresses to 255. *)
EXTENDS Slab

R(base, size) == [base |-> base, size |-> size]
Cells(n) == <<n \div CELL, n % CELL>>
Reg(rs) == Prop("reg", FoldLeft(LAMBDA acc, r : acc \o Cells(r.base) \o Cells(r.size), <<>>, rs))
E == Tok("END_NODE")
MCMemoryNames == {"memory", "memory@3"}

Uart == <<Begin("uart"), Prop("compatible", <<"old", UARTNAME>>), Tok("NOP"),
          Reg(<<R(254, 1)>>), Prop("interrupts", <<2>>), E>>
Plic == <<Begin("plic"), Prop("compatible", <<"riscv,plic0">>), Reg(<<R(240, 1)>>), E>>
Child(r) == <<Begin("r"), Begin("deeper"), Reg(<<R(200, 8)>>), E, Reg(<<r>>), E>>
Kept(rs) == <<Begin("reserved-memory")>> \o FoldLeft(LAMBDA acc, r : acc \o Child(r), <<>>, rs) \o <<E>>
Ram(name, rs) == <<Begin(name), Prop("device_type", <<"memory">>), Reg(rs), E>>
Chosen(s, e) == <<Begin("chosen"), Prop("linux,initrd-start", Cells(s)),
                  Prop("linux,initrd-end", Cells(e)), E>>
Root(inner) == <<Begin("")>> \o inner \o <<E, Tok("END")>>

Blob(toks, map) == [header |-> TRUE, toks |-> toks, rsvmap |-> map]

\* Eight pages that start at page 1; every entry of the reservation table is used.
OneRegion ==
  [tree |-> Blob(Root(Uart \o Plic \o Ram("memory@3", <<R(3, 69)>>) \o Chosen(21, 23)
                      \o Kept(<<R(16, 3), R(30, 1)>>)),
                 <<R(9, 3), R(250, 100), R(0, 0), R(64, 8)>>),
   fdt |-> R(18, 2), kernel |-> R(8, 7), window |-> R(24, 8), hint |-> [start |-> 64, end |-> 66]]

\* Two regions, the second up to the end of the address space, and the archive
\* where the loader says.
TwoRegions ==
  [tree |-> Blob(Root(Ram("ram", <<R(0, 40), R(50, 0), R(224, 40)>>) \o Plic \o Uart), <<R(0, 0)>>),
   fdt |-> R(12, 2), kernel |-> R(8, 4), window |-> R(24, 8), hint |-> [start |-> 13, end |-> 15]]

\* A range to keep that starts in the last page and wraps past the last address.
Wrapping == [TwoRegions EXCEPT !.tree.rsvmap = <<R(243, 100), R(0, 0)>>]

Bare(rs) == [TwoRegions EXCEPT !.tree.toks = Root(Ram("memory", rs) \o Plic \o Uart)]

\* Boards on which memory_init gives up.
BadBoards ==
  {[TwoRegions EXCEPT !.tree.rsvmap = <<R(9, 3)>>], [TwoRegions EXCEPT !.tree.header = FALSE],
   [TwoRegions EXCEPT !.tree.rsvmap = <<R(9, 3), R(9, 3), R(9, 3), R(0, 0)>>],
   [OneRegion EXCEPT !.tree.toks = Root(Uart \o Plic \o Ram("memory", <<R(3, 69)>>)
                                        \o Kept(<<R(16, 3), R(30, 1), R(50, 1)>>))],
   [TwoRegions EXCEPT !.tree.toks = Root(Ram("memory", <<R(0, 40)>>) \o Uart)],
   Bare(<<R(0, 40), R(32, 40)>>), Bare(<<R(250, 4)>>), Bare(<<R(9, 6)>>), Bare(<<R(0, 24)>>)}

\* Small trees: every nesting of some tokens below a root, closed at the end,
\* and every short run of tokens, most of them malformed.
Depth(s) == Len(SelectSeq(s, LAMBDA k : k.t = "BEGIN_NODE")) - Len(SelectSeq(s, LAMBDA k : k.t = "END_NODE"))
Nested(alphabet, n) ==
  LET all == [1 .. n -> alphabet]
      open == {s \in all : \A i \in 1 .. n : Depth(SubSeq(s, 1, i)) >= 0}
  IN {<<Begin("")>> \o s \o [i \in 1 .. Depth(s) + 1 |-> E] \o <<Tok("END")>> : s \in open}
Short == UNION {[1 .. n -> {Begin("a"), E, Prop("compatible", <<OPEN>>), Tok("END"), Tok("BAD")}] : n \in 0 .. 4}
Trees == Short \cup Nested({Begin("a"), Begin("b"), E, Prop("compatible", <<UARTNAME>>)}, 6)
               \cup Nested({Begin("reserved-memory"), Begin("memory"), E,
                            Prop("#size-cells", <<1>>), Prop("reg", <<0, 1, 2, 0, 3, 0>>)}, 5)

MCBoards == {OneRegion, TwoRegions, Wrapping} \cup BadBoards
            \cup {[TwoRegions EXCEPT !.tree.toks = t] : t \in Trees}
MCClasses == <<2, 4>>
=============================================================================
