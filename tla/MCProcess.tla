----------------------------- MODULE MCProcess -----------------------------
(* Process for TLC: an archive that ends with its trailer, one a byte shorter, *)
(* and a damaged one.                                                          *)
EXTENDS Process, TLC

File(name, size, regular) ==
  [name |-> name, namesz |-> 2, filesz |-> size, regular |-> regular, wellFormed |-> TRUE]

Entries ==
  <<File("dir", 3, FALSE), File("empty", 0, TRUE), File("big", 9, TRUE), File("a", 5, TRUE),
    File("b", 8, TRUE), File("a", 7, TRUE), File(TRAILER, 0, FALSE), File("late", 1, TRUE)>>

Sound == [entries |-> Entries, limit |-> 824]
MCArchives ==
  {Sound, [Sound EXCEPT !.limit = @ - 1], [Sound EXCEPT !.entries[6].wellFormed = FALSE]}
MCNames == {"a", "b", "dir", "empty", "big", "late", "none"}

Symmetry == Permutations(Task) \cup Permutations(Stack)
=============================================================================
