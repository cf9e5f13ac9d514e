-------------------------------- MODULE Cpio --------------------------------
(***************************************************************************)
(* The newc archive reader of kernel/src/cpio.c.  An archive is            *)
(* a = [entries, limit]: what lies at the offsets the reader visits, and   *)
(* the number of bytes up to its end.  An entry has name, namesz, filesz,  *)
(* regular (the file type in its mode) and wellFormed (magic, the hex      *)
(* fields, a NUL at the end of the name and none before it).               *)
(***************************************************************************)
EXTENDS Integers, Sequences

CONSTANT HEADER  \* sizeof(struct cpio_newc_header), 110

TRAILER == "TRAILER!!!"

Entry == [name : STRING, namesz : Nat, filesz : Nat, regular : BOOLEAN, wellFormed : BOOLEAN]
Archive == [entries : Seq(Entry), limit : Nat]

align4(n) == ((n + 3) \div 4) * 4
NameSpan(e) == align4(HEADER + e.namesz)

\* Offset of the k-th header, as cur advances.
Cur(a) ==
  LET off[k \in Nat] ==
        IF k <= 1 THEN 0
        ELSE off[k - 1] + NameSpan(a.entries[k - 1]) + align4(a.entries[k - 1].filesz)
  IN off
Data(a, k) == Cur(a)[k] + NameSpan(a.entries[k])

HeaderOk(a, k) ==
  /\ Cur(a)[k] + HEADER <= a.limit
  /\ a.entries[k].wellFormed
  /\ a.entries[k].namesz # 0
  /\ Cur(a)[k] + HEADER + a.entries[k].namesz <= a.limit

\* The file lies inside the archive: the callback is called for it.
FileOk(a, k) ==
  /\ HeaderOk(a, k) /\ a.entries[k].name # TRAILER
  /\ Cur(a)[k] + NameSpan(a.entries[k]) <= a.limit
  /\ Data(a, k) + align4(a.entries[k].filesz) <= a.limit

Visited(a) == {k \in DOMAIN a.entries : \A j \in 1 .. k : FileOk(a, j)}

\* 0 when every entry up to the trailer is sound.
cpio_iterate(a) ==
  \E k \in DOMAIN a.entries :
    /\ HeaderOk(a, k) /\ a.entries[k].name = TRAILER
    /\ \A j \in 1 .. k - 1 : j \in Visited(a)

\* The first entry with the name, 0 if the walk fails or meets none.
cpio_find(a, name) ==
  LET hits == {k \in Visited(a) : a.entries[k].name = name}
  IN IF ~cpio_iterate(a) \/ hits = {} THEN 0
     ELSE CHOOSE k \in hits : \A j \in hits : k <= j
=============================================================================
