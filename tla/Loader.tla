------------------------------- MODULE Loader -------------------------------
(***************************************************************************)
(* The bootloader's shell and its load command (bootloader/src/shell.c),   *)
(* with the sender of tools/uart_load.py and a serial line that loses or   *)
(* changes what it carries.  A unit is a number below SUM, the modulus of  *)
(* the checksums; a 32-bit field of the protocol is one unit, as is the    *)
(* word "load".  Memory is indexed by unit; the copy loops are stepwise.   *)
(* A definition X_Defect, placed before X, is X with a plausible defect.   *)
(***************************************************************************)
EXTENDS Integers, Sequences

CONSTANTS
  SUM,                        \* 2^32
  CR, LF, SP, BS,             \* '\r', '\n', blank, backspace
  CMD, MAGIC,                 \* "load", the bundle magic
  Silent,                     \* units that readline ignores
  LINE_MAX,                   \* size of the line buffer
  MAX_KERNEL, MAX_INITRD,
  LOAD, INITRD,               \* load addresses of the two images
  Images,                     \* pairs of images the sender may hold
  Changes,                    \* values the line may put in place of a unit
  Fill,                       \* what memory may hold at power-up
  FAULTS                      \* bound: deliveries with a fault

META == 4                     \* fields before the images
MAX_BUNDLE == MAX_KERNEL + MAX_INITRD + META
Unit == 0 .. SUM - 1

checksum_bytes(s) ==
  LET sum[k \in 0 .. Len(s)] == IF k = 0 THEN 0 ELSE (sum[k - 1] + s[k]) % SUM
  IN sum[Len(s)]

Payload(im) ==
  <<Len(im.kernel), Len(im.initrd), checksum_bytes(im.kernel), checksum_bytes(im.initrd)>>
    \o im.kernel \o im.initrd

\* The copy of the initrd ends outside its source: the real addresses are
\* further apart than the largest bundle.
ASSUME LoaderAssumption ==
  /\ LOAD \in Nat /\ INITRD \in Nat /\ LOAD + MAX_BUNDLE <= INITRD
  /\ MAX_KERNEL \in Nat /\ MAX_INITRD \in Nat /\ FAULTS \in Nat

\* What is sent are units, and the size of a payload fits its field.
ASSUME StreamAssumption ==
  /\ SUM \in Nat \ {0} /\ {CR, CMD, MAGIC} \cup Changes \subseteq Unit
  /\ Images \subseteq [kernel : Seq(Unit), initrd : Seq(Unit)]
  /\ \A im \in Images : Len(Payload(im)) < SUM

Addr == LOAD .. INITRD + MAX_INITRD - 1

VARIABLES
  image, wire, faults,        \* sender's files, units on the line, faults left
  lost,                       \* ghost: a unit was lost
  pc, line, header, mem,
  got,                        \* units received, then units copied
  ksize, isize,               \* kernel_size and initrd_size
  bundle                      \* ghost: memory when the bundle was accepted

sender == <<image, faults, lost>>
loader == <<image, wire, faults, lost, pc, line, header, mem, got, ksize, isize, bundle>>

\* The units of m from address a.
Block(m, a, n) == [j \in 1 .. n |-> m[a + j - 1]]

-----------------------------------------------------------------------------
(* The sender and the line *)

Stream(im) ==
  <<CR, CMD, CR, MAGIC, Len(Payload(im)), checksum_bytes(Payload(im))>> \o Payload(im)

Changed(s) == {[s EXCEPT ![j] = u] : j \in DOMAIN s, u \in Changes}
Shortened(s) == {SubSeq(s, 1, j - 1) \o SubSeq(s, k, Len(s)) : j \in DOMAIN s, k \in DOMAIN s}

\* uart_load.py is started in its default mode, at first or again: "\rload\r",
\* header and payload.
Send ==
  /\ pc # "kernel" /\ wire = <<>>
  /\ \/ wire' = Stream(image) /\ UNCHANGED <<faults, lost>>
     \/ /\ faults > 0 /\ faults' = faults - 1
        /\ \/ wire' \in Changed(Stream(image)) /\ UNCHANGED lost
           \/ wire' \in Shortened(Stream(image)) /\ lost' = TRUE
  /\ UNCHANGED <<image, pc, line, header, mem, got, ksize, isize, bundle>>

uart_recv(u) == wire # <<>> /\ u = Head(wire) /\ wire' = Tail(wire)

-----------------------------------------------------------------------------
(* The bootloader *)

Prompt_KeepLine(p) == pc' = p /\ header' = <<>> /\ got' = 0 /\ UNCHANGED line

\* Back to the prompt, or on to the next step, with an empty line buffer.
Prompt(p) == pc' = p /\ line' = <<>> /\ header' = <<>> /\ got' = 0

\* trim_in_place and shell_execute: "load" with blanks around it.
IsLoad(l) == \E j \in DOMAIN l : l[j] = CMD /\ \A k \in DOMAIN l \ {j} : l[k] = SP

\* shell_readline takes a unit; a complete line is executed.
ReadLine ==
  LET u == Head(wire) IN
  /\ pc = "prompt" /\ uart_recv(u)
  /\ IF u \in {CR, LF} THEN Prompt(IF IsLoad(line) THEN "header" ELSE "prompt")
     ELSE /\ line' = CASE u = BS -> SubSeq(line, 1, Len(line) - 1)
                       [] u # BS /\ u \notin Silent /\ Len(line) < LINE_MAX - 1 -> Append(line, u)
                       [] OTHER -> line
          /\ UNCHANGED <<pc, header, got>>
  /\ UNCHANGED <<sender, mem, ksize, isize, bundle>>

\* recv_u32_le three times, then the tests on magic and size.
ReadHeader ==
  LET u == Head(wire) IN
  /\ pc = "header" /\ uart_recv(u)
  /\ IF Len(header) < 2 THEN header' = Append(header, u) /\ UNCHANGED <<pc, line, got>>
     ELSE IF header[1] # MAGIC \/ header[2] \notin 1 .. MAX_BUNDLE THEN Prompt("prompt")
     ELSE pc' = "payload" /\ header' = Append(header, u) /\ got' = 0 /\ UNCHANGED line
  /\ UNCHANGED <<sender, mem, ksize, isize, bundle>>

\* recv_bytes.
ReadPayload ==
  LET u == Head(wire) IN
  /\ pc = "payload" /\ uart_recv(u)
  /\ mem' = [mem EXCEPT ![LOAD + got] = u]
  /\ got' = got + 1
  /\ pc' = IF got + 1 = header[2] THEN "verify" ELSE pc
  /\ UNCHANGED <<sender, line, header, ksize, isize, bundle>>

BundleOk_NoLayout(m, size, sum) ==
  LET k == m[LOAD]
      i == m[LOAD + 1]
  IN /\ checksum_bytes(Block(m, LOAD, size)) = sum
     /\ size >= META
     /\ k \in 1 .. MAX_KERNEL /\ i \in 1 .. MAX_INITRD

\* The bundle's checksum, its layout, and the checksums of its two images.
BundleOk(m, size, sum) ==
  LET k == m[LOAD]
      i == m[LOAD + 1]
  IN /\ checksum_bytes(Block(m, LOAD, size)) = sum
     /\ size >= META
     /\ k \in 1 .. MAX_KERNEL /\ i \in 1 .. MAX_INITRD
     /\ META + k + i = size
     /\ checksum_bytes(Block(m, LOAD + META, k)) = m[LOAD + 2]
     /\ checksum_bytes(Block(m, LOAD + META + k, i)) = m[LOAD + 3]

Verify ==
  /\ pc = "verify"
  /\ IF BundleOk(mem, header[2], header[3])
     THEN /\ pc' = "copy_kernel" /\ got' = 0
          /\ ksize' = mem[LOAD] /\ isize' = mem[LOAD + 1] /\ bundle' = mem
          /\ UNCHANGED <<line, header>>
     ELSE Prompt("prompt") /\ UNCHANGED <<ksize, isize, bundle>>
  /\ UNCHANGED <<sender, wire, mem>>

\* The n-th unit that copy_bytes copies: upwards or downwards.
CopyIndex_Reversed(dst, src, size, n) == IF dst < src THEN size - 1 - n ELSE n

CopyIndex(dst, src, size, n) == IF dst < src THEN n ELSE size - 1 - n

copy_bytes(dst, src, size) ==
  LET j == CopyIndex(dst, src, size, got)
  IN got < size /\ mem' = [mem EXCEPT ![dst + j] = mem[src + j]] /\ got' = got + 1

CopyKernel ==
  /\ pc = "copy_kernel"
  /\ \/ copy_bytes(LOAD, LOAD + META, ksize) /\ UNCHANGED pc
     \/ got = ksize /\ pc' = "copy_initrd" /\ got' = 0 /\ UNCHANGED mem
  /\ UNCHANGED <<sender, wire, line, header, ksize, isize, bundle>>

\* The last copy is followed by the jump.
CopyInitrd ==
  /\ pc = "copy_initrd"
  /\ \/ copy_bytes(INITRD, LOAD + META + ksize, isize) /\ UNCHANGED pc
     \/ got = isize /\ pc' = "kernel" /\ UNCHANGED <<mem, got>>
  /\ UNCHANGED <<sender, wire, line, header, ksize, isize, bundle>>

LoaderInit ==
  /\ image \in Images
  /\ wire = <<>> /\ faults = FAULTS /\ lost = FALSE
  /\ pc = "prompt" /\ line = <<>> /\ header = <<>>
  /\ mem \in {[a \in Addr |-> u] : u \in Fill} /\ got = 0
  /\ ksize = 0 /\ isize = 0 /\ bundle = mem

LoaderStep == ReadLine \/ ReadHeader \/ ReadPayload \/ Verify \/ CopyKernel \/ CopyInitrd

LoaderNext == Send \/ LoaderStep

-----------------------------------------------------------------------------
(* Properties *)

\* Whatever single change each delivery suffered, and whatever remains of
\* earlier attempts, a bundle that is accepted and jumped to is the sender's:
\* checksums and layout together leave no changed unit undetected.
LoadedExactly ==
  pc = "kernel" /\ ~lost =>
    /\ ksize = Len(image.kernel) /\ Block(mem, LOAD, ksize) = image.kernel
    /\ isize = Len(image.initrd) /\ Block(mem, INITRD, isize) = image.initrd

\* The copies are exact although the kernel's overlaps its source and comes
\* before the initrd is moved.
CopyExact ==
  pc = "kernel" =>
    /\ \A j \in 0 .. ksize - 1 : mem[LOAD + j] = bundle[LOAD + META + j]
    /\ \A j \in 0 .. isize - 1 : mem[INITRD + j] = bundle[LOAD + META + ksize + j]

\* CopyExact while it comes about: what the copies have done so far.
Copied(k, from) ==
  \A a \in Addr :
    mem[a] = IF a < LOAD + k THEN bundle[a + META]
             ELSE IF from <= a /\ a < INITRD + isize
             THEN bundle[LOAD + META + ksize + (a - INITRD)]
             ELSE bundle[a]

LoaderInv ==
  /\ DOMAIN mem = Addr
  /\ pc \in {"copy_kernel", "copy_initrd", "kernel"} =>
       ksize \in 1 .. MAX_KERNEL /\ isize \in 1 .. MAX_INITRD
  /\ pc = "copy_kernel" => got \in 0 .. ksize /\ Copied(got, INITRD + isize)
  /\ pc = "copy_initrd" => got \in 0 .. isize /\ Copied(ksize, INITRD + isize - got)
  /\ pc = "kernel" => Copied(ksize, INITRD)
=============================================================================
