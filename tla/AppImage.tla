------------------------------ MODULE AppImage ------------------------------
(***************************************************************************)
(* From an ELF file to the image that is flashed (elf.go and convert.go of *)
(* internal/flash, espfmt/image.go): sections are sorted, merged, padded,  *)
(* and placed so that the boot loader can map every flash segment; the     *)
(* gaps before flash segments are filled with pieces of RAM segments.      *)
(*                                                                         *)
(* A segment's data is a Go slice: at first a view of the file's buffer,   *)
(* which append extends in place, over what follows in the file; a copy of *)
(* its own once it was padded or did not fit.  A byte of the file is its   *)
(* place there, and 0 a zero byte.  Headers, check sum, digest and the     *)
(* hash in the app descriptor are data; sections do not overlap, and those *)
(* that are not loaded are left out.                                       *)
(***************************************************************************)
EXTENDS Naturals, FiniteSets, Sequences, SequencesExt, FiniteSetsExt

CONSTANTS NFlash,    \* sections in the flash window
          NRam,      \* sections in RAM
          Sizes,     \* sizes of sections
          Gaps,      \* distances in memory
          FileGaps,  \* distances in the file
          Align,     \* 4: segments are padded to it
          SegHeader, \* SEG_HEADER_LEN
          Header,    \* length of the image's header
          Page,      \* mmuPageSize
          PageTail,  \* 0x24: a segment may not end in the first bytes of a page
          FlashBase,
          RamBase    \* above the flash window

Sections == 1..NFlash + NRam
FlashSections == 1..NFlash

ASSUME ImageAssumption ==
  /\ {NFlash, NRam, PageTail} \subseteq Nat
  /\ Sizes \cup {Align, SegHeader, Header, Page, FlashBase, RamBase} \subseteq Nat \ {0}
  /\ Gaps \cup FileGaps \subseteq Nat
  /\ PageTail < Page /\ SegHeader < Page /\ SegHeader < FlashBase
  /\ Page % Align = 0 /\ PageTail % Align = 0

VARIABLES
  file,    \* the sections: address, size, place in the file; which has the app descriptor
  elf,     \* the file's buffer
  built,   \* the segments are merged and sorted
  toFlash, \* flashSegments, those still to write
  ram,     \* remainingRam
  image,   \* segments written: address, bytes, offset of the bytes
  written  \* buf.Len()

imgVars == <<file, elf, built, toFlash, ram, image, written>>

ImgTypeOK ==
  /\ elf \in Seq(Nat) /\ built \in BOOLEAN /\ written \in Nat
  /\ \A g \in Range(toFlash) \cup Range(ram) :
       Len(g.own) \in {0, g.len} /\ (g.at = 0 <=> g.own # <<>>)
  /\ \A b \in Range(image) : b.at + Len(b.bytes) <= written
-----------------------------------------------------------------------------
(* Slices.                                                                  *)

Zeros(n) == [i \in 1..n |-> 0]
Missing(n, align) == (align - (n % align)) % align

View(addr, at, len) == [addr |-> addr, at |-> at, len |-> len, own |-> <<>>]
Own(addr, bytes) == [addr |-> addr, at |-> 0, len |-> Len(bytes), own |-> bytes]
Bytes(buf, g) == IF g.at = 0 THEN g.own ELSE SubSeq(buf, g.at, g.at + g.len - 1)
End(g) == g.addr + g.len

\* A slice of a slice.
From(g, n) == IF g.at = 0 THEN Own(g.addr + n, SubSeq(g.own, n + 1, g.len))
                          ELSE View(g.addr + n, g.at + n, g.len - n)

\* append(g.Data, bytes...): the slice, and the file's buffer afterwards.
Extend(buf, g, bytes) ==
  LET n == g.at + g.len
      inPlace == g.at # 0 /\ n + Len(bytes) - 1 <= Len(buf)
      end == n + Len(bytes) - 1
  IN  [buf |-> IF inPlace
                 THEN [i \in DOMAIN buf |-> IF i \in n..end THEN bytes[i - n + 1] ELSE buf[i]]
                 ELSE buf,
       seg |-> IF inPlace THEN [g EXCEPT !.len = @ + Len(bytes)]
                          ELSE Own(g.addr, Bytes(buf, g) \o bytes)]

\* padSegments: a copy, where there is something to pad.
Padded(buf, g) ==
  IF Missing(g.len, Align) = 0 THEN g ELSE Own(g.addr, Bytes(buf, g) \o Zeros(Missing(g.len, Align)))
-----------------------------------------------------------------------------
(* Merging, from a buffer and segments in the order of their addresses.     *)

Joined(buf, m, g, gap) ==
  LET filled == Extend(buf, m, Zeros(gap))
  IN  Extend(filled.buf, filled.seg, Bytes(filled.buf, g))

\* A turn of mergeSegments' loop: a gap is filled when it ends before the next
\* aligned address.
Merge(acc, g, align) ==
  LET m == Last(acc.out)
      j == Joined(acc.buf, m, g, g.addr - End(m))
  IN  IF acc.out # <<>> /\ g.addr <= End(m) + Missing(End(m), align)
        THEN [buf |-> j.buf, out |-> [acc.out EXCEPT ![Len(acc.out)] = j.seg]]
        ELSE [acc EXCEPT !.out = Append(@, g)]

MergeSegments(buf, segs, align) ==
  LET merged[i \in 0..Len(segs)] ==
        IF i = 0 THEN [buf |-> buf, out |-> <<>>] ELSE Merge(merged[i - 1], segs[i], align)
  IN  merged[Len(segs)]

\* MergeSegments of elf.go: sections that touch.
MergeTouching(buf, segs) == MergeSegments(buf, segs, 1)

\* hasAppDescriptorMagic, then the swap.
WithDescriptorFirst(buf, segs) ==
  LET d == {i \in DOMAIN segs : Bytes(buf, segs[i])[1] = file.descriptor}
  IN  IF d = {} THEN segs
      ELSE [segs EXCEPT ![1] = segs[Min(d)], ![Min(d)] = segs[1]]

SectionViews(ids) ==
  [i \in 1..Cardinality(ids) |->
     LET s == file.sections[Min(ids) + i - 1] IN View(s.addr, s.at, s.size)]

\* ParseELF merges the flash sections; BuildAppImage merges and pads both kinds.
Prepare ==
  LET parsed == MergeTouching(elf, SectionViews(FlashSections))
      rom    == MergeSegments(parsed.buf, parsed.out, Align)
      padded == [i \in DOMAIN rom.out |-> Padded(rom.buf, rom.out[i])]
      low    == MergeSegments(rom.buf, SectionViews(Sections \ FlashSections), Align)
  IN  /\ ~ built
      /\ built' = TRUE
      /\ elf' = low.buf
      /\ ram' = [i \in DOMAIN low.out |-> Padded(low.buf, low.out[i])]
      /\ toFlash' = WithDescriptorFirst(low.buf, padded)
      /\ UNCHANGED <<file, image, written>>
-----------------------------------------------------------------------------
(* Placing.                                                                 *)

\* Mutant: the header, and not the bytes, lands at the address.
MutantSegmentPadding(offset, g) ==
  LET pad == (Page - (offset % Page) + (g.addr % Page)) % Page
  IN  IF pad = 0 THEN 0
      ELSE IF pad > SegHeader THEN pad - SegHeader
      ELSE pad + Page - SegHeader

\* segmentPadding: the length of a filler before g, so that the bytes of g land
\* where its address is, modulo the page.
SegmentPadding(offset, g) ==
  LET pad == (Page - (offset % Page) + ((g.addr - SegHeader) % Page)) % Page
  IN  IF pad = 0 THEN 0
      ELSE IF pad > SegHeader THEN pad - SegHeader
      ELSE pad + Page - SegHeader

\* saveSegment.
Write(addr, bytes) ==
  /\ image' = Append(image, [addr |-> addr, at |-> written + SegHeader,
                             bytes |-> bytes \o Zeros(Missing(Len(bytes), Align))])
  /\ written' = written + SegHeader + Len(bytes) + Missing(Len(bytes), Align)

Gap == IF built /\ toFlash # <<>> THEN SegmentPadding(written, Head(toFlash)) ELSE 0

\* Mutant: what is left of the segment keeps its address.
MutantFillWithRam ==
  LET g == Head(ram)
  IN  /\ Gap > SegHeader /\ ram # <<>>
      /\ Write(g.addr, SubSeq(Bytes(elf, g), 1, Min({Gap, g.len})))
      /\ ram' = IF Gap < g.len THEN <<[From(g, Gap) EXCEPT !.addr = g.addr]>> \o Tail(ram) ELSE Tail(ram)
      /\ UNCHANGED <<file, elf, built, toFlash>>

\* A piece of the first RAM segment, or all of it, fills the gap.
FillWithRam ==
  LET g == Head(ram)
  IN  /\ Gap > SegHeader /\ ram # <<>>
      /\ Write(g.addr, SubSeq(Bytes(elf, g), 1, Min({Gap, g.len})))
      /\ ram' = IF Gap < g.len THEN <<From(g, Gap)>> \o Tail(ram) ELSE Tail(ram)
      /\ UNCHANGED <<file, elf, built, toFlash>>

\* A dummy segment, which is not loaded.
FillWithZeros ==
  /\ Gap > 0 /\ (Gap <= SegHeader \/ ram = <<>>)
  /\ written' = written + SegHeader + Gap
  /\ UNCHANGED <<file, elf, built, toFlash, ram, image>>

\* saveFlashSegment: zeros behind the segment - in the file's buffer, too.
SaveFlashSegment ==
  LET g == Head(toFlash)
      over == (written + SegHeader + g.len) % Page
      long == Extend(elf, g, Zeros(IF over < PageTail THEN PageTail - over ELSE 0))
  IN  /\ built /\ toFlash # <<>> /\ Gap = 0
      /\ elf' = long.buf
      /\ Write(g.addr, Bytes(long.buf, long.seg))
      /\ toFlash' = Tail(toFlash)
      /\ UNCHANGED <<file, built, ram>>

SaveRemaining ==
  /\ built /\ toFlash = <<>> /\ ram # <<>>
  /\ Write(Head(ram).addr, Bytes(elf, Head(ram)))
  /\ ram' = Tail(ram)
  /\ UNCHANGED <<file, elf, built, toFlash>>

Complete == built /\ toFlash = <<>> /\ ram = <<>>
-----------------------------------------------------------------------------
\* The sections in the order of their addresses, which is that of the file.
\* Sections that nearly touch in memory do so in the file.
Put(acc, s, size, gap, between) ==
  LET addr == IF s = NFlash + 1 THEN RamBase ELSE acc.addr + gap
      at == acc.at + between
  IN  [addr |-> addr + size, at |-> at + size,
       sections |-> Append(acc.sections, [addr |-> addr, at |-> at, size |-> size])]

Laid(sizes, gaps, fileGap) ==
  LET laid[s \in 0..NFlash + NRam] ==
        IF s = 0 THEN [addr |-> FlashBase, at |-> 1, sections |-> <<>>]
        ELSE Put(laid[s - 1], s, sizes[s], gaps[s], IF gaps[s] < Align THEN gaps[s] ELSE fileGap)
  IN  laid[NFlash + NRam]

ImgInit ==
  /\ \E sizes \in [Sections -> Sizes], gaps \in [Sections -> Gaps],
        fileGap \in FileGaps, d \in 0..NFlash :
       LET laid == Laid(sizes, gaps, fileGap)
       IN  /\ file = [sections |-> laid.sections,
                      descriptor |-> IF d = 0 THEN 0 ELSE laid.sections[d].at]
           /\ elf = [i \in 1..laid.at - 1 + fileGap |-> i]
  /\ built = FALSE /\ toFlash = <<>> /\ ram = <<>> /\ image = <<>> /\ written = Header

ImgNext == Prepare \/ FillWithRam \/ FillWithZeros \/ SaveFlashSegment \/ SaveRemaining

ImgSpec == ImgInit /\ [][ImgNext]_imgVars
-----------------------------------------------------------------------------
(* Properties.                                                              *)

IsFlash(addr) == addr < RamBase

\* What the boot loader has at an address: of the segments that cover it, the
\* last one's byte.
Covering(a) == {i \in DOMAIN image : image[i].addr <= a /\ a < image[i].addr + Len(image[i].bytes)}
Loaded(a) == LET b == image[Max(Covering(a))] IN b.bytes[a - b.addr + 1]

\* The boot loader maps flash by pages: every flash segment's bytes are at an
\* offset that is its address modulo the page (image.go:470-475).
SegmentsMap ==
  \A i \in DOMAIN image : IsFlash(image[i].addr) => image[i].at % Page = image[i].addr % Page

\* saveFlashSegment extends a segment in the file's buffer: in the places right
\* behind a flash section the file may have been overwritten.
Exposed ==
  UNION {LET end == file.sections[s].at + file.sections[s].size IN end..end + PageTail - 1
           : s \in FlashSections}

Addr(s)     == file.sections[s].addr
Place(s)    == file.sections[s].at
Size(s)     == file.sections[s].size
SecEnd(s)   == Addr(s) + Size(s)

\* Two neighbours that become one segment, or that the zeros behind a segment never join.
Near(s) == Addr(s + 1) <= SecEnd(s) + Missing(SecEnd(s), Align)
Apart(s) == Addr(s + 1) >= SecEnd(s) + PageTail + Align - 1

\* BuildAppImage swaps the segment of the app descriptor to the front (image.go:488-498),
\* and a segment that is written later than its neighbour brings zeros over it.  None
\* does where the descriptor's is first anyway, or neighbours are near or apart.
Linked ==
  /\ \A s \in FlashSections : SecEnd(s) + PageTail + Align - 1 <= RamBase
  /\ \/ \A s \in FlashSections : file.descriptor = Place(s) => s = 1
     \/ \A s \in FlashSections : s + 1 \in FlashSections => Near(s) \/ Apart(s)

\* When the image of a file that is Linked is complete, each byte of each section is loaded
\* to its address, whatever was merged, split, padded or moved; the exposed ones may be lost.
SectionsLoad ==
  Complete /\ Linked =>
    \A s \in Sections : \A i \in 0..file.sections[s].size - 1 :
      LET place == file.sections[s].at + i
          addr  == file.sections[s].addr + i
      IN  place \in Exposed \/ (Covering(addr) # {} /\ Loaded(addr) = place)
=============================================================================
