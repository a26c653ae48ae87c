-------------------------- MODULE AppImageProofs --------------------------
(***************************************************************************)
(* What AppImage guarantees for every file, alignment and page size: each  *)
(* segment is a view of the file or a copy of its own, each flash segment  *)
(* is written at its address modulo the page, and the loader gets every    *)
(* byte of every section of a file that is Linked at its address.          *)
(***************************************************************************)
EXTENDS AppImage, FiniteSetTheorems, WellFoundedInduction, SequenceTheorems, TLAPS

Seg == [addr : Nat, at : Nat, len : Nat \ {0}, own : Seq(Nat)]

\* A segment of a file of n bytes: a copy of its own, or a view of the file.
Fits(n, g) == IF g.at = 0 THEN Len(g.own) = g.len ELSE g.own = <<>> /\ g.at + g.len - 1 <= n

Segments(n, low) == {g \in Seg : Fits(n, g) /\ g.addr >= low}
-----------------------------------------------------------------------------
(* Induction, for the two loops that are recursive functions.               *)

LEMMA SetInduction ==
  ASSUME NEW S, 0 \in S, \A n \in Nat : n \in S => n + 1 \in S
  PROVE  Nat \subseteq S
<1> DEFINE R == {ss \in Nat \X Nat : ss[1] < ss[2]}
           T == Nat \ S
<1> SUFFICES ASSUME T # {} PROVE FALSE
  OBVIOUS
<1>1. IsWellFoundedOn(R, Nat)
  BY NatLessThanWellFounded, Zenon DEF OpToRel
<1>2. T \subseteq Nat
  OBVIOUS
<1>3. PICK x \in T : \A y \in T : ~ (<<y, x>> \in R)
  <2> HIDE DEF R, T
  <2> QED
    BY <1>1, <1>2, WFMin
<1>4. x \in Nat /\ x # 0 /\ x - 1 \in Nat /\ (x - 1) + 1 = x
  BY <1>3
<1>5. x - 1 \in T /\ <<x - 1, x>> \in R
  BY <1>3, <1>4
<1>6. QED
  BY <1>3, <1>5

LEMMA Smallest ==
  ASSUME NEW T, T \subseteq Nat, T # {}
  PROVE  \E x \in T : \A y \in T : x <= y
<1> DEFINE R == {ss \in Nat \X Nat : ss[1] < ss[2]}
<1>1. IsWellFoundedOn(R, Nat)
  BY NatLessThanWellFounded, Zenon DEF OpToRel
<1>2. PICK x \in T : \A y \in T : ~ (<<y, x>> \in R)
  <2> HIDE DEF R
  <2> QED
    BY <1>1, WFMin
<1>3. ASSUME NEW y \in T PROVE x <= y
  <2>1. x \in Nat /\ y \in Nat
    OBVIOUS
  <2>2. <<y, x>> \notin R
    BY <1>2
  <2>3. ~ (y < x)
    BY <2>1, <2>2
  <2>4. QED
    BY <2>1, <2>3
<1>4. QED
  BY <1>3

\* f is a run of a loop of n turns from d, whose turns are a function on the values D
\* of its variable.
IsRun(f, n, D, d, step) ==
  f \in [0..n -> D] /\ f[0] = d /\ \A i \in 1..n : f[i] = step[<<f[i - 1], i>>]

LEMMA LoopRuns ==
  ASSUME NEW n \in Nat, NEW D, NEW d \in D, NEW step \in [D \X (1..n) -> D]
  PROVE  \E f : IsRun(f, n, D, d, step)
<1> DEFINE Goes(k) == \E f \in [0..k -> D] : f[0] = d /\ \A i \in 1..k : f[i] = step[<<f[i - 1], i>>]
           S == {k \in Nat : k <= n => Goes(k)}
<1>1. 0 \in S
  <2> DEFINE f == [i \in 0..0 |-> d]
  <2>1. f \in [0..0 -> D] /\ f[0] = d /\ \A i \in 1..0 : FALSE
    OBVIOUS
  <2> HIDE DEF f
  <2>2. Goes(0)
    BY <2>1
  <2>3. QED
    BY <2>2
<1>2. ASSUME NEW k \in Nat, k \in S PROVE k + 1 \in S
  <2> SUFFICES ASSUME k + 1 <= n PROVE Goes(k + 1)
    OBVIOUS
  <2>1. Goes(k)
    BY <1>2
  <2>2. PICK f \in [0..k -> D] : f[0] = d /\ \A i \in 1..k : f[i] = step[<<f[i - 1], i>>]
    BY <2>1
  <2>3. PICK e \in D : e = step[<<f[k], k + 1>>]
    OBVIOUS
  <2> DEFINE g == [i \in 0..k + 1 |-> IF i = k + 1 THEN e ELSE f[i]]
  <2>4. g \in [0..k + 1 -> D]
    OBVIOUS
  <2>5. \A i \in 0..k : g[i] = f[i]
    OBVIOUS
  <2>6. g[k + 1] = e
    OBVIOUS
  <2> HIDE DEF g
  <2>7. g[0] = d
    BY <2>2, <2>5
  <2>8. \A i \in 1..k + 1 : g[i] = step[<<g[i - 1], i>>]
    <3> SUFFICES ASSUME NEW i \in 1..k + 1 PROVE g[i] = step[<<g[i - 1], i>>]
      OBVIOUS
    <3>1. g[i - 1] = f[i - 1]
      BY <2>5
    <3>2. CASE i = k + 1
      BY <2>3, <2>6, <3>1, <3>2
    <3>3. CASE i \in 1..k
      BY <2>2, <2>5, <3>1, <3>3
    <3>4. QED
      BY <3>2, <3>3
  <2>9. QED
    BY <2>4, <2>7, <2>8
<1>3. Nat \subseteq S
  <2> HIDE DEF S
  <2> QED
    BY <1>1, <1>2, SetInduction
<1>4. n \in S
  BY <1>3
<1>5. Goes(n)
  BY <1>4
<1>6. QED
  BY <1>5 DEF IsRun
-----------------------------------------------------------------------------
(* Places modulo the page.                                                  *)

LEMMA Division ==
  ASSUME NEW a \in Int, NEW p \in Nat \ {0}
  PROVE  a \div p \in Int /\ a % p \in 0..p - 1 /\ a = p * (a \div p) + (a % p)
  OBVIOUS

LEMMA Remainder ==
  ASSUME NEW a \in Int, NEW p \in Nat \ {0}, NEW q \in Int, NEW r \in 0..p - 1, a = p * q + r
  PROVE  a % p = r
  OBVIOUS

LEMMA Shifted ==
  ASSUME NEW a \in Int, NEW b \in Int, NEW c \in Int, NEW p \in Nat \ {0}, a % p = b % p
  PROVE  (a + c) % p = (b + c) % p
<1>1. PICK q \in Int, s \in Int, t \in Int, r \in 0..p - 1, u \in 0..p - 1 :
        a = p * q + r /\ b = p * s + r /\ b + c = p * t + u
  <2>1. a \div p \in Int /\ a % p \in 0..p - 1 /\ a = p * (a \div p) + (a % p)
    BY Division
  <2>2. b \div p \in Int /\ b = p * (b \div p) + (a % p)
    BY Division
  <2>3. b + c \in Int
    OBVIOUS
  <2>4. PICK t \in Int, u \in 0..p - 1 : b + c = p * t + u
    BY <2>3, Division
  <2>5. QED
    BY <2>1, <2>2, <2>4
<1>2. a + c = p * q - p * s + p * t + u
  BY <1>1
<1>3. p * q - p * s + p * t = p * (q - s + t)
  OBVIOUS
<1>4. a + c = p * (q - s + t) + u /\ q - s + t \in Int
  BY <1>1, <1>2, <1>3
<1>5. (a + c) % p = u
  <2>1. a + c \in Int
    OBVIOUS
  <2>2. QED
    BY <1>4, <2>1, Remainder
<1>6. (b + c) % p = u
  <2>1. b + c \in Int
    OBVIOUS
  <2>2. QED
    BY <1>1, <2>1, Remainder
<1>7. QED
  BY <1>5, <1>6

LEMMA FullPage == ASSUME NEW p \in Nat \ {0}, NEW a \in 1..p + p - 1, a % p = 0 PROVE a = p
  OBVIOUS

\* Where no filler is needed, a segment's bytes are where its address is.
LEMMA PaddingMaps ==
  ASSUME NEW offset \in Nat, NEW g, g.addr \in Nat, SegmentPadding(offset, g) = 0
  PROVE  (offset + SegHeader) % Page = g.addr % Page
<1>1. Page \in Nat \ {0} /\ SegHeader \in Nat \ {0} /\ SegHeader < Page
  BY ImageAssumption DEF ImageAssumption
<1>2. PICK x \in 0..Page - 1, y \in 0..Page - 1 : x = offset % Page /\ y = (g.addr - SegHeader) % Page
  <2>1. offset \in Int /\ g.addr - SegHeader \in Int
    BY <1>1
  <2>2. offset % Page \in 0..Page - 1 /\ (g.addr - SegHeader) % Page \in 0..Page - 1
    BY <1>1, <2>1, Division
  <2>3. QED
    BY <2>2
<1>3. PICK pad \in 0..Page - 1 : pad = (Page - x + y) % Page
  <2>1. Page - x + y \in Int
    BY <1>1
  <2>2. (Page - x + y) % Page \in 0..Page - 1
    BY <1>1, <2>1, Division
  <2>3. QED
    BY <2>2
<1>4. SegmentPadding(offset, g) = IF pad = 0 THEN 0 ELSE IF pad > SegHeader THEN pad - SegHeader
                                  ELSE pad + Page - SegHeader
  BY <1>2, <1>3 DEF SegmentPadding
<1>5. pad = 0
  BY <1>1, <1>3, <1>4
<1>6. Page - x + y \in 1..Page + Page - 1 /\ (Page - x + y) % Page = 0
  BY <1>1, <1>2, <1>3, <1>5
<1>7. Page - x + y = Page
  BY <1>1, <1>6, FullPage
<1>8. x = y
  BY <1>1, <1>2, <1>7
<1>9. ((g.addr - SegHeader) + SegHeader) % Page = (offset + SegHeader) % Page
  <2>1. offset \in Int /\ g.addr - SegHeader \in Int /\ SegHeader \in Int
    BY <1>1
  <2>2. (g.addr - SegHeader) % Page = offset % Page
    BY <1>2, <1>8
  <2>3. QED
    BY <1>1, <2>1, <2>2, Shifted
<1>10. (g.addr - SegHeader) + SegHeader = g.addr
  BY <1>1
<1>11. QED
  BY <1>9, <1>10
-----------------------------------------------------------------------------
(* Slices.                                                                  *)

LEMMA Amounts ==
  /\ NFlash \in Nat /\ NRam \in Nat /\ PageTail \in Nat
  /\ Align \in Nat \ {0} /\ SegHeader \in Nat \ {0} /\ Header \in Nat \ {0} /\ Page \in Nat \ {0}
  /\ FlashBase \in Nat \ {0} /\ RamBase \in Nat \ {0}
  /\ Sizes \subseteq Nat \ {0} /\ Gaps \subseteq Nat /\ FileGaps \subseteq Nat
  BY ImageAssumption DEF ImageAssumption

LEMMA SomeZeros ==
  ASSUME NEW n \in Int
  PROVE  Zeros(n) \in Seq(Nat) /\ (n >= 0 => Len(Zeros(n)) = n)
<1>1. CASE n >= 0
  <2>1. Zeros(n) \in [1..n -> Nat] /\ n \in Nat
    BY <1>1 DEF Zeros
  <2>2. QED
    BY <2>1
<1>2. CASE n < 0
  <2>1. 1..n = 1..0
    BY <1>2
  <2>2. Zeros(n) \in [1..0 -> Nat]
    BY <2>1 DEF Zeros
  <2>3. QED
    BY <1>2, <2>2
<1>3. QED
  BY <1>1, <1>2

LEMMA MissingSize ==
  ASSUME NEW n \in Nat, NEW align \in Nat \ {0} PROVE Missing(n, align) \in Nat
<1>1. n % align \in 0..align - 1
  BY Division
<1>2. (align - (n % align)) % align \in 0..align - 1
  <2>1. align - (n % align) \in Int
    BY <1>1
  <2>2. QED
    BY <2>1, Division
<1>3. QED
  BY <1>2 DEF Missing

LEMMA Part ==
  ASSUME NEW s \in Seq(Nat), NEW m \in Nat \ {0}, NEW k \in Nat, m + k - 1 <= Len(s)
  PROVE  SubSeq(s, m, m + k - 1) \in Seq(Nat) /\ Len(SubSeq(s, m, m + k - 1)) = k
<1>1. \A i \in m..m + k - 1 : s[i] \in Nat
  OBVIOUS
<1>2. QED
  BY <1>1, SubSeqProperties

LEMMA BytesOf ==
  ASSUME NEW buf \in Seq(Nat), NEW g \in Seg, Fits(Len(buf), g)
  PROVE  Bytes(buf, g) \in Seq(Nat) /\ Len(Bytes(buf, g)) = g.len
<1>1. g.at \in Nat /\ g.len \in Nat /\ g.own \in Seq(Nat)
  BY DEF Seg
<1>2. CASE g.at = 0
  BY <1>1, <1>2 DEF Bytes, Fits
<1>3. CASE g.at # 0
  <2>1. g.at + g.len - 1 <= Len(buf)
    BY <1>3 DEF Fits
  <2>2. QED
    BY <1>1, <1>3, <2>1, Part DEF Bytes
<1>4. QED
  BY <1>2, <1>3

LEMMA Joins ==
  ASSUME NEW s \in Seq(Nat), NEW t \in Seq(Nat)
  PROVE  s \o t \in Seq(Nat) /\ Len(s \o t) = Len(s) + Len(t)
  BY ConcatProperties

\* A copy with something added.
LEMMA Owned ==
  ASSUME NEW n \in Nat, NEW a \in Nat, NEW bytes \in Seq(Nat), Len(bytes) > 0
  PROVE  Own(a, bytes) \in Seg /\ Fits(n, Own(a, bytes)) /\ Own(a, bytes).addr = a
<1>1. Len(bytes) \in Nat \ {0}
  OBVIOUS
<1>2. QED
  BY <1>1 DEF Own, Seg, Fits

\* append keeps the length of the file's buffer, and gives a segment.
LEMMA Extended ==
  ASSUME NEW buf \in Seq(Nat), NEW g \in Seg, Fits(Len(buf), g), NEW bytes \in Seq(Nat)
  PROVE  /\ Extend(buf, g, bytes).buf \in Seq(Nat)
         /\ Len(Extend(buf, g, bytes).buf) = Len(buf)
         /\ Extend(buf, g, bytes).seg \in Seg
         /\ Fits(Len(buf), Extend(buf, g, bytes).seg)
         /\ Extend(buf, g, bytes).seg.addr = g.addr
<1>1. /\ g.addr \in Nat /\ g.at \in Nat /\ g.len \in Nat \ {0} /\ g.own \in Seq(Nat)
      /\ Len(bytes) \in Nat /\ Len(buf) \in Nat
  BY DEF Seg
<1>2. PICK n \in Nat, k \in Nat : n = g.at + g.len /\ k = Len(bytes)
  BY <1>1
<1>3. CASE g.at # 0 /\ n + k - 1 <= Len(buf)
  <2>1. PICK long : long = [i \in DOMAIN buf |-> IF i \in n..n + k - 1 THEN bytes[i - n + 1] ELSE buf[i]]
    OBVIOUS
  <2>2. PICK seg : seg = [g EXCEPT !.len = g.len + k]
    OBVIOUS
  <2>3. Extend(buf, g, bytes) = [buf |-> long, seg |-> seg]
    BY <1>2, <1>3, <2>1, <2>2 DEF Extend
  <2>4. long \in Seq(Nat) /\ Len(long) = Len(buf)
    <3>1. \A i \in Nat : i \in n..n + k - 1 => i - n + 1 \in 1..k
      BY <1>2
    <3>2. ASSUME NEW i \in 1..Len(buf)
          PROVE  (IF i \in n..n + k - 1 THEN bytes[i - n + 1] ELSE buf[i]) \in Nat
      <4>1. i \in n..n + k - 1 => i - n + 1 \in 1..Len(bytes)
        BY <1>1, <1>2, <3>1
      <4>2. i \in n..n + k - 1 => bytes[i - n + 1] \in Nat
        BY <4>1, ElementOfSeq
      <4>3. buf[i] \in Nat
        BY ElementOfSeq
      <4>4. QED
        BY <4>2, <4>3
    <3>3. long \in [1..Len(buf) -> Nat]
      BY <2>1, <3>2, SMTT(30)
    <3>4. QED
      BY <1>1, <3>3, SMTT(30)
  <2>5. seg \in Seg /\ seg.addr = g.addr /\ seg.at = g.at /\ seg.len = g.len + k /\ seg.own = g.own
    <3>1. PICK l \in Nat \ {0} : l = g.len + k
      BY <1>1, <1>2
    <3>2. seg = [g EXCEPT !.len = l]
      BY <2>2, <3>1
    <3>3. seg \in Seg
      BY <3>2 DEF Seg
    <3>4. seg.addr = g.addr /\ seg.at = g.at /\ seg.len = l /\ seg.own = g.own
      BY <3>2 DEF Seg
    <3>5. QED
      BY <3>1, <3>3, <3>4
  <2>6. g.own = <<>> /\ g.at + (g.len + k) - 1 <= Len(buf)
    BY <1>1, <1>2, <1>3, SMTT(30) DEF Fits
  <2>7. Fits(Len(buf), seg)
    BY <1>3, <2>5, <2>6 DEF Fits
  <2>8. QED
    BY <2>3, <2>4, <2>5, <2>7
<1>4. CASE ~ (g.at # 0 /\ n + k - 1 <= Len(buf))
  <2>1. Extend(buf, g, bytes) = [buf |-> buf, seg |-> Own(g.addr, Bytes(buf, g) \o bytes)]
    BY <1>2, <1>4 DEF Extend
  <2>2. Bytes(buf, g) \o bytes \in Seq(Nat) /\ Len(Bytes(buf, g) \o bytes) > 0
    BY <1>1, BytesOf, Joins
  <2>3. Own(g.addr, Bytes(buf, g) \o bytes) \in Seg
        /\ Fits(Len(buf), Own(g.addr, Bytes(buf, g) \o bytes))
        /\ Own(g.addr, Bytes(buf, g) \o bytes).addr = g.addr
    BY <1>1, <2>2, Owned
  <2>4. QED
    BY <2>1, <2>3
<1>5. QED
  BY <1>3, <1>4

LEMMA PaddedFits ==
  ASSUME NEW buf \in Seq(Nat), NEW g \in Seg, Fits(Len(buf), g)
  PROVE  Padded(buf, g) \in Seg /\ Fits(Len(buf), Padded(buf, g)) /\ Padded(buf, g).addr = g.addr
<1>1. g.addr \in Nat /\ g.len \in Nat \ {0} /\ Len(buf) \in Nat
  BY DEF Seg
<1>2. Missing(g.len, Align) \in Nat
  BY <1>1, MissingSize, Amounts
<1>3. Bytes(buf, g) \in Seq(Nat) /\ Len(Bytes(buf, g)) = g.len
  BY BytesOf
<1>4. Bytes(buf, g) \o Zeros(Missing(g.len, Align)) \in Seq(Nat)
      /\ Len(Bytes(buf, g) \o Zeros(Missing(g.len, Align))) > 0
  BY <1>1, <1>2, <1>3, SomeZeros, Joins
<1>5. QED
  BY <1>1, <1>4, Owned DEF Padded

-----------------------------------------------------------------------------
(* Merging.                                                                 *)

LEMMA SegmentFacts ==
  ASSUME NEW n, NEW low, NEW g
  PROVE  g \in Segments(n, low) <=> g \in Seg /\ Fits(n, g) /\ g.addr >= low
  BY DEF Segments

LEMMA JoinedFits ==
  ASSUME NEW buf \in Seq(Nat), NEW low \in Nat, NEW m \in Segments(Len(buf), low),
         NEW g \in Segments(Len(buf), low), NEW gap \in Int
  PROVE  /\ Joined(buf, m, g, gap).buf \in Seq(Nat)
         /\ Len(Joined(buf, m, g, gap).buf) = Len(buf)
         /\ Joined(buf, m, g, gap).seg \in Segments(Len(buf), low)
<1>1. PICK filled : filled = Extend(buf, m, Zeros(gap))
  OBVIOUS
<1>2. m \in Seg /\ Fits(Len(buf), m) /\ m.addr >= low /\ g \in Seg /\ Fits(Len(buf), g)
  BY SegmentFacts
<1>3. Zeros(gap) \in Seq(Nat)
  BY SomeZeros
<1>4. /\ filled.buf \in Seq(Nat) /\ Len(filled.buf) = Len(buf)
      /\ filled.seg \in Seg /\ Fits(Len(buf), filled.seg) /\ filled.seg.addr = m.addr
  BY <1>1, <1>2, <1>3, Extended
<1>5. Bytes(filled.buf, g) \in Seq(Nat)
  BY <1>2, <1>4, BytesOf
<1>6. PICK j : j = Extend(filled.buf, filled.seg, Bytes(filled.buf, g))
  OBVIOUS
<1>7. /\ j.buf \in Seq(Nat) /\ Len(j.buf) = Len(filled.buf)
      /\ j.seg \in Seg /\ Fits(Len(filled.buf), j.seg) /\ j.seg.addr = filled.seg.addr
  BY <1>4, <1>5, <1>6, Extended
<1>8. Joined(buf, m, g, gap) = j
  BY <1>1, <1>6 DEF Joined
<1>9. j.seg \in Segments(Len(buf), low)
  BY <1>2, <1>4, <1>7, SegmentFacts
<1>10. QED
  BY <1>4, <1>7, <1>8, <1>9

\* Files of n bytes and the segments merged so far.
Merged(n, low) == {acc \in [buf : Seq(Nat), out : Seq(Segments(n, low))] : Len(acc.buf) = n}

LEMMA MergeOne ==
  ASSUME NEW n \in Nat, NEW low \in Nat, NEW acc \in Merged(n, low),
         NEW g \in Segments(n, low), NEW align
  PROVE  Merge(acc, g, align) \in Merged(n, low)
<1>1. acc.buf \in Seq(Nat) /\ acc.out \in Seq(Segments(n, low)) /\ Len(acc.buf) = n
      /\ acc = [buf |-> acc.buf, out |-> acc.out]
  BY DEF Merged
<1>2. PICK m, j : m = Last(acc.out) /\ j = Joined(acc.buf, m, g, g.addr - End(m))
  OBVIOUS
<1>3. CASE acc.out # <<>> /\ g.addr <= End(m) + Missing(End(m), align)
  <2>1. Len(acc.out) \in Nat \ {0} /\ m \in Segments(n, low)
    BY <1>1, <1>2, <1>3, EmptySeq DEF Last
  <2>2. g.addr - End(m) \in Int
    BY <2>1, SegmentFacts DEF End, Seg
  <2>3. j.buf \in Seq(Nat) /\ Len(j.buf) = n /\ j.seg \in Segments(n, low)
    BY <1>1, <1>2, <2>1, <2>2, JoinedFits
  <2>4. Merge(acc, g, align) = [buf |-> j.buf, out |-> [acc.out EXCEPT ![Len(acc.out)] = j.seg]]
    BY <1>2, <1>3 DEF Merge
  <2>5. [acc.out EXCEPT ![Len(acc.out)] = j.seg] \in Seq(Segments(n, low))
    BY <1>1, <2>1, <2>3, ExceptSeq
  <2>6. QED
    BY <2>3, <2>4, <2>5 DEF Merged
<1>4. CASE ~ (acc.out # <<>> /\ g.addr <= End(m) + Missing(End(m), align))
  <2>1. Merge(acc, g, align) = [acc EXCEPT !.out = Append(acc.out, g)]
    BY <1>2, <1>4 DEF Merge
  <2>2. [acc EXCEPT !.out = Append(acc.out, g)] = [buf |-> acc.buf, out |-> Append(acc.out, g)]
    BY <1>1, SMTT(30)
  <2>3. Append(acc.out, g) \in Seq(Segments(n, low))
    BY <1>1
  <2>4. QED
    BY <1>1, <2>1, <2>2, <2>3 DEF Merged
<1>5. QED
  BY <1>3, <1>4

\* mergeSegments runs its loop for each segment.
LEMMA MergeTurns ==
  ASSUME NEW buf \in Seq(Nat), NEW low \in Nat, NEW segs \in Seq(Segments(Len(buf), low)), NEW align
  PROVE  \E f : /\ f[0] = [buf |-> buf, out |-> <<>>] /\ f[Len(segs)] = MergeSegments(buf, segs, align)
               /\ \A i \in 1..Len(segs) : f[i] = Merge(f[i - 1], segs[i], align)
<1>1. PICK n \in Nat, k \in Nat : n = Len(segs) /\ k = Len(buf)
  OBVIOUS
<1> DEFINE D == Merged(k, low)
           d == [buf |-> buf, out |-> <<>>]
<1>2. d \in D
  BY <1>1 DEF Merged
<1>3. \A i \in 1..n : segs[i] \in Segments(k, low)
  BY <1>1, ElementOfSeq
<1>4. \A acc \in D, i \in 1..n : Merge(acc, segs[i], align) \in D
  BY <1>1, <1>3, MergeOne
<1> HIDE DEF D, d
<1>5. \E f : f = [i \in 0..n |-> IF i = 0 THEN d ELSE Merge(f[i - 1], segs[i], align)]
  <2>1. PICK step : step = [x \in D \X (1..n) |-> Merge(x[1], segs[x[2]], align)]
    OBVIOUS
  <2>2. step \in [D \X (1..n) -> D]
    BY <1>4, <2>1
  <2>3. PICK f \in [0..n -> D] : f[0] = d /\ \A i \in 1..n : f[i] = step[<<f[i - 1], i>>]
    <3>1. PICK f : IsRun(f, n, D, d, step)
      BY <1>2, <2>2, LoopRuns
    <3>2. QED
      BY <3>1 DEF IsRun
  <2>4. ASSUME NEW i \in 1..n PROVE f[i] = Merge(f[i - 1], segs[i], align)
    <3>1. <<f[i - 1], i>> \in D \X (1..n)
      BY <2>3
    <3>2. QED
      BY <2>1, <2>3, <3>1
  <2>5. f = [i \in 0..n |-> IF i = 0 THEN d ELSE Merge(f[i - 1], segs[i], align)]
    BY <2>3, <2>4
  <2>6. QED
    BY <2>5
<1> DEFINE F == CHOOSE f : f = [i \in 0..Len(segs) |->
                  IF i = 0 THEN [buf |-> buf, out |-> <<>>] ELSE Merge(f[i - 1], segs[i], align)]
<1>6. F = [i \in 0..Len(segs) |-> IF i = 0 THEN [buf |-> buf, out |-> <<>>] ELSE Merge(F[i - 1], segs[i], align)]
  BY <1>1, <1>5 DEF d
<1>7. MergeSegments(buf, segs, align) = F[Len(segs)]
  BY DEF MergeSegments
<1> HIDE DEF F
<1>8. F[0] = d /\ \A i \in 1..n : F[i] = Merge(F[i - 1], segs[i], align)
  <2>1. \A i \in 0..n : F[i] = IF i = 0 THEN d ELSE Merge(F[i - 1], segs[i], align)
    BY <1>1, <1>6 DEF d
  <2>2. 0 \in 0..n /\ \A i \in 1..n : i \in 0..n /\ i # 0
    OBVIOUS
  <2>3. QED
    BY <2>1, <2>2
<1>9. QED
  BY <1>1, <1>7, <1>8 DEF d

\* mergeSegments gives segments of the same file, none below the lowest it was given.
LEMMA MergeAll ==
  ASSUME NEW buf \in Seq(Nat), NEW low \in Nat, NEW segs \in Seq(Segments(Len(buf), low)), NEW align
  PROVE  MergeSegments(buf, segs, align) \in Merged(Len(buf), low)
<1>1. PICK n \in Nat, k \in Nat : n = Len(segs) /\ k = Len(buf)
  OBVIOUS
<1> DEFINE D == Merged(k, low)
<1>2. [buf |-> buf, out |-> <<>>] \in D
  BY <1>1 DEF Merged
<1>3. \A i \in 1..n : segs[i] \in Segments(k, low)
  BY <1>1, ElementOfSeq
<1>4. \A acc \in D, i \in 1..n : Merge(acc, segs[i], align) \in D
  BY <1>1, <1>3, MergeOne
<1> HIDE DEF D
<1>5. PICK f : /\ f[0] = [buf |-> buf, out |-> <<>>] /\ f[Len(segs)] = MergeSegments(buf, segs, align)
               /\ \A i \in 1..Len(segs) : f[i] = Merge(f[i - 1], segs[i], align)
  BY MergeTurns
<1> DEFINE S == {i \in Nat : i <= n => f[i] \in D}
<1>6. 0 \in S
  BY <1>2, <1>5
<1>7. ASSUME NEW i \in Nat, i \in S PROVE i + 1 \in S
  <2> SUFFICES ASSUME i + 1 <= n PROVE f[i + 1] \in D
    OBVIOUS
  <2>1. f[i] \in D /\ i + 1 \in 1..n /\ (i + 1) - 1 = i
    BY <1>7
  <2>2. f[i + 1] = Merge(f[i], segs[i + 1], align)
    BY <1>1, <1>5, <2>1
  <2>3. QED
    BY <1>4, <2>1, <2>2
<1>8. Nat \subseteq S
  <2> HIDE DEF S
  <2> QED
    BY <1>6, <1>7, SetInduction
<1>9. f[n] \in D
  BY <1>8
<1>10. QED
  BY <1>1, <1>5, <1>9 DEF D

-----------------------------------------------------------------------------
(* The invariant.                                                           *)

Section == [addr : Nat, at : Nat \ {0}, size : Nat \ {0}]

SameWindow(s, t) == s <= NFlash <=> t <= NFlash

\* Sections are in the order of their places and, in each window, of their addresses;
\* those that nearly touch in memory do so in the file.
InOrder(secs) ==
  \A s, t \in 1..Len(secs) : s < t =>
    /\ secs[s].at + secs[s].size <= secs[t].at
    /\ SameWindow(s, t) => secs[s].addr + secs[s].size <= secs[t].addr
    /\ t = s + 1 /\ SameWindow(s, t) /\ secs[t].addr < secs[s].addr + secs[s].size + Align
         => secs[t].at - (secs[s].at + secs[s].size) = secs[t].addr - (secs[s].addr + secs[s].size)

\* The sections are in the file, and those in RAM above the flash window.
FileSound ==
  /\ file.sections \in Seq(Section) /\ Len(file.sections) = NFlash + NRam /\ InOrder(file.sections)
  /\ \A i \in Sections : /\ file.sections[i].at + file.sections[i].size - 1 <= Len(elf)
                         /\ i > NFlash => file.sections[i].addr >= RamBase

SavedSegment == [addr : Nat, at : Nat, bytes : Seq(Nat)]
ImageSound ==
  image \in Seq(SavedSegment) /\ \A i \in 1..Len(image) : image[i].at + Len(image[i].bytes) <= written

ImgInv ==
  /\ elf \in Seq(Nat) /\ built \in BOOLEAN /\ written \in Nat
  /\ FileSound
  /\ toFlash \in Seq(Segments(Len(elf), 0)) /\ ram \in Seq(Segments(Len(elf), RamBase))
  /\ ImageSound /\ SegmentsMap

\* A range of sections, as views of the file.
LEMMA Views ==
  ASSUME elf \in Seq(Nat), FileSound, NEW a \in Nat, NEW k \in Nat, a + k <= NFlash + NRam,
         NEW ids, ids = a + 1..a + k, NEW low \in Nat, \A i \in ids : file.sections[i].addr >= low
  PROVE  SectionViews(ids) \in Seq(Segments(Len(elf), low))
<1>1. Cardinality(a + 1..a + k) = k
  <2>1. a + 1 \in Int /\ a + k \in Int
    OBVIOUS
  <2>2. Cardinality(a + 1..a + k) = IF a + 1 > a + k THEN 0 ELSE (a + k) - (a + 1) + 1
    BY <2>1, FS_Interval
  <2>3. QED
    BY <2>2
<1>2. ASSUME NEW i \in 1..k
      PROVE  View(file.sections[Min(a + 1..a + k) + i - 1].addr, file.sections[Min(a + 1..a + k) + i - 1].at,
                  file.sections[Min(a + 1..a + k) + i - 1].size) \in Segments(Len(elf), low)
  <2>1. Min(a + 1..a + k) = a + 1
    BY DEF Min
  <2>2. PICK j \in Nat : j = a + i
    OBVIOUS
  <2>3. Min(a + 1..a + k) + i - 1 = j
    BY <2>1, <2>2
  <2>4. j \in a + 1..a + k /\ j \in 1..Len(file.sections) /\ j \in Sections
    BY <2>2, Amounts DEF FileSound, Sections
  <2>5. PICK s : s = file.sections[j]
    OBVIOUS
  <2>6. s \in Section /\ s.at + s.size - 1 <= Len(elf) /\ s.addr >= low
    BY <2>4, <2>5, ElementOfSeq DEF FileSound
  <2>7. View(s.addr, s.at, s.size) \in Seg /\ Fits(Len(elf), View(s.addr, s.at, s.size))
    <3>1. <<>> \in Seq(Nat)
      BY EmptySeq
    <3>2. QED
      BY <2>6, <3>1 DEF Section, View, Seg, Fits
  <2>8. View(s.addr, s.at, s.size) \in Segments(Len(elf), low)
    BY <2>6, <2>7, SegmentFacts DEF View
  <2>9. QED
    BY <2>3, <2>5, <2>8
<1>3. SectionViews(a + 1..a + k) \in [1..k -> Segments(Len(elf), low)]
  BY <1>1, <1>2 DEF SectionViews
<1>4. QED
  BY <1>3, SMTT(30)

LEMMA DescriptorFirst ==
  ASSUME NEW buf, NEW n \in Nat, NEW segs \in Seq(Segments(n, 0))
  PROVE  WithDescriptorFirst(buf, segs) \in Seq(Segments(n, 0))
<1>1. PICK d : d = {i \in DOMAIN segs : Bytes(buf, segs[i])[1] = file.descriptor}
  OBVIOUS
<1>2. CASE d = {}
  BY <1>1, <1>2 DEF WithDescriptorFirst
<1>3. CASE d # {}
  <2>1. d \subseteq 1..Len(segs) /\ Len(segs) \in Nat
    BY <1>1
  <2>2. \E x \in d : \A y \in d : x <= y
    <3>1. d \subseteq Nat
      BY <2>1
    <3>2. QED
      BY <1>3, <3>1, Smallest
  <2>3. Min(d) \in d
    BY <2>2 DEF Min
  <2>4. PICK m \in 1..Len(segs) : m = Min(d)
    BY <2>1, <2>3
  <2>5. 1 \in 1..Len(segs) /\ segs[m] \in Segments(n, 0) /\ segs[1] \in Segments(n, 0)
    BY <2>1, <2>4, ElementOfSeq
  <2>6. PICK t : t = [segs EXCEPT ![1] = segs[m]]
    OBVIOUS
  <2>7. t \in Seq(Segments(n, 0)) /\ Len(t) = Len(segs)
    BY <2>5, <2>6, ExceptSeq
  <2>8. [t EXCEPT ![m] = segs[1]] \in Seq(Segments(n, 0))
    BY <2>4, <2>5, <2>7, ExceptSeq
  <2>9. WithDescriptorFirst(buf, segs) = [t EXCEPT ![m] = segs[1]]
    BY <1>1, <1>3, <2>4, <2>6 DEF WithDescriptorFirst
  <2>10. QED
    BY <2>8, <2>9
<1>4. QED
  BY <1>2, <1>3

\* padSegments.
LEMMA AllPadded ==
  ASSUME NEW buf \in Seq(Nat), NEW low \in Nat, NEW segs \in Seq(Segments(Len(buf), low))
  PROVE  [i \in DOMAIN segs |-> Padded(buf, segs[i])] \in Seq(Segments(Len(buf), low))
<1>1. DOMAIN segs = 1..Len(segs) /\ Len(segs) \in Nat
  OBVIOUS
<1>2. ASSUME NEW i \in 1..Len(segs) PROVE Padded(buf, segs[i]) \in Segments(Len(buf), low)
  <2>1. segs[i] \in Seg /\ Fits(Len(buf), segs[i]) /\ segs[i].addr >= low
    BY ElementOfSeq, SegmentFacts
  <2>2. QED
    BY <2>1, PaddedFits, SegmentFacts
<1>3. [i \in DOMAIN segs |-> Padded(buf, segs[i])] \in [1..Len(segs) -> Segments(Len(buf), low)]
  BY <1>1, <1>2
<1>4. QED
  BY <1>1, <1>3

LEMMA PrepareInv == ASSUME ImgInv, Prepare PROVE ImgInv'
<1>1. ~ built /\ built' = TRUE /\ UNCHANGED <<file, image, written>> /\ FileSound /\ elf \in Seq(Nat)
  BY DEF Prepare, ImgInv
<1>2. PICK parsed, rom, low :
        /\ parsed = MergeTouching(elf, SectionViews(FlashSections))
        /\ rom = MergeSegments(parsed.buf, parsed.out, Align)
        /\ low = MergeSegments(rom.buf, SectionViews(Sections \ FlashSections), Align)
  OBVIOUS
<1>3. PICK n \in Nat : n = Len(elf)
  BY <1>1
<1>4. SectionViews(FlashSections) \in Seq(Segments(n, 0))
  <2>1. ASSUME NEW i \in FlashSections PROVE file.sections[i].addr >= 0
    <3>1. i \in 1..Len(file.sections)
      BY <1>1, Amounts DEF FileSound, FlashSections
    <3>2. file.sections[i] \in Section
      BY <1>1, <3>1, ElementOfSeq DEF FileSound
    <3>3. QED
      BY <3>2 DEF Section
  <2>2. FlashSections = 0 + 1..0 + NFlash /\ 0 + NFlash <= NFlash + NRam /\ 0 \in Nat /\ NFlash \in Nat
    BY Amounts DEF FlashSections
  <2>3. SectionViews(FlashSections) \in Seq(Segments(Len(elf), 0))
    BY <1>1, <2>1, <2>2, Views
  <2>4. QED
    BY <1>3, <2>3
<1>5. SectionViews(Sections \ FlashSections) \in Seq(Segments(n, RamBase))
  <2>1. \A i \in Sections \ FlashSections : file.sections[i].addr >= RamBase
    BY <1>1, Amounts DEF FileSound, Sections, FlashSections
  <2>2. /\ Sections \ FlashSections = NFlash + 1..NFlash + NRam /\ NFlash + NRam <= NFlash + NRam
        /\ NFlash \in Nat /\ NRam \in Nat /\ RamBase \in Nat
    BY Amounts DEF FlashSections, Sections
  <2>3. SectionViews(Sections \ FlashSections) \in Seq(Segments(Len(elf), RamBase))
    BY <1>1, <2>1, <2>2, Views
  <2>4. QED
    BY <1>3, <2>3
<1>6. parsed.buf \in Seq(Nat) /\ Len(parsed.buf) = n /\ parsed.out \in Seq(Segments(n, 0))
  BY <1>1, <1>2, <1>3, <1>4, MergeAll DEF MergeTouching, Merged
<1>7. rom.buf \in Seq(Nat) /\ Len(rom.buf) = n /\ rom.out \in Seq(Segments(n, 0))
  BY <1>2, <1>6, MergeAll DEF Merged
<1>8. low.buf \in Seq(Nat) /\ Len(low.buf) = n /\ low.out \in Seq(Segments(n, RamBase))
  BY <1>2, <1>5, <1>7, MergeAll, Amounts DEF Merged
<1>9. PICK padded : padded = [i \in DOMAIN rom.out |-> Padded(rom.buf, rom.out[i])]
  OBVIOUS
<1>10. padded \in Seq(Segments(n, 0))
  BY <1>7, <1>9, AllPadded
<1>11. /\ elf' = low.buf /\ ram' = [i \in DOMAIN low.out |-> Padded(low.buf, low.out[i])]
       /\ toFlash' = WithDescriptorFirst(low.buf, padded)
  BY <1>2, <1>9 DEF Prepare
<1>12. ram' \in Seq(Segments(n, RamBase))
  BY <1>8, <1>11, AllPadded, Amounts
<1>13. toFlash' \in Seq(Segments(n, 0))
  BY <1>10, <1>11, DescriptorFirst
<1>14. ImageSound' /\ SegmentsMap' /\ written' \in Nat
  BY <1>1 DEF ImgInv, ImageSound, SegmentsMap
<1>15. FileSound'
  BY <1>1, <1>3, <1>8, <1>11 DEF FileSound
<1>16. QED
  BY <1>1, <1>3, <1>8, <1>11, <1>12, <1>13, <1>14, <1>15 DEF ImgInv

-----------------------------------------------------------------------------
(* Placing.                                                                 *)

LEMMA PaddingSize ==
  ASSUME NEW offset \in Nat, NEW g, g.addr \in Nat PROVE SegmentPadding(offset, g) \in Nat
<1>1. offset \in Int /\ g.addr - SegHeader \in Int /\ Page \in Nat \ {0} /\ SegHeader \in Nat
      /\ SegHeader < Page
  BY Amounts, ImageAssumption DEF ImageAssumption
<1>2. PICK x \in 0..Page - 1, y \in 0..Page - 1 : x = offset % Page /\ y = (g.addr - SegHeader) % Page
  <2>1. offset % Page \in 0..Page - 1 /\ (g.addr - SegHeader) % Page \in 0..Page - 1
    BY <1>1, Division
  <2>2. QED
    BY <2>1
<1>3. PICK pad \in 0..Page - 1 : pad = (Page - x + y) % Page
  <2>1. Page - x + y \in Int
    BY <1>1
  <2>2. (Page - x + y) % Page \in 0..Page - 1
    BY <1>1, <2>1, Division
  <2>3. QED
    BY <2>2
<1>4. SegmentPadding(offset, g) = IF pad = 0 THEN 0 ELSE IF pad > SegHeader THEN pad - SegHeader
                                  ELSE pad + Page - SegHeader
  BY <1>2, <1>3 DEF SegmentPadding
<1>5. QED
  BY <1>1, <1>4

LEMMA GapSize == ImgInv => Gap \in Nat
<1> SUFFICES ASSUME ImgInv PROVE Gap \in Nat
  OBVIOUS
<1>1. CASE toFlash # <<>>
  <2>1. Head(toFlash) \in Segments(Len(elf), 0)
    BY <1>1, HeadTailProperties DEF ImgInv
  <2>2. Head(toFlash).addr \in Nat /\ written \in Nat
    BY <2>1, SegmentFacts DEF Seg, ImgInv
  <2>3. SegmentPadding(written, Head(toFlash)) \in Nat
    BY <2>2, PaddingSize
  <2>4. QED
    BY <2>3 DEF Gap
<1>2. CASE toFlash = <<>>
  BY <1>2 DEF Gap
<1>3. QED
  BY <1>1, <1>2

\* saveSegment: what is written is in RAM, or where it must be.
LEMMA WriteInv ==
  ASSUME ImgInv, NEW a \in Nat, NEW bytes \in Seq(Nat), Write(a, bytes),
         a >= RamBase \/ (written + SegHeader) % Page = a % Page
  PROVE  ImageSound' /\ SegmentsMap' /\ written' \in Nat
<1>1. written \in Nat /\ Len(bytes) \in Nat /\ SegHeader \in Nat /\ Align \in Nat \ {0} /\ RamBase \in Nat
  BY Amounts DEF ImgInv
<1>2. PICK k \in Nat : k = Missing(Len(bytes), Align)
  BY <1>1, MissingSize
<1>3. Zeros(k) \in Seq(Nat) /\ Len(Zeros(k)) = k
  BY SomeZeros
<1>4. PICK all \in Seq(Nat) : all = bytes \o Zeros(k) /\ Len(all) = Len(bytes) + k
  <2>1. PICK zs \in Seq(Nat) : zs = Zeros(k) /\ Len(zs) = k
    BY <1>3, Zenon
  <2>2. bytes \o zs \in Seq(Nat) /\ Len(bytes \o zs) = Len(bytes) + Len(zs)
    BY Joins, Zenon
  <2>3. QED
    BY <2>1, <2>2, Zenon
<1>5. PICK b : b = [addr |-> a, at |-> written + SegHeader, bytes |-> all]
  OBVIOUS
<1>6. b \in SavedSegment /\ b.addr = a /\ b.at = written + SegHeader /\ b.bytes = all
  <2>1. PICK at \in Nat : at = written + SegHeader
    BY <1>1
  <2>2. b = [addr |-> a, at |-> at, bytes |-> all]
    BY <1>5, <2>1
  <2>3. QED
    BY <2>1, <2>2 DEF SavedSegment
<1>7. image' = Append(image, b) /\ written' = written + SegHeader + Len(bytes) + k
  BY <1>2, <1>4, <1>5 DEF Write
<1>8. image \in Seq(SavedSegment) /\ \A i \in 1..Len(image) : image[i].at + Len(image[i].bytes) <= written
  BY DEF ImgInv, ImageSound
<1>9. /\ image' \in Seq(SavedSegment) /\ Len(image') = Len(image) + 1
      /\ image'[Len(image) + 1] = b /\ \A i \in 1..Len(image) : image'[i] = image[i]
  BY <1>6, <1>7, <1>8
<1>10. PICK n \in Nat : n = Len(image)
  BY <1>8
<1>11. ASSUME NEW i \in 1..n + 1
       PROVE  /\ image'[i].at + Len(image'[i].bytes) <= written'
              /\ IsFlash(image'[i].addr) => image'[i].at % Page = image'[i].addr % Page
  <2>1. CASE i = n + 1
    <3>1. image'[i] = b
      BY <1>9, <1>10, <2>1
    <3>2. (written + SegHeader) + (Len(bytes) + k) <= written'
      BY <1>1, <1>7
    <3>3. QED
      BY <1>1, <1>4, <1>6, <3>1, <3>2 DEF IsFlash
  <2>2. CASE i # n + 1
    <3>1. i \in 1..Len(image) /\ image'[i] = image[i]
      BY <1>9, <1>10, <2>2
    <3>2. image[i].at + Len(image[i].bytes) <= written
      BY <1>8, <3>1
    <3>3. image[i] \in SavedSegment
      BY <1>8, <3>1, ElementOfSeq
    <3>4. image[i].at \in Nat /\ Len(image[i].bytes) \in Nat
      BY <3>3 DEF SavedSegment
    <3>5. written <= written'
      BY <1>1, <1>7
    <3>6. image[i].at + Len(image[i].bytes) <= written'
      BY <1>1, <1>7, <3>2, <3>4
    <3>7. IsFlash(image[i].addr) => image[i].at % Page = image[i].addr % Page
      BY <3>1 DEF ImgInv, SegmentsMap
    <3>8. QED
      BY <3>1, <3>6, <3>7
  <2>3. QED
    BY <2>1, <2>2
<1>12. ImageSound'
  BY <1>9, <1>10, <1>11 DEF ImageSound
<1>13. DOMAIN image' = 1..n + 1
  BY <1>9, <1>10
<1>14. SegmentsMap'
  BY <1>11, <1>13 DEF SegmentsMap, IsFlash
<1>15. QED
  BY <1>1, <1>7, <1>12, <1>14

\* What is left of a segment.
LEMMA Rest ==
  ASSUME NEW m \in Nat, NEW low \in Nat, NEW g \in Segments(m, low), NEW n \in Nat, 0 < n, n < g.len
  PROVE  From(g, n) \in Segments(m, low)
<1>1. /\ g.addr \in Nat /\ g.at \in Nat /\ g.len \in Nat \ {0} /\ g.own \in Seq(Nat)
      /\ Fits(m, g) /\ g.addr >= low
  BY SegmentFacts DEF Seg
<1>2. PICK addr \in Nat, at \in Nat, len \in Nat : addr = g.addr /\ at = g.at /\ len = g.len
  BY <1>1
<1>3. addr >= low /\ n < len
  BY <1>1, <1>2
<1>4. PICK a \in Nat, k \in Nat \ {0} : a = addr + n /\ a >= low /\ k = len - n
  BY <1>3
<1>5. CASE at = 0
  <2>1. Len(g.own) = len
    BY <1>1, <1>2, <1>5 DEF Fits
  <2>2. PICK j \in Nat \ {0} : j = n + 1
    OBVIOUS
  <2>3. j + k - 1 = len
    BY <1>3, <1>4, <2>2
  <2>4. SubSeq(g.own, j, j + k - 1) \in Seq(Nat) /\ Len(SubSeq(g.own, j, j + k - 1)) = k
    BY <1>1, <2>1, <2>3, Part
  <2>5. PICK s : s = SubSeq(g.own, j, j + k - 1)
    OBVIOUS
  <2>6. s \in Seq(Nat) /\ Len(s) > 0 /\ s = SubSeq(g.own, n + 1, g.len)
    <3>1. s \in Seq(Nat) /\ Len(s) = k
      BY <2>4, <2>5
    <3>2. s = SubSeq(g.own, n + 1, g.len)
      BY <1>2, <2>2, <2>3, <2>5
    <3>3. QED
      BY <3>1, <3>2
  <2>7. From(g, n) = Own(a, s)
    BY <1>2, <1>4, <1>5, <2>6 DEF From
  <2>8. Own(a, s) \in Seg /\ Fits(m, Own(a, s)) /\ Own(a, s).addr = a
    <3>1. a \in Nat /\ m \in Nat /\ s \in Seq(Nat) /\ Len(s) \in Nat \ {0}
      BY <1>4, <2>6
    <3>2. QED
      BY <3>1 DEF Own, Seg, Fits
  <2>9. QED
    BY <1>4, <2>7, <2>8, SegmentFacts
<1>6. CASE at # 0
  <2>1. at + len - 1 <= m
    BY <1>1, <1>2, <1>6 DEF Fits
  <2>2. PICK p \in Nat \ {0} : p = at + n
    BY <1>6
  <2>3. From(g, n) = View(a, p, k)
    BY <1>2, <1>4, <1>6, <2>2 DEF From
  <2>4. p + k - 1 <= m
    BY <1>3, <1>4, <2>1, <2>2
  <2>5. <<>> \in Seq(Nat)
    BY EmptySeq
  <2>6. View(a, p, k) \in Seg /\ Fits(m, View(a, p, k)) /\ View(a, p, k).addr = a
    BY <2>4, <2>5 DEF View, Seg, Fits
  <2>7. QED
    BY <1>4, <2>3, <2>6, SegmentFacts
<1>7. QED
  BY <1>5, <1>6

LEMMA FillWithRamInv == ASSUME ImgInv, FillWithRam PROVE ImgInv'
<1>1. /\ Gap > SegHeader /\ ram # <<>> /\ UNCHANGED <<file, elf, built, toFlash>>
      /\ Write(Head(ram).addr, SubSeq(Bytes(elf, Head(ram)), 1, Min({Gap, Head(ram).len})))
      /\ ram' = IF Gap < Head(ram).len THEN <<From(Head(ram), Gap)>> \o Tail(ram) ELSE Tail(ram)
  BY DEF FillWithRam
<1>2. PICK g \in Segments(Len(elf), RamBase) : g = Head(ram)
  BY <1>1, HeadTailProperties DEF ImgInv
<1>3. Tail(ram) \in Seq(Segments(Len(elf), RamBase))
  BY <1>1, HeadTailProperties DEF ImgInv
<1>4. PICK n \in Nat : n = Gap /\ n > 0
  BY <1>1, GapSize, Amounts
<1>5. elf \in Seq(Nat) /\ g \in Seg /\ Fits(Len(elf), g) /\ g.addr \in Nat /\ g.addr >= RamBase /\ g.len \in Nat
  BY <1>2, SegmentFacts DEF ImgInv, Seg
<1>6. Bytes(elf, g) \in Seq(Nat) /\ Len(Bytes(elf, g)) = g.len
  BY <1>5, BytesOf
<1>7. PICK k \in Nat : k = Min({n, g.len}) /\ k <= g.len
  <2>1. \E x \in {n, g.len} : \A y \in {n, g.len} : x <= y
    BY <1>5
  <2>2. Min({n, g.len}) \in {n, g.len} /\ Min({n, g.len}) <= g.len
    BY <2>1 DEF Min
  <2>3. QED
    BY <1>5, <2>2
<1>8. SubSeq(Bytes(elf, g), 1, k) \in Seq(Nat)
  <2>1. 1 \in Nat \ {0} /\ 1 + k - 1 = k
    OBVIOUS
  <2>2. 1 + k - 1 <= Len(Bytes(elf, g))
    BY <1>6, <1>7, <2>1
  <2>3. SubSeq(Bytes(elf, g), 1, 1 + k - 1) \in Seq(Nat)
    BY <1>6, <2>1, <2>2, Part
  <2>4. QED
    BY <2>1, <2>3
<1>9. Write(g.addr, SubSeq(Bytes(elf, g), 1, k))
  BY <1>1, <1>2, <1>4, <1>7
<1>10. ImageSound' /\ SegmentsMap' /\ written' \in Nat
  BY <1>5, <1>8, <1>9, WriteInv
<1>11. ram' \in Seq(Segments(Len(elf), RamBase))
  <2>1. CASE n < g.len
    <3>1. From(g, n) \in Segments(Len(elf), RamBase)
      BY <1>4, <1>5, <2>1, Rest, Amounts
    <3>2. <<From(g, n)>> \in Seq(Segments(Len(elf), RamBase))
      BY <3>1
    <3>3. ram' = <<From(g, n)>> \o Tail(ram)
      BY <1>1, <1>2, <1>4, <2>1
    <3>4. QED
      BY <1>3, <3>2, <3>3, ConcatProperties
  <2>2. CASE ~ (n < g.len)
    BY <1>1, <1>2, <1>3, <1>4, <2>2
  <2>3. QED
    BY <2>1, <2>2
<1>12. FileSound'
  BY <1>1 DEF FileSound, ImgInv
<1>13. QED
  BY <1>1, <1>10, <1>11, <1>12 DEF ImgInv

LEMMA FillWithZerosInv == ASSUME ImgInv, FillWithZeros PROVE ImgInv'
<1>1. written' = written + SegHeader + Gap /\ UNCHANGED <<file, elf, built, toFlash, ram, image>>
  BY DEF FillWithZeros
<1>2. Gap \in Nat /\ SegHeader \in Nat /\ written \in Nat
  BY GapSize, Amounts DEF ImgInv
<1>3. written' \in Nat /\ written <= written'
  BY <1>1, <1>2
<1>4. ASSUME NEW i \in 1..Len(image) PROVE image[i].at + Len(image[i].bytes) <= written'
  <2>1. image[i] \in SavedSegment /\ image[i].at + Len(image[i].bytes) <= written
    BY ElementOfSeq DEF ImgInv, ImageSound
  <2>2. image[i].at + Len(image[i].bytes) \in Nat
    BY <2>1 DEF SavedSegment
  <2>3. QED
    BY <1>2, <1>3, <2>1, <2>2
<1>5. ImageSound' /\ SegmentsMap'
  BY <1>1, <1>4 DEF ImgInv, ImageSound, SegmentsMap
<1>6. FileSound'
  BY <1>1 DEF FileSound, ImgInv
<1>7. QED
  BY <1>1, <1>3, <1>5, <1>6 DEF ImgInv

LEMMA SaveFlashSegmentInv == ASSUME ImgInv, SaveFlashSegment PROVE ImgInv'
<1>1. PICK g, zeros, long :
        /\ g = Head(toFlash)
        /\ zeros = Zeros(IF (written + SegHeader + g.len) % Page < PageTail
                           THEN PageTail - ((written + SegHeader + g.len) % Page) ELSE 0)
        /\ long = Extend(elf, g, zeros)
  OBVIOUS
<1>2. /\ built /\ toFlash # <<>> /\ Gap = 0 /\ elf' = long.buf /\ Write(g.addr, Bytes(long.buf, long.seg))
      /\ toFlash' = Tail(toFlash) /\ UNCHANGED <<file, built, ram>>
  BY <1>1 DEF SaveFlashSegment
<1>3. g \in Segments(Len(elf), 0) /\ Tail(toFlash) \in Seq(Segments(Len(elf), 0))
  BY <1>1, <1>2, HeadTailProperties DEF ImgInv
<1>4. elf \in Seq(Nat) /\ written \in Nat /\ g \in Seg /\ Fits(Len(elf), g) /\ g.addr \in Nat /\ g.len \in Nat
  BY <1>3, SegmentFacts DEF ImgInv, Seg
<1>5. zeros \in Seq(Nat)
  <2>1. PICK over \in Nat : over = (written + SegHeader + g.len) % Page
    <3>1. written + SegHeader + g.len \in Int /\ Page \in Nat \ {0}
      BY <1>4, Amounts
    <3>2. (written + SegHeader + g.len) % Page \in 0..Page - 1
      BY <3>1, Division
    <3>3. QED
      BY <3>1, <3>2
  <2>2. PICK k \in Int : k = IF over < PageTail THEN PageTail - over ELSE 0
    BY <2>1, Amounts
  <2>3. zeros = Zeros(k)
    BY <1>1, <2>1, <2>2
  <2>4. QED
    BY <2>3, SomeZeros
<1>6. /\ long.buf \in Seq(Nat) /\ Len(long.buf) = Len(elf) /\ long.seg \in Seg /\ Fits(Len(elf), long.seg)
      /\ long.seg.addr = g.addr
  BY <1>1, <1>4, <1>5, Extended
<1>7. Bytes(long.buf, long.seg) \in Seq(Nat)
  BY <1>6, BytesOf
<1>8. (written + SegHeader) % Page = g.addr % Page
  <2>1. SegmentPadding(written, g) = 0
    BY <1>1, <1>2 DEF Gap
  <2>2. QED
    BY <1>4, <2>1, PaddingMaps
<1>9. ImageSound' /\ SegmentsMap' /\ written' \in Nat
  BY <1>2, <1>4, <1>7, <1>8, WriteInv
<1>10. FileSound'
  BY <1>2, <1>6 DEF FileSound, ImgInv
<1>11. QED
  BY <1>2, <1>3, <1>6, <1>9, <1>10 DEF ImgInv

LEMMA SaveRemainingInv == ASSUME ImgInv, SaveRemaining PROVE ImgInv'
<1>1. /\ built /\ ram # <<>> /\ Write(Head(ram).addr, Bytes(elf, Head(ram)))
      /\ ram' = Tail(ram) /\ UNCHANGED <<file, elf, built, toFlash>>
  BY DEF SaveRemaining
<1>2. PICK g \in Segments(Len(elf), RamBase) : g = Head(ram)
  BY <1>1, HeadTailProperties DEF ImgInv
<1>3. Tail(ram) \in Seq(Segments(Len(elf), RamBase))
  BY <1>1, HeadTailProperties DEF ImgInv
<1>4. elf \in Seq(Nat) /\ g \in Seg /\ Fits(Len(elf), g) /\ g.addr \in Nat /\ g.addr >= RamBase
  BY <1>2, SegmentFacts DEF ImgInv, Seg
<1>5. Bytes(elf, g) \in Seq(Nat)
  BY <1>4, BytesOf
<1>6. ImageSound' /\ SegmentsMap' /\ written' \in Nat
  BY <1>1, <1>2, <1>4, <1>5, WriteInv
<1>7. FileSound'
  BY <1>1 DEF FileSound, ImgInv
<1>8. QED
  BY <1>1, <1>3, <1>6, <1>7 DEF ImgInv
-----------------------------------------------------------------------------
(* The file.                                                                *)

LayState == [addr : Nat, at : Nat \ {0}, sections : Seq(Section)]

\* After k sections: each ends before the place and, in its window, the address the
\* next one is put behind, and those of RAM are above the flash window.
LaidSound(k, acc) ==
  /\ acc \in LayState /\ Len(acc.sections) = k /\ (k > NFlash => acc.addr >= RamBase)
  /\ \A i \in 1..k : /\ acc.sections[i].at + acc.sections[i].size <= acc.at
                     /\ i > NFlash => acc.sections[i].addr >= RamBase
                     /\ SameWindow(i, k) => acc.sections[i].addr + acc.sections[i].size <= acc.addr
                     /\ i = k => /\ acc.sections[i].at + acc.sections[i].size = acc.at
                                 /\ acc.sections[i].addr + acc.sections[i].size = acc.addr
  /\ InOrder(acc.sections)

LEMMA PutTyped ==
  ASSUME NEW acc \in LayState, NEW k \in Nat, NEW size \in Nat \ {0}, NEW gap \in Nat, NEW between \in Nat
  PROVE  Put(acc, k, size, gap, between) \in LayState
<1>1. acc.addr \in Nat /\ acc.at \in Nat \ {0} /\ acc.sections \in Seq(Section) /\ RamBase \in Nat
  BY Amounts DEF LayState
<1>2. PICK a \in Nat, p \in Nat \ {0} :
        a = (IF k = NFlash + 1 THEN RamBase ELSE acc.addr + gap) /\ p = acc.at + between
  <2>1. PICK addr \in Nat, at \in Nat \ {0} : addr = acc.addr /\ at = acc.at
    BY <1>1
  <2>2. PICK a \in Nat : a = (IF k = NFlash + 1 THEN RamBase ELSE addr + gap)
    BY <1>1
  <2>3. PICK p \in Nat \ {0} : p = at + between
    OBVIOUS
  <2>4. QED
    BY <2>1, <2>2, <2>3
<1>3. [addr |-> a, at |-> p, size |-> size] \in Section
  BY DEF Section
<1>4. Append(acc.sections, [addr |-> a, at |-> p, size |-> size]) \in Seq(Section)
  BY <1>1, <1>3, AppendProperties
<1>5. a + size \in Nat /\ p + size \in Nat \ {0}
  OBVIOUS
<1>6. QED
  BY <1>2, <1>4, <1>5 DEF Put, LayState

LEMMA PutSound ==
  ASSUME NEW k \in Nat, NEW acc, LaidSound(k, acc), NEW size \in Nat \ {0}, NEW gap \in Nat, NEW between \in Nat,
         gap < Align => between = gap
  PROVE  LaidSound(k + 1, Put(acc, k + 1, size, gap, between))
<1>1. /\ acc \in LayState /\ acc.addr \in Nat /\ acc.at \in Nat \ {0} /\ acc.sections \in Seq(Section)
      /\ Len(acc.sections) = k /\ RamBase \in Nat /\ NFlash \in Nat
  BY Amounts DEF LaidSound, LayState
<1>2. PICK a \in Nat, p \in Nat \ {0} :
        a = (IF k + 1 = NFlash + 1 THEN RamBase ELSE acc.addr + gap) /\ p = acc.at + between
  BY <1>1, SMTT(30)
<1>3. PICK s \in Section : s = [addr |-> a, at |-> p, size |-> size]
  BY DEF Section
<1>4. PICK new : new = Put(acc, k + 1, size, gap, between)
  OBVIOUS
<1>5. new = [addr |-> a + size, at |-> p + size, sections |-> Append(acc.sections, s)]
  BY <1>2, <1>3, <1>4 DEF Put
<1>6. new \in LayState
  BY <1>1, <1>4, PutTyped
<1>7. k + 1 > NFlash => a >= RamBase
  BY <1>1, <1>2 DEF LaidSound
<1>8. /\ Len(new.sections) = k + 1 /\ new.sections[k + 1] = s
      /\ \A i \in 1..k : new.sections[i] = acc.sections[i]
  BY <1>1, <1>5, AppendProperties
<1>20. /\ s.addr = a /\ s.at = p /\ s.size = size /\ new.at = p + size /\ new.addr = a + size
       /\ acc.at <= p
  BY <1>1, <1>2, <1>3, <1>5
\* Where the new section is, seen from those before it.
<1>21. ASSUME NEW i \in 1..k
       PROVE  \E t \in Section :
                /\ t = acc.sections[i] /\ t = new.sections[i]
                /\ t.at + t.size <= p
                /\ i > NFlash => t.addr >= RamBase
                /\ SameWindow(i, k + 1) => t.addr + t.size <= a
                /\ i = k /\ SameWindow(i, k + 1) /\ a < t.addr + t.size + Align
                     => p - (t.at + t.size) = a - (t.addr + t.size)
  <2>1. PICK t \in Section : t = acc.sections[i] /\ t = new.sections[i]
    BY <1>1, <1>8, ElementOfSeq
  <2>2. PICK n \in Nat, m \in Nat : n = t.at + t.size /\ m = t.addr + t.size
    BY DEF Section
  <2>3. /\ n <= acc.at /\ (i > NFlash => t.addr >= RamBase) /\ (SameWindow(i, k) => m <= acc.addr)
        /\ i = k => n = acc.at /\ m = acc.addr
    BY <2>1, <2>2 DEF LaidSound
  <2>4. n <= p
    BY <1>1, <1>20, <2>3
  <2>5. ASSUME SameWindow(i, k + 1)
        PROVE  m <= a /\ (i = k /\ a < m + Align => p - n = a - m)
    <3>1. SameWindow(i, k) /\ k + 1 # NFlash + 1
      BY <1>1, <2>5 DEF SameWindow
    <3>2. a = acc.addr + gap /\ p = acc.at + between
      BY <1>2, <3>1
    <3>3. m <= acc.addr /\ (i = k => n = acc.at /\ m = acc.addr)
      BY <2>3, <3>1
    <3>4. PICK x \in Nat, y \in Nat : x = acc.addr /\ y = acc.at
      BY <1>1
    <3>5. m <= a
      BY <3>2, <3>3, <3>4
    <3>6. ASSUME i = k, a < m + Align PROVE p - n = a - m
      <4>1. a = x + gap /\ m = x /\ p = y + between /\ n = y
        BY <3>2, <3>3, <3>4, <3>6
      <4>2. gap < Align
        BY <3>4, <3>6, <4>1, Amounts
      <4>3. between = gap
        BY <4>2
      <4>4. QED
        BY <3>4, <4>1, <4>3
    <3>7. QED
      BY <3>5, <3>6
  <2>6. QED
    BY <2>1, <2>2, <2>3, <2>4, <2>5
<1>9. ASSUME NEW i \in 1..k + 1
      PROVE  /\ new.sections[i].at + new.sections[i].size <= new.at
             /\ i > NFlash => new.sections[i].addr >= RamBase
             /\ SameWindow(i, k + 1) => new.sections[i].addr + new.sections[i].size <= new.addr
             /\ i = k + 1 => /\ new.sections[i].at + new.sections[i].size = new.at
                             /\ new.sections[i].addr + new.sections[i].size = new.addr
  <2>1. CASE i = k + 1
    BY <1>7, <1>8, <1>20, <2>1
  <2>2. CASE i \in 1..k
    <3>1. PICK t \in Section :
            /\ t = new.sections[i] /\ t.at + t.size <= p /\ (i > NFlash => t.addr >= RamBase)
            /\ SameWindow(i, k + 1) => t.addr + t.size <= a
      BY <1>21, <2>2
    <3>2. t.at + t.size \in Nat /\ t.addr + t.size \in Nat
      BY DEF Section
    <3>3. QED
      BY <1>20, <2>2, <3>1, <3>2
  <2>3. QED
    BY <1>1, <2>1, <2>2
<1>22. InOrder(new.sections)
  <2> SUFFICES ASSUME NEW i \in 1..k + 1, NEW j \in 1..k + 1, i < j
               PROVE  /\ new.sections[i].at + new.sections[i].size <= new.sections[j].at
                      /\ SameWindow(i, j) => new.sections[i].addr + new.sections[i].size <= new.sections[j].addr
                      /\ j = i + 1 /\ SameWindow(i, j)
                         /\ new.sections[j].addr < new.sections[i].addr + new.sections[i].size + Align
                           => new.sections[j].at - (new.sections[i].at + new.sections[i].size)
                                = new.sections[j].addr - (new.sections[i].addr + new.sections[i].size)
    BY <1>8 DEF InOrder
  <2>1. CASE j = k + 1
    <3>1. i \in 1..k /\ new.sections[j] = s
      BY <1>8, <2>1
    <3>2. PICK t \in Section :
            /\ t = new.sections[i] /\ t.at + t.size <= p
            /\ SameWindow(i, k + 1) => t.addr + t.size <= a
            /\ i = k /\ SameWindow(i, k + 1) /\ a < t.addr + t.size + Align
                 => p - (t.at + t.size) = a - (t.addr + t.size)
      BY <1>21, <3>1
    <3>3. QED
      BY <1>20, <2>1, <3>1, <3>2
  <2>2. CASE j # k + 1
    <3>1. /\ i \in 1..k /\ j \in 1..k /\ new.sections[i] = acc.sections[i] /\ new.sections[j] = acc.sections[j]
      BY <1>8, <2>2
    <3>2. InOrder(acc.sections) /\ Len(acc.sections) = k
      BY <1>1 DEF LaidSound
    <3>3. QED
      BY <3>1, <3>2 DEF InOrder
  <2>3. QED
    BY <2>1, <2>2
<1>10. k + 1 > NFlash => new.addr >= RamBase
  <2>1. new.addr = a + size
    BY <1>5
  <2>2. QED
    BY <1>1, <1>7, <2>1
<1>11. LaidSound(k + 1, new)
  BY <1>6, <1>8, <1>9, <1>10, <1>22 DEF LaidSound
<1>12. QED
  BY <1>4, <1>11

LEMMA AllLaid ==
  ASSUME NEW sizes \in [Sections -> Sizes], NEW gaps \in [Sections -> Gaps], NEW fileGap \in FileGaps
  PROVE  LaidSound(NFlash + NRam, Laid(sizes, gaps, fileGap))
<1>1. PICK n \in Nat : n = NFlash + NRam
  BY Amounts
<1> DEFINE D == LayState
           d == [addr |-> FlashBase, at |-> 1, sections |-> <<>>]
           B(s) == IF gaps[s] < Align THEN gaps[s] ELSE fileGap
<1>2. \A s \in 1..n : sizes[s] \in Nat \ {0} /\ gaps[s] \in Nat /\ B(s) \in Nat /\ (gaps[s] < Align => B(s) = gaps[s])
  <2>1. Sections = 1..n
    BY <1>1 DEF Sections
  <2>2. Sizes \subseteq Nat \ {0} /\ Gaps \subseteq Nat /\ FileGaps \subseteq Nat
    BY ImageAssumption
  <2>3. QED
    BY <2>1, <2>2
<1>3. LaidSound(0, d)
  <2>1. FlashBase \in Nat /\ NFlash \in Nat
    BY Amounts
  <2>2. <<>> \in Seq(Section) /\ Len(<<>>) = 0
    BY EmptySeq
  <2>3. d \in LayState
    BY <2>1, <2>2 DEF LayState
  <2>4. QED
    BY <2>1, <2>2, <2>3 DEF LaidSound, InOrder
<1>4. d \in D
  BY <1>3 DEF LaidSound
<1> HIDE DEF d, B
<1>5. \A acc \in D, i \in 1..n : Put(acc, i, sizes[i], gaps[i], B(i)) \in D
  BY <1>2, PutTyped
<1> HIDE DEF D
<1>6. \E f : f = [s \in 0..n |-> IF s = 0 THEN d ELSE Put(f[s - 1], s, sizes[s], gaps[s], B(s))]
  <2>1. PICK step : step = [x \in D \X (1..n) |-> Put(x[1], x[2], sizes[x[2]], gaps[x[2]], B(x[2]))]
    OBVIOUS
  <2>2. step \in [D \X (1..n) -> D]
    BY <1>5, <2>1
  <2>3. PICK f \in [0..n -> D] : f[0] = d /\ \A i \in 1..n : f[i] = step[<<f[i - 1], i>>]
    <3>1. PICK f : IsRun(f, n, D, d, step)
      BY <1>4, <2>2, LoopRuns
    <3>2. QED
      BY <3>1 DEF IsRun
  <2>4. ASSUME NEW i \in 1..n PROVE f[i] = Put(f[i - 1], i, sizes[i], gaps[i], B(i))
    <3>1. <<f[i - 1], i>> \in D \X (1..n)
      BY <2>3
    <3>2. QED
      BY <2>1, <2>3, <3>1
  <2>5. f = [s \in 0..n |-> IF s = 0 THEN d ELSE Put(f[s - 1], s, sizes[s], gaps[s], B(s))]
    BY <2>3, <2>4
  <2>6. QED
    BY <2>5
<1> DEFINE F == CHOOSE f : f = [s \in 0..NFlash + NRam |->
                  IF s = 0 THEN [addr |-> FlashBase, at |-> 1, sections |-> <<>>]
                  ELSE Put(f[s - 1], s, sizes[s], gaps[s], IF gaps[s] < Align THEN gaps[s] ELSE fileGap)]
<1>7. F = [s \in 0..NFlash + NRam |->
             IF s = 0 THEN [addr |-> FlashBase, at |-> 1, sections |-> <<>>]
             ELSE Put(F[s - 1], s, sizes[s], gaps[s], IF gaps[s] < Align THEN gaps[s] ELSE fileGap)]
  BY <1>1, <1>6 DEF d, B
<1>8. Laid(sizes, gaps, fileGap) = F[NFlash + NRam]
  BY DEF Laid
<1> HIDE DEF F
<1>9. F[0] = d /\ \A i \in 1..n : F[i] = Put(F[i - 1], i, sizes[i], gaps[i], B(i))
  <2>1. \A s \in 0..n : F[s] = IF s = 0 THEN d ELSE Put(F[s - 1], s, sizes[s], gaps[s], B(s))
    BY <1>1, <1>7 DEF d, B
  <2>2. 0 \in 0..n /\ \A i \in 1..n : i \in 0..n /\ i # 0
    OBVIOUS
  <2>3. QED
    BY <2>1, <2>2
<1> DEFINE S == {i \in Nat : i <= n => LaidSound(i, F[i])}
<1>10. 0 \in S
  BY <1>3, <1>9
<1>11. ASSUME NEW i \in Nat, i \in S PROVE i + 1 \in S
  <2> SUFFICES ASSUME i + 1 <= n PROVE LaidSound(i + 1, F[i + 1])
    OBVIOUS
  <2>1. LaidSound(i, F[i]) /\ i + 1 \in 1..n /\ (i + 1) - 1 = i
    BY <1>11
  <2>2. F[i + 1] = Put(F[i], i + 1, sizes[i + 1], gaps[i + 1], B(i + 1))
    BY <1>9, <2>1
  <2>3. /\ sizes[i + 1] \in Nat \ {0} /\ gaps[i + 1] \in Nat /\ B(i + 1) \in Nat
        /\ gaps[i + 1] < Align => B(i + 1) = gaps[i + 1]
    BY <1>2, <2>1
  <2>4. QED
    BY <2>1, <2>2, <2>3, PutSound
<1>12. Nat \subseteq S
  <2> HIDE DEF S
  <2> QED
    BY <1>10, <1>11, SetInduction
<1>13. LaidSound(n, F[n])
  BY <1>12
<1>14. QED
  BY <1>1, <1>8, <1>13

LEMMA ImgInitInv == ImgInit => ImgInv
<1> SUFFICES ASSUME ImgInit PROVE ImgInv
  OBVIOUS
<1>1. PICK sizes \in [Sections -> Sizes], gaps \in [Sections -> Gaps], fileGap \in FileGaps :
        /\ file.sections = Laid(sizes, gaps, fileGap).sections
        /\ elf = [i \in 1..Laid(sizes, gaps, fileGap).at - 1 + fileGap |-> i]
  <2>1. PICK sizes \in [Sections -> Sizes], gaps \in [Sections -> Gaps], fileGap \in FileGaps, d \in 0..NFlash :
          /\ file = [sections |-> Laid(sizes, gaps, fileGap).sections,
                     descriptor |-> IF d = 0 THEN 0 ELSE Laid(sizes, gaps, fileGap).sections[d].at]
          /\ elf = [i \in 1..Laid(sizes, gaps, fileGap).at - 1 + fileGap |-> i]
    BY DEF ImgInit
  <2>2. QED
    BY <2>1
<1>2. built = FALSE /\ toFlash = <<>> /\ ram = <<>> /\ image = <<>> /\ written = Header
  BY DEF ImgInit
<1>3. PICK laid : laid = Laid(sizes, gaps, fileGap)
  OBVIOUS
<1>4. LaidSound(NFlash + NRam, laid)
  BY <1>3, AllLaid
<1>5. PICK at \in Nat \ {0} : at = laid.at
  BY <1>4 DEF LaidSound, LayState
<1>6. PICK m \in Nat : m = at - 1 + fileGap /\ at - 1 <= m
  <2>1. fileGap \in Nat
    BY ImageAssumption
  <2>2. QED
    BY <2>1
<1>7. elf \in Seq(Nat) /\ Len(elf) = m
  <2>1. elf = [i \in 1..m |-> i]
    BY <1>1, <1>3, <1>5, <1>6
  <2>2. QED
    BY <2>1
<1>8. FileSound
  <2>1. /\ file.sections = laid.sections /\ laid.sections \in Seq(Section) /\ Len(laid.sections) = NFlash + NRam
        /\ InOrder(laid.sections)
    BY <1>1, <1>3, <1>4 DEF LaidSound, LayState
  <2>2. ASSUME NEW i \in Sections
        PROVE  /\ file.sections[i].at + file.sections[i].size - 1 <= Len(elf)
               /\ i > NFlash => file.sections[i].addr >= RamBase
    <3>1. i \in 1..NFlash + NRam
      BY DEF Sections
    <3>2. PICK t \in Section : t = file.sections[i]
      BY <2>1, <3>1, ElementOfSeq
    <3>3. t.at + t.size <= at /\ (i > NFlash => t.addr >= RamBase)
      BY <1>4, <1>5, <2>1, <3>1, <3>2 DEF LaidSound
    <3>4. t.at \in Nat /\ t.size \in Nat
      BY DEF Section
    <3>5. QED
      BY <1>6, <1>7, <3>2, <3>3, <3>4
  <2>3. QED
    BY <2>1, <2>2 DEF FileSound
<1>9. ImageSound /\ SegmentsMap
  <2>1. <<>> \in Seq(SavedSegment) /\ Len(<<>>) = 0 /\ DOMAIN <<>> = {}
    BY EmptySeq
  <2>2. QED
    BY <1>2, <2>1 DEF ImageSound, SegmentsMap
<1>10. toFlash \in Seq(Segments(Len(elf), 0)) /\ ram \in Seq(Segments(Len(elf), RamBase))
  BY <1>2, EmptySeq
<1>11. written \in Nat
  BY <1>2, ImageAssumption
<1>12. QED
  BY <1>2, <1>7, <1>8, <1>9, <1>10, <1>11 DEF ImgInv

LEMMA ImgStep == ImgInv /\ [ImgNext]_imgVars => ImgInv'
<1> SUFFICES ASSUME ImgInv, [ImgNext]_imgVars PROVE ImgInv'
  OBVIOUS
<1>1. CASE Prepare
  BY <1>1, PrepareInv
<1>2. CASE FillWithRam
  BY <1>2, FillWithRamInv
<1>3. CASE FillWithZeros
  BY <1>3, FillWithZerosInv
<1>4. CASE SaveFlashSegment
  BY <1>4, SaveFlashSegmentInv
<1>5. CASE SaveRemaining
  BY <1>5, SaveRemainingInv
<1>6. CASE UNCHANGED imgVars
  BY <1>6 DEF imgVars, ImgInv, FileSound, ImageSound, SegmentsMap
<1>7. QED
  BY <1>1, <1>2, <1>3, <1>4, <1>5, <1>6 DEF ImgNext

LEMMA ImgAlways == ImgSpec => []ImgInv
<1> QED
  BY ImgInitInv, ImgStep, PTL DEF ImgSpec

\* ImgInv contains the type invariant: segments are views of the file or copies.
LEMMA ImgTyped == ImgInv => ImgTypeOK
<1> SUFFICES ASSUME ImgInv PROVE ImgTypeOK
  OBVIOUS
<1>1. ASSUME NEW g \in Range(toFlash) \cup Range(ram)
      PROVE  Len(g.own) \in {0, g.len} /\ (g.at = 0 <=> g.own # <<>>)
  <2>1. g \in Seg /\ Fits(Len(elf), g)
    <3>1. CASE g \in Range(toFlash)
      <4>1. PICK i \in DOMAIN toFlash : g = toFlash[i]
        BY <3>1 DEF Range
      <4>2. g \in Segments(Len(elf), 0)
        BY <4>1, ElementOfSeq DEF ImgInv
      <4>3. QED
        BY <4>2, SegmentFacts
    <3>2. CASE g \in Range(ram)
      <4>1. PICK i \in DOMAIN ram : g = ram[i]
        BY <3>2 DEF Range
      <4>2. g \in Segments(Len(elf), RamBase)
        BY <4>1, ElementOfSeq DEF ImgInv
      <4>3. QED
        BY <4>2, SegmentFacts
    <3>3. QED
      BY <3>1, <3>2
  <2>2. g.own \in Seq(Nat) /\ g.len \in Nat \ {0}
    BY <2>1 DEF Seg
  <2>3. CASE g.at = 0
    BY <2>1, <2>2, <2>3 DEF Fits
  <2>4. CASE g.at # 0
    BY <2>1, <2>2, <2>4 DEF Fits
  <2>5. QED
    BY <2>3, <2>4
<1>2. ASSUME NEW b \in Range(image) PROVE b.at + Len(b.bytes) <= written
  <2>1. PICK i \in DOMAIN image : b = image[i]
    BY <1>2 DEF Range
  <2>2. image \in Seq(SavedSegment) /\ \A k \in 1..Len(image) : image[k].at + Len(image[k].bytes) <= written
    BY DEF ImgInv, ImageSound
  <2>3. DOMAIN image = 1..Len(image)
    BY <2>2
  <2>4. QED
    BY <2>1, <2>2, <2>3
<1>3. QED
  BY <1>1, <1>2 DEF ImgInv, ImgTypeOK

\* Segments are views of the file or copies of their own, whatever the file.
THEOREM ImageTypes == ImgSpec => []ImgTypeOK
<1> QED
  BY ImgAlways, ImgTyped, PTL

\* The boot loader can map every flash segment, whatever the file.
THEOREM ImageMaps == ImgSpec => []SegmentsMap
<1>1. ImgInv => SegmentsMap
  BY DEF ImgInv
<1>2. QED
  BY <1>1, ImgAlways, PTL
-----------------------------------------------------------------------------
(* The bytes of sections.                                                   *)

PlaceEnd(s) == Place(s) + Size(s)

\* Each byte of each section: its address, its place in the file.
Cells == UNION {{[addr |-> Addr(s) + i, place |-> Place(s) + i] : i \in 0..Size(s) - 1} : s \in Sections}

LEMMA SectionFacts ==
  ASSUME FileSound, NEW s \in Sections
  PROVE  /\ s \in Nat \ {0} /\ Addr(s) \in Nat /\ Place(s) \in Nat \ {0} /\ Size(s) \in Nat \ {0}
         /\ SecEnd(s) \in Nat /\ PlaceEnd(s) \in Nat
         /\ SecEnd(s) = Addr(s) + Size(s) /\ PlaceEnd(s) = Place(s) + Size(s)
         /\ PlaceEnd(s) - 1 <= Len(elf) /\ (s > NFlash => Addr(s) >= RamBase)
<1>1. s \in 1..NFlash + NRam
  BY DEF Sections
<1>2. PICK t \in Section : t = file.sections[s]
  BY <1>1, ElementOfSeq DEF FileSound
<1>3. t.at + t.size - 1 <= Len(elf) /\ (s > NFlash => t.addr >= RamBase)
  BY <1>2 DEF FileSound
<1>4. t.addr \in Nat /\ t.at \in Nat \ {0} /\ t.size \in Nat \ {0}
  BY DEF Section
<1>5. Addr(s) = t.addr /\ Place(s) = t.at /\ Size(s) = t.size
  BY <1>2 DEF Addr, Place, Size
<1>6. s \in Nat \ {0}
  BY <1>1, Amounts
<1>7. SecEnd(s) = Addr(s) + Size(s) /\ PlaceEnd(s) = Place(s) + Size(s)
  BY DEF SecEnd, PlaceEnd
<1>8. PlaceEnd(s) - 1 <= Len(elf) /\ (s > NFlash => Addr(s) >= RamBase)
  BY <1>3, <1>4, <1>5, <1>7
<1>9. SecEnd(s) \in Nat /\ PlaceEnd(s) \in Nat
  BY <1>4, <1>5, <1>7
<1>10. QED
  BY <1>4, <1>5, <1>6, <1>7, <1>8, <1>9

LEMMA SectionOrder ==
  ASSUME FileSound, NEW s \in Sections, NEW t \in Sections, s < t
  PROVE  /\ PlaceEnd(s) <= Place(t)
         /\ SameWindow(s, t) => SecEnd(s) <= Addr(t)
         /\ t = s + 1 /\ SameWindow(s, t) /\ Addr(t) < SecEnd(s) + Align
              => Place(t) - PlaceEnd(s) = Addr(t) - SecEnd(s)
<1>1. s \in 1..Len(file.sections) /\ t \in 1..Len(file.sections) /\ InOrder(file.sections)
  BY DEF Sections, FileSound
<1>2. QED
  BY <1>1 DEF InOrder, Addr, Place, Size, SecEnd, PlaceEnd

LEMMA CellFacts ==
  ASSUME FileSound, NEW c \in Cells
  PROVE  /\ c.addr \in Nat /\ c.place \in 1..Len(elf)
         /\ \E s \in Sections : /\ Addr(s) <= c.addr /\ c.addr < SecEnd(s)
                                /\ c.place = Place(s) + (c.addr - Addr(s))
                                /\ Place(s) <= c.place /\ c.place < PlaceEnd(s)
<1>0. PICK s \in Sections : c \in {[addr |-> Addr(s) + i, place |-> Place(s) + i] : i \in 0..Size(s) - 1}
  BY DEF Cells
<1>1. PICK i \in 0..Size(s) - 1 : c = [addr |-> Addr(s) + i, place |-> Place(s) + i]
  BY <1>0
<1>2. /\ Addr(s) \in Nat /\ Place(s) \in Nat \ {0} /\ Size(s) \in Nat \ {0} /\ Len(elf) \in Nat
      /\ SecEnd(s) = Addr(s) + Size(s) /\ PlaceEnd(s) = Place(s) + Size(s) /\ PlaceEnd(s) - 1 <= Len(elf)
  <2>1. Len(elf) \in Nat
    BY SectionFacts DEF SecEnd
  <2>2. QED
    BY <2>1, SectionFacts
<1>3. c.addr = Addr(s) + i /\ c.place = Place(s) + i /\ i \in 0..Size(s) - 1
  BY <1>1
<1>4. QED
  BY <1>2, <1>3

LEMMA CellOf ==
  ASSUME NEW s \in Sections, NEW i \in 0..Size(s) - 1
  PROVE  [addr |-> Addr(s) + i, place |-> Place(s) + i] \in Cells
  BY DEF Cells
-----------------------------------------------------------------------------
(* What segments hold.                                                      *)

Has(g, a) == g.addr <= a /\ a < End(g)

\* The byte of g at the address of c is that of c.
Right(g, c) == IF g.at = 0 THEN g.own[c.addr - g.addr + 1] = c.place
                           ELSE g.at + (c.addr - g.addr) = c.place

Later(q, n, a) == \E m \in DOMAIN q : n < m /\ Has(q[m], a)
Pends(q, a) == \E m \in DOMAIN q : Has(q[m], a)

\* A segment's bytes are right, but where a later one is loaded over them.
Carries(q) == \A n \in DOMAIN q, c \in Cells :
                Has(q[n], c.addr) => Right(q[n], c) \/ Later(q, n, c.addr)

\* What lies right behind a segment is loaded later.
Tails(q, reach) == \A n \in DOMAIN q, c \in Cells :
                     End(q[n]) <= c.addr /\ c.addr < End(q[n]) + reach => Later(q, n, c.addr)

Clean(buf) == \A c \in Cells : c.place \in Exposed \/ buf[c.place] = c.place

\* A view of the file ends where a flash section ends there.
EndsAtSection(q) == \A n \in DOMAIN q : q[n].at # 0 => \E s \in FlashSections : q[n].at + q[n].len = PlaceEnd(s)

AlignedLengths(q) == \A n \in DOMAIN q : q[n].len % Align = 0

\* A byte is in a segment still to write, or loaded.
Placed == \A c \in Cells :
            \/ Pends(toFlash, c.addr) \/ Pends(ram, c.addr)
            \/ Covering(c.addr) # {} /\ (c.place \in Exposed \/ Loaded(c.addr) = c.place)

LoadInv ==
  /\ ~ built => image = <<>> /\ \A p \in 1..Len(elf) : elf[p] = p
  /\ built /\ Linked => /\ Clean(elf) /\ EndsAtSection(toFlash) /\ AlignedLengths(toFlash)
                        /\ Carries(toFlash) /\ Tails(toFlash, PageTail)
                        /\ Carries(ram) /\ Tails(ram, Align)
                        /\ Placed

\* From places to the property.
LEMMA AllLoaded == ASSUME FileSound, LoadInv PROVE SectionsLoad
<1> SUFFICES ASSUME Complete, Linked, NEW s \in Sections, NEW i \in 0..file.sections[s].size - 1
             PROVE  \/ file.sections[s].at + i \in Exposed
                    \/ /\ Covering(file.sections[s].addr + i) # {}
                       /\ Loaded(file.sections[s].addr + i) = file.sections[s].at + i
  BY DEF SectionsLoad
<1>1. Placed /\ toFlash = <<>> /\ ram = <<>>
  BY DEF LoadInv, Complete
<1>2. PICK c \in Cells : c.addr = file.sections[s].addr + i /\ c.place = file.sections[s].at + i
  BY CellOf DEF Addr, Place, Size
<1>3. ~ Pends(toFlash, c.addr) /\ ~ Pends(ram, c.addr)
  <2>1. DOMAIN toFlash = {} /\ DOMAIN ram = {}
    BY <1>1, EmptySeq
  <2>2. QED
    BY <2>1 DEF Pends
<1>4. Covering(c.addr) # {} /\ (c.place \in Exposed \/ Loaded(c.addr) = c.place)
  BY <1>1, <1>3 DEF Placed
<1>5. QED
  BY <1>2, <1>4
-----------------------------------------------------------------------------
(* Loading what is written.                                                 *)

LEMMA Largest ==
  ASSUME NEW n \in Nat, NEW T, T \subseteq 1..n, T # {}
  PROVE  Max(T) \in T
<1>1. \E x \in {n - y : y \in T} : \A z \in {n - y : y \in T} : x <= z
  <2>1. \A y \in T : n - y \in Nat
    OBVIOUS
  <2>2. {n - y : y \in T} \subseteq Nat
    BY <2>1
  <2>3. {n - y : y \in T} # {}
    <3>1. PICK y : y \in T
      OBVIOUS
    <3>2. n - y \in {n - z : z \in T}
      BY <3>1
    <3>3. QED
      BY <3>2
  <2>4. QED
    BY <2>2, <2>3, Smallest
<1>2. PICK m \in T : \A y \in T : n - m <= n - y
  BY <1>1
<1>3. \A y \in T : m >= y
  BY <1>2
<1>4. QED
  BY <1>2, <1>3 DEF Max

LEMMA LargestIs ==
  ASSUME NEW n \in Nat, NEW T, T \subseteq 1..n, n \in T
  PROVE  Max(T) = n
<1>1. Max(T) \in T /\ \A y \in T : Max(T) >= y
  <2>1. \A y \in T : n >= y
    OBVIOUS
  <2>2. QED
    BY <2>1 DEF Max
<1>2. Max(T) \in 1..n /\ Max(T) >= n
  BY <1>1
<1>3. QED
  BY <1>2

\* saveSegment: of an address that the segment covers its byte is loaded, of another
\* one what was loaded before.
LEMMA Wrote ==
  ASSUME ImgInv, NEW a \in Nat, NEW bytes \in Seq(Nat), Write(a, bytes), NEW x \in Nat,
         NEW k, k = Len(bytes) + Missing(Len(bytes), Align)
  PROVE  /\ a <= x /\ x < a + k => /\ Covering(x)' # {}
                                   /\ x < a + Len(bytes) => Loaded(x)' = bytes[x - a + 1]
         /\ ~ (a <= x /\ x < a + k) => /\ Covering(x)' = Covering(x)
                                       /\ Covering(x) # {} => Loaded(x)' = Loaded(x)
<1>1. PICK l \in Nat, z \in Nat : l = Len(bytes) /\ z = Missing(Len(bytes), Align) /\ k = l + z
  BY MissingSize, Amounts
<1>2. PICK zs \in Seq(Nat) : zs = Zeros(z) /\ Len(zs) = z
  BY SomeZeros
<1>3. PICK all \in Seq(Nat) : all = bytes \o zs /\ Len(all) = k /\ \A i \in 1..l : all[i] = bytes[i]
  <2>1. PICK both : both = bytes \o zs
    OBVIOUS
  <2>2. both \in Seq(Nat) /\ Len(both) = Len(bytes) + Len(zs)
    BY <2>1, Joins
  <2>3. ASSUME NEW i \in 1..l PROVE both[i] = bytes[i]
    BY <1>1, <2>1, <2>3, ConcatProperties
  <2>4. QED
    BY <1>1, <1>2, <2>1, <2>2, <2>3
<1>4. PICK b : b = [addr |-> a, at |-> written + SegHeader, bytes |-> all]
  OBVIOUS
<1>5. image' = Append(image, b) /\ b.addr = a /\ b.bytes = all
  BY <1>1, <1>2, <1>3, <1>4 DEF Write
<1>6. PICK n \in Nat : n = Len(image) /\ DOMAIN image = 1..n
  BY DEF ImgInv, ImageSound
<1>7. DOMAIN image' = 1..n + 1 /\ image'[n + 1] = b /\ \A i \in 1..n : image'[i] = image[i]
  BY <1>5, <1>6 DEF ImgInv, ImageSound
<1>8. PICK C : C = Covering(x) /\ C \subseteq 1..n
  BY <1>6 DEF Covering
<1>9. Covering(x)' = {i \in 1..n + 1 : image'[i].addr <= x /\ x < image'[i].addr + Len(image'[i].bytes)}
  BY <1>7 DEF Covering
<1>10. CASE a <= x /\ x < a + k
  <2>1. n + 1 \in Covering(x)' /\ Covering(x)' \subseteq 1..n + 1
    BY <1>3, <1>5, <1>7, <1>9, <1>10
  <2>2. Max(Covering(x)') = n + 1
    BY <2>1, LargestIs
  <2>3. Loaded(x)' = all[x - a + 1]
    <3>1. Loaded(x)' = image'[Max(Covering(x)')].bytes[x - image'[Max(Covering(x)')].addr + 1]
      BY DEF Loaded
    <3>2. QED
      BY <1>5, <1>7, <2>2, <3>1
  <2>4. x < a + l => x - a + 1 \in 1..l
    BY <1>10
  <2>5. QED
    BY <1>1, <1>3, <1>10, <2>1, <2>3, <2>4
<1>11. CASE ~ (a <= x /\ x < a + k)
  <2>1. Covering(x)' = Covering(x)
    <3>1. ASSUME NEW i \in 1..n + 1
          PROVE  image'[i].addr <= x /\ x < image'[i].addr + Len(image'[i].bytes) <=> i \in C
      <4>1. CASE i = n + 1
        BY <1>3, <1>5, <1>7, <1>8, <1>11, <4>1
      <4>2. CASE i \in 1..n
        BY <1>6, <1>7, <1>8, <4>2 DEF Covering
      <4>3. QED
        BY <4>1, <4>2
    <3>2. C \subseteq 1..n + 1
      BY <1>8
    <3>3. QED
      BY <1>8, <1>9, <3>1, <3>2
  <2>2. ASSUME Covering(x) # {} PROVE Loaded(x)' = Loaded(x)
    <3>1. Max(C) \in 1..n
      BY <1>8, <2>2, Largest
    <3>2. PICK m \in 1..n : m = Max(Covering(x)) /\ m = Max(Covering(x)')
      BY <1>8, <2>1, <3>1
    <3>3. Loaded(x)' = image'[m].bytes[x - image'[m].addr + 1]
      BY <3>2 DEF Loaded
    <3>4. Loaded(x) = image[m].bytes[x - image[m].addr + 1]
      BY <3>2 DEF Loaded
    <3>5. QED
      BY <1>7, <3>3, <3>4
  <2>3. QED
    BY <1>11, <2>1, <2>2
<1>12. QED
  BY <1>10, <1>11

\* What a step that writes a segment must do to keep every byte: the k bytes it writes at
\* a are right or still to be overwritten, and what is still to be written loses no other.
WritesRight(a, bytes, k) ==
  \A c \in Cells : a <= c.addr /\ c.addr < a + k =>
    \/ Pends(toFlash, c.addr)' \/ Pends(ram, c.addr)'
    \/ /\ c.addr < a + Len(bytes)
       /\ c.place \in Exposed \/ bytes[c.addr - a + 1] = c.place

LosesOnly(a, k) ==
  \A c \in Cells : Pends(toFlash, c.addr) \/ Pends(ram, c.addr) =>
    \/ Pends(toFlash, c.addr)' \/ Pends(ram, c.addr)'
    \/ a <= c.addr /\ c.addr < a + k

LEMMA PlacedStep ==
  ASSUME ImgInv, Placed, UNCHANGED file,
         NEW a \in Nat, NEW bytes \in Seq(Nat), Write(a, bytes),
         NEW k, k = Len(bytes) + Missing(Len(bytes), Align),
         WritesRight(a, bytes, k), LosesOnly(a, k)
  PROVE  Placed'
<1>1. Cells' = Cells /\ Exposed' = Exposed
  BY DEF Cells, Exposed, Addr, Place, Size
<1>2. ASSUME NEW c \in Cells
      PROVE  \/ Pends(toFlash, c.addr)' \/ Pends(ram, c.addr)'
             \/ Covering(c.addr)' # {} /\ (c.place \in Exposed \/ Loaded(c.addr)' = c.place)
  <2>1. c.addr \in Nat
    BY CellFacts DEF ImgInv
  <2>2. PICK x \in Nat : x = c.addr
    BY <2>1
  <2>3. CASE a <= x /\ x < a + k
    <3>1. Covering(x)' # {} /\ (x < a + Len(bytes) => Loaded(x)' = bytes[x - a + 1])
      BY <2>3, Wrote
    <3>2. QED
      BY <2>2, <2>3, <3>1 DEF WritesRight
  <2>4. CASE ~ (a <= x /\ x < a + k)
    <3>1. Covering(x)' = Covering(x) /\ (Covering(x) # {} => Loaded(x)' = Loaded(x))
      BY <2>4, Wrote
    <3>2. \/ Pends(toFlash, x) \/ Pends(ram, x)
          \/ Covering(x) # {} /\ (c.place \in Exposed \/ Loaded(x) = c.place)
      BY <2>2 DEF Placed
    <3>3. QED
      BY <2>2, <2>4, <3>1, <3>2 DEF LosesOnly
  <2>5. QED
    BY <2>3, <2>4
<1>3. QED
  BY <1>1, <1>2 DEF Placed
-----------------------------------------------------------------------------
(* Queues of segments.                                                      *)

LEMMA TailKeeps ==
  ASSUME NEW S, NEW q \in Seq(S), q # <<>>, NEW r, r = Tail(q)
  PROVE  /\ \A x \in Nat : Later(q, 1, x) => Pends(r, x)
         /\ \A x \in Nat : Pends(q, x) => Has(Head(q), x) \/ Pends(r, x)
         /\ Carries(q) => Carries(r)
         /\ \A reach \in Nat : Tails(q, reach) => Tails(r, reach)
         /\ EndsAtSection(q) => EndsAtSection(r)
         /\ AlignedLengths(q) => AlignedLengths(r)
<1>1. PICK k \in Nat : Len(q) = k + 1
  <2>1. Len(q) \in Nat \ {0}
    BY EmptySeq
  <2>2. Len(q) - 1 \in Nat /\ Len(q) = (Len(q) - 1) + 1
    BY <2>1
  <2>3. QED
    BY <2>2
<1>2. DOMAIN q = 1..k + 1 /\ DOMAIN r = 1..k /\ (\A n \in 1..k : r[n] = q[n + 1]) /\ Head(q) = q[1]
  BY <1>1
<1>3. ASSUME NEW n \in 0..k, NEW x, Later(q, n + 1, x) PROVE \E m \in 1..k : n < m /\ Has(r[m], x)
  <2>1. PICK m \in 1..k + 1 : n + 1 < m /\ Has(q[m], x)
    BY <1>2, <1>3 DEF Later
  <2>2. m - 1 \in 1..k /\ (m - 1) + 1 = m /\ n < m - 1
    BY <2>1
  <2>3. r[m - 1] = q[m]
    BY <1>2, <2>2
  <2>4. QED
    BY <2>1, <2>2, <2>3
<1>4. ASSUME NEW n \in 1..k, NEW x, Later(q, n + 1, x) PROVE Later(r, n, x)
  <2>1. n \in 0..k
    OBVIOUS
  <2>2. PICK m \in 1..k : n < m /\ Has(r[m], x)
    BY <1>3, <1>4, <2>1
  <2>3. QED
    BY <1>2, <2>2 DEF Later
<1>5. ASSUME NEW x, Later(q, 1, x) PROVE Pends(r, x)
  <2>1. 0 + 1 = 1 /\ 0 \in 0..k
    OBVIOUS
  <2>2. Later(q, 0 + 1, x)
    BY <1>5, <2>1
  <2>3. PICK m \in 1..k : 0 < m /\ Has(r[m], x)
    BY <1>3, <2>1, <2>2
  <2>4. QED
    BY <1>2, <2>3 DEF Pends
<1>6. ASSUME NEW x, Pends(q, x) PROVE Has(Head(q), x) \/ Pends(r, x)
  <2>1. PICK m \in 1..k + 1 : Has(q[m], x)
    BY <1>2, <1>6 DEF Pends
  <2>2. CASE m = 1
    BY <1>2, <2>1, <2>2
  <2>3. CASE m # 1
    <3>1. m - 1 \in 1..k /\ (m - 1) + 1 = m
      BY <2>3
    <3>2. r[m - 1] = q[m]
      BY <1>2, <3>1
    <3>3. QED
      BY <1>2, <2>1, <3>1, <3>2 DEF Pends
  <2>4. QED
    BY <2>2, <2>3
<1>7. \A n \in 1..k : n + 1 \in 1..k + 1
  OBVIOUS
<1>8. Carries(q) => Carries(r)
  BY <1>2, <1>4, <1>7 DEF Carries
<1>9. \A reach \in Nat : Tails(q, reach) => Tails(r, reach)
  BY <1>2, <1>4, <1>7 DEF Tails
<1>10. (EndsAtSection(q) => EndsAtSection(r)) /\ (AlignedLengths(q) => AlignedLengths(r))
  BY <1>2, <1>7 DEF EndsAtSection, AlignedLengths
<1>11. QED
  BY <1>5, <1>6, <1>8, <1>9, <1>10

\* h is what is left of the first segment of q.
LEMMA FirstLeft ==
  ASSUME NEW S, NEW q \in Seq(S), q # <<>>, NEW h, NEW r, r = <<h>> \o Tail(q),
         End(h) = End(Head(q)), Head(q).addr \in Nat, h.addr \in Nat, Head(q).addr <= h.addr,
         \A c \in Cells : Has(h, c.addr) /\ Right(Head(q), c) => Right(h, c),
         \A c \in Cells : c.addr \in Nat
  PROVE  /\ \A x \in Nat : Later(q, 1, x) => Pends(r, x)
         /\ \A x \in Nat : Pends(q, x) => Pends(r, x) \/ (Has(Head(q), x) /\ x < h.addr)
         /\ Carries(q) => Carries(r)
         /\ \A reach \in Nat : Tails(q, reach) => Tails(r, reach)
<1>1. PICK k \in Nat : Len(q) = k + 1
  <2>1. Len(q) \in Nat \ {0}
    BY EmptySeq
  <2>2. Len(q) - 1 \in Nat /\ Len(q) = (Len(q) - 1) + 1
    BY <2>1
  <2>3. QED
    BY <2>2
<1>2. DOMAIN q = 1..k + 1 /\ DOMAIN r = 1..k + 1 /\ r[1] = h /\ Head(q) = q[1]
      /\ \A n \in 2..k + 1 : r[n] = q[n]
  <2>1. PICK t \in Seq(S) : t = Tail(q) /\ Len(t) = k /\ \A n \in 1..k : t[n] = q[n + 1]
    <3>1. Tail(q) \in Seq(S) /\ Len(Tail(q)) = Len(q) - 1 /\ \A n \in 1..Len(Tail(q)) : Tail(q)[n] = q[n + 1]
      BY HeadTailProperties
    <3>2. Len(Tail(q)) = k
      BY <1>1, <3>1
    <3>3. QED
      BY <3>1, <3>2
  <2>2. <<h>> \in Seq({h}) /\ Len(<<h>>) = 1 /\ <<h>>[1] = h
    OBVIOUS
  <2>3. r = <<h>> \o t /\ <<h>> \in Seq({h} \cup S) /\ t \in Seq({h} \cup S)
    BY <2>1, <2>2
  <2>4. /\ r \in Seq({h} \cup S) /\ Len(r) = Len(<<h>>) + Len(t)
        /\ \A i \in 1..Len(<<h>>) + Len(t) :
             r[i] = IF i <= Len(<<h>>) THEN <<h>>[i] ELSE t[i - Len(<<h>>)]
    BY <2>3, ConcatProperties
  <2>5. Len(r) = k + 1 /\ \A i \in 1..k + 1 : r[i] = IF i <= 1 THEN h ELSE t[i - 1]
    BY <2>1, <2>2, <2>4
  <2>6. r[1] = h
    BY <2>5
  <2>7. ASSUME NEW n \in 2..k + 1 PROVE r[n] = q[n]
    <3>1. n - 1 \in 1..k /\ (n - 1) + 1 = n /\ ~ (n <= 1) /\ n \in 1..k + 1
      OBVIOUS
    <3>2. QED
      BY <2>1, <2>5, <3>1
  <2>8. QED
    BY <1>1, <2>4, <2>5, <2>6, <2>7
<1>3. ASSUME NEW n \in 1..k + 1, NEW x, Later(q, n, x) PROVE Later(r, n, x)
  <2>1. PICK m \in 1..k + 1 : n < m /\ Has(q[m], x)
    BY <1>2, <1>3 DEF Later
  <2>2. m \in 2..k + 1
    BY <2>1
  <2>3. QED
    BY <1>2, <2>1, <2>2 DEF Later
<1>4. ASSUME NEW x \in Nat, Later(q, 1, x) PROVE Pends(r, x)
  <2>1. 1 \in 1..k + 1
    OBVIOUS
  <2>2. QED
    BY <1>2, <1>3, <1>4, <2>1 DEF Later, Pends
<1>5. ASSUME NEW x \in Nat, Pends(q, x) PROVE Pends(r, x) \/ (Has(Head(q), x) /\ x < h.addr)
  <2>1. PICK m \in 1..k + 1 : Has(q[m], x)
    BY <1>2, <1>5 DEF Pends
  <2>2. CASE m = 1
    <3>1. Has(Head(q), x)
      BY <1>2, <2>1, <2>2
    <3>2. x >= h.addr => Has(h, x)
      BY <3>1 DEF Has
    <3>3. 1 \in 1..k + 1
      OBVIOUS
    <3>4. QED
      BY <1>2, <3>1, <3>2, <3>3 DEF Pends
  <2>3. CASE m # 1
    <3>1. m \in 2..k + 1
      BY <2>3
    <3>2. QED
      BY <1>2, <2>1, <3>1 DEF Pends
  <2>4. QED
    BY <2>2, <2>3
<1>6. ASSUME Carries(q), NEW n \in 1..k + 1, NEW c \in Cells, Has(r[n], c.addr)
      PROVE  Right(r[n], c) \/ Later(r, n, c.addr)
  <2>1. CASE n = 1
    <3>1. Has(h, c.addr) /\ Has(q[1], c.addr)
      <4>1. Has(h, c.addr)
        BY <1>2, <1>6, <2>1
      <4>2. QED
        BY <1>2, <4>1 DEF Has
    <3>2. 1 \in 1..k + 1
      OBVIOUS
    <3>3. Right(q[1], c) \/ Later(q, 1, c.addr)
      BY <1>2, <1>6, <3>1, <3>2 DEF Carries
    <3>4. QED
      BY <1>2, <1>3, <2>1, <3>1, <3>2, <3>3
  <2>2. CASE n # 1
    <3>1. n \in 2..k + 1
      BY <2>2
    <3>2. r[n] = q[n] /\ Has(q[n], c.addr)
      BY <1>2, <1>6, <3>1
    <3>3. Right(q[n], c) \/ Later(q, n, c.addr)
      BY <1>2, <1>6, <3>2 DEF Carries
    <3>4. QED
      BY <1>3, <3>2, <3>3
  <2>3. QED
    BY <2>1, <2>2
<1>7. ASSUME NEW reach \in Nat, Tails(q, reach), NEW n \in 1..k + 1, NEW c \in Cells,
             End(r[n]) <= c.addr, c.addr < End(r[n]) + reach
      PROVE  Later(r, n, c.addr)
  <2>1. End(r[n]) = End(q[n])
    <3>1. CASE n = 1
      BY <1>2, <3>1
    <3>2. CASE n # 1
      <4>1. n \in 2..k + 1
        BY <3>2
      <4>2. QED
        BY <1>2, <4>1
    <3>3. QED
      BY <3>1, <3>2
  <2>2. Later(q, n, c.addr)
    BY <1>2, <1>7, <2>1 DEF Tails
  <2>3. QED
    BY <1>3, <2>2
<1>8. Carries(q) => Carries(r)
  BY <1>2, <1>6 DEF Carries
<1>9. \A reach \in Nat : Tails(q, reach) => Tails(r, reach)
  BY <1>2, <1>7 DEF Tails
<1>10. QED
  BY <1>4, <1>5, <1>8, <1>9
-----------------------------------------------------------------------------
(* Writing RAM segments.                                                    *)

LEMMA MissingLess ==
  ASSUME NEW n \in Nat, NEW align \in Nat \ {0} PROVE Missing(n, align) \in 0..align - 1
<1>1. n % align \in 0..align - 1
  BY Division
<1>2. PICK i \in Int : i = align - (n % align)
  BY <1>1
<1>3. i % align \in 0..align - 1
  BY Division
<1>4. QED
  BY <1>2, <1>3 DEF Missing

LEMMA PartAt ==
  ASSUME NEW s \in Seq(Nat), NEW m \in Nat \ {0}, NEW n \in Nat, n <= Len(s), NEW j \in 1..n - m + 1
  PROVE  SubSeq(s, m, n)[j] = s[m + j - 1]
<1>1. \A i \in m..n : s[i] \in Nat
  OBVIOUS
<1>2. m \in Int /\ n \in Int
  OBVIOUS
<1>3. \A i \in 1..n - m + 1 : SubSeq(s, m, n)[i] = s[m + i - 1]
  BY <1>1, <1>2, SubSeqProperties
<1>4. QED
  BY <1>3

LEMMA BytesAt ==
  ASSUME NEW buf \in Seq(Nat), NEW g \in Seg, Fits(Len(buf), g), NEW j \in 1..g.len
  PROVE  Bytes(buf, g)[j] = IF g.at = 0 THEN g.own[j] ELSE buf[g.at + j - 1]
<1>1. g.at \in Nat /\ g.len \in Nat \ {0} /\ Len(buf) \in Nat
  BY DEF Seg
<1>2. CASE g.at = 0
  BY <1>2 DEF Bytes
<1>3. CASE g.at # 0
  <2>1. g.at + g.len - 1 <= Len(buf)
    BY <1>3 DEF Fits
  <2>2. PICK m \in Nat \ {0}, n \in Nat : m = g.at /\ n = g.at + g.len - 1 /\ n <= Len(buf)
    BY <1>1, <1>3, <2>1
  <2>3. Bytes(buf, g) = SubSeq(buf, m, n)
    BY <1>3, <2>2 DEF Bytes
  <2>4. j \in 1..n - m + 1
    BY <1>1, <2>2
  <2>5. SubSeq(buf, m, n)[j] = buf[m + j - 1]
    BY <2>2, <2>4, PartAt
  <2>6. QED
    BY <1>3, <2>2, <2>3, <2>5
<1>4. QED
  BY <1>2, <1>3

\* A byte that is right in a segment is so in its bytes, but where the file has changed.
LEMMA RightBytes ==
  ASSUME FileSound, elf \in Seq(Nat), Clean(elf), NEW g \in Seg, Fits(Len(elf), g),
         NEW c \in Cells, Has(g, c.addr), Right(g, c)
  PROVE  /\ c.addr - g.addr + 1 \in 1..g.len
         /\ c.place \in Exposed \/ Bytes(elf, g)[c.addr - g.addr + 1] = c.place
<1>1. g.addr \in Nat /\ g.at \in Nat /\ g.len \in Nat \ {0} /\ c.addr \in Nat
  BY CellFacts DEF Seg
<1>2. PICK j \in 1..g.len : j = c.addr - g.addr + 1
  BY <1>1 DEF Has, End
<1>3. Bytes(elf, g)[j] = IF g.at = 0 THEN g.own[j] ELSE elf[g.at + j - 1]
  BY BytesAt
<1>4. CASE g.at = 0
  BY <1>2, <1>3, <1>4 DEF Right
<1>5. CASE g.at # 0
  <2>1. g.at + j - 1 = c.place
    BY <1>1, <1>2, <1>5 DEF Right
  <2>2. c.place \in Exposed \/ elf[c.place] = c.place
    BY DEF Clean
  <2>3. QED
    BY <1>2, <1>3, <1>5, <2>1, <2>2
<1>6. QED
  BY <1>4, <1>5

\* What is left of a segment keeps its bytes.
LEMMA RestKeeps ==
  ASSUME NEW m \in Nat, NEW g \in Seg, Fits(m, g), NEW n \in Nat, 0 < n, n < g.len, NEW h, h = From(g, n)
  PROVE  /\ h.addr = g.addr + n /\ End(h) = End(g)
         /\ \A c \in Cells : c.addr \in Nat /\ Has(h, c.addr) /\ Right(g, c) => Right(h, c)
<1>1. PICK addr \in Nat, at \in Nat, len \in Nat \ {0}, own \in Seq(Nat) :
        addr = g.addr /\ at = g.at /\ len = g.len /\ own = g.own
  BY DEF Seg
<1>2. PICK a \in Nat, l \in Nat \ {0} : a = addr + n /\ l = len - n /\ n < len
  BY <1>1
<1>3. CASE at = 0
  <2>1. PICK t : t = SubSeq(own, n + 1, len)
    OBVIOUS
  <2>2. h = [addr |-> a, at |-> 0, len |-> Len(t), own |-> t]
    BY <1>1, <1>2, <1>3, <2>1 DEF From, Own
  <2>3. Len(t) = l /\ \A j \in 1..l : t[j] = own[n + j]
    <3>1. Len(own) = len
      BY <1>1, <1>3 DEF Fits
    <3>2. PICK b \in Nat \ {0} : b = n + 1 /\ len - b + 1 = l /\ b + l - 1 = len
      BY <1>2
    <3>3. Len(SubSeq(own, b, b + l - 1)) = l
      BY <3>1, <3>2, Part
    <3>4. ASSUME NEW j \in 1..l PROVE t[j] = own[n + j]
      <4>0. len \in Nat /\ len <= Len(own) /\ j \in 1..len - b + 1
        BY <3>1, <3>2
      <4>1. SubSeq(own, b, len)[j] = own[b + j - 1]
        BY <4>0, PartAt
      <4>2. b + j - 1 = n + j
        BY <3>2
      <4>3. QED
        BY <2>1, <3>2, <4>1, <4>2
    <3>5. QED
      BY <2>1, <3>2, <3>3, <3>4
  <2>4. h.addr = a /\ h.len = l /\ h.at = 0 /\ h.own = t
    BY <2>2, <2>3
  <2>5. ASSUME NEW c \in Cells, c.addr \in Nat, Has(h, c.addr), Right(g, c) PROVE Right(h, c)
    <3>1. PICK x \in Nat : x = c.addr /\ a <= x /\ x < a + l
      BY <2>4, <2>5 DEF Has, End
    <3>2. PICK j \in 1..l : j = x - a + 1 /\ n + j = x - addr + 1
      BY <1>2, <3>1
    <3>3. own[n + j] = c.place
      BY <1>1, <1>3, <2>5, <3>1, <3>2 DEF Right
    <3>4. QED
      BY <2>3, <2>4, <3>1, <3>2, <3>3 DEF Right
  <2>6. h.addr = g.addr + n /\ End(h) = End(g)
    <3>1. a + l = addr + len
      BY <1>2
    <3>2. QED
      BY <1>1, <1>2, <2>4, <3>1 DEF End
  <2>7. QED
    BY <2>5, <2>6
<1>4. CASE at # 0
  <2>1. PICK p \in Nat \ {0} : p = at + n
    BY <1>4
  <2>2. h = [addr |-> a, at |-> p, len |-> l, own |-> <<>>]
    BY <1>1, <1>2, <1>4, <2>1 DEF From, View
  <2>3. h.addr = a /\ h.at = p /\ h.len = l
    BY <2>2
  <2>4. ASSUME NEW c \in Cells, c.addr \in Nat, Has(h, c.addr), Right(g, c) PROVE Right(h, c)
    <3>1. PICK x \in Nat : x = c.addr
      BY <2>4
    <3>2. at + (x - addr) = c.place
      BY <1>1, <1>4, <2>4, <3>1 DEF Right
    <3>3. p + (x - a) = c.place
      BY <1>2, <2>1, <3>2
    <3>4. QED
      BY <2>1, <2>3, <3>1, <3>3 DEF Right
  <2>5. h.addr = g.addr + n /\ End(h) = End(g)
    <3>1. a + l = addr + len
      BY <1>2
    <3>2. QED
      BY <1>1, <1>2, <2>3, <3>1 DEF End
  <2>6. QED
    BY <2>4, <2>5
<1>5. QED
  BY <1>3, <1>4

LEMMA Within ==
  ASSUME NEW a \in Nat, NEW l \in Nat, NEW x \in Nat, NEW e \in Nat, NEW i \in Nat, NEW j \in Nat, NEW w \in Nat,
         e = a + l, i <= l, j < w, x < a + (i + j), ~ (e <= x /\ x < e + w)
  PROVE  x < e
  OBVIOUS

LEMMA RamWritten ==
  ASSUME ImgInv, Placed, Carries(ram), Tails(ram, Align), Clean(elf), ram # <<>>,
         UNCHANGED <<file, toFlash>>,
         NEW g, g = Head(ram), NEW k \in 1..g.len,
         NEW bytes \in Seq(Nat), Len(bytes) = k, \A j \in 1..k : bytes[j] = Bytes(elf, g)[j],
         Write(g.addr, bytes),
         ram' = IF k < g.len THEN <<From(g, k)>> \o Tail(ram) ELSE Tail(ram)
  PROVE  Placed' /\ Carries(ram)' /\ Tails(ram, Align)'
<1>1. FileSound /\ elf \in Seq(Nat) /\ ram \in Seq(Segments(Len(elf), RamBase)) /\ Len(elf) \in Nat /\ Align \in Nat \ {0}
  BY Amounts DEF ImgInv
<1>2. /\ g \in Seg /\ Fits(Len(elf), g) /\ g.addr \in Nat /\ g.len \in Nat \ {0}
  <2>1. g \in Segments(Len(elf), RamBase)
    BY <1>1, HeadTailProperties
  <2>2. QED
    BY <2>1, SegmentFacts DEF Seg
<1>3. \A c \in Cells : c.addr \in Nat
  BY <1>1, CellFacts
<1>4. PICK r : r = ram'
  OBVIOUS
<1>5. PICK z \in 0..Align - 1 : z = Missing(Len(bytes), Align)
  <2>1. Len(bytes) \in Nat
    OBVIOUS
  <2>2. Missing(Len(bytes), Align) \in 0..Align - 1
    BY <1>1, <2>1, MissingLess
  <2>3. QED
    BY <2>2
<1>6. /\ \A x \in Nat : Later(ram, 1, x) => Pends(r, x)
      /\ \A x \in Nat : Pends(ram, x) => Pends(r, x) \/ (g.addr <= x /\ x < g.addr + k)
      /\ Carries(r) /\ Tails(r, Align)
  <2>1. CASE k < g.len
    <3>1. PICK h : h = From(g, k)
      OBVIOUS
    <3>2. h.addr = g.addr + k /\ End(h) = End(g)
          /\ \A c \in Cells : c.addr \in Nat /\ Has(h, c.addr) /\ Right(g, c) => Right(h, c)
      BY <1>1, <1>2, <2>1, <3>1, RestKeeps
    <3>3. r = <<h>> \o Tail(ram)
      BY <1>4, <2>1, <3>1
    <3>4. h.addr \in Nat /\ g.addr <= h.addr
      BY <1>2, <3>2
    <3>5. /\ \A x \in Nat : Later(ram, 1, x) => Pends(r, x)
          /\ \A x \in Nat : Pends(ram, x) => Pends(r, x) \/ (Has(Head(ram), x) /\ x < h.addr)
          /\ Carries(ram) => Carries(r)
          /\ \A reach \in Nat : Tails(ram, reach) => Tails(r, reach)
      BY <1>1, <1>2, <1>3, <3>2, <3>3, <3>4, FirstLeft
    <3>6. QED
      BY <1>1, <3>2, <3>5 DEF Has
  <2>2. CASE ~ (k < g.len)
    <3>1. r = Tail(ram) /\ k = g.len
      BY <1>2, <1>4, <2>2
    <3>2. /\ \A x \in Nat : Later(ram, 1, x) => Pends(r, x)
          /\ \A x \in Nat : Pends(ram, x) => Has(Head(ram), x) \/ Pends(r, x)
          /\ Carries(ram) => Carries(r)
          /\ \A reach \in Nat : Tails(ram, reach) => Tails(r, reach)
      BY <1>1, <3>1, TailKeeps
    <3>3. QED
      BY <1>1, <3>1, <3>2 DEF Has, End
  <2>3. QED
    BY <2>1, <2>2
<1>7. ASSUME NEW c \in Cells, g.addr <= c.addr, c.addr < g.addr + (k + z)
      PROVE  \/ Pends(ram, c.addr)'
             \/ c.addr < g.addr + k /\ (c.place \in Exposed \/ bytes[c.addr - g.addr + 1] = c.place)
  <2>1. c.addr \in Nat /\ 1 \in DOMAIN ram /\ g = ram[1]
    BY <1>1, <1>3, EmptySeq
  <2>2. CASE Later(ram, 1, c.addr)
    BY <1>4, <1>6, <2>1, <2>2 DEF Pends
  <2>3. CASE ~ Later(ram, 1, c.addr)
    <3>1. ~ (End(g) <= c.addr /\ c.addr < End(g) + Align)
      BY <2>1, <2>3 DEF Tails
    <3>2. Has(g, c.addr)
      <4>1. PICK x \in Nat, a \in Nat, l \in Nat, e \in Nat :
              x = c.addr /\ a = g.addr /\ l = g.len /\ e = a + l /\ e = End(g)
        BY <1>2, <2>1 DEF End
      <4>2. k \in 1..l /\ a <= x /\ x < a + (k + z) /\ ~ (e <= x /\ x < e + Align)
        BY <1>7, <3>1, <4>1
      <4>3. PICK i \in Nat, j \in Nat, w \in Nat : i = k /\ j = z /\ w = Align /\ i <= l /\ j < w
        <5>1. k \in Nat /\ k <= l
          BY <4>1, <4>2
        <5>2. z \in Nat /\ z < Align
          BY <1>1
        <5>3. QED
          BY <1>1, <5>1, <5>2
      <4>4. a <= x /\ x < a + (i + j) /\ ~ (e <= x /\ x < e + w)
        BY <4>2, <4>3
      <4>5. a <= x /\ x < e
        BY <4>1, <4>3, <4>4, Within
      <4>6. QED
        BY <4>1, <4>5 DEF Has
    <3>3. Right(g, c)
      BY <2>1, <2>3, <3>2 DEF Carries
    <3>4. c.place \in Exposed \/ Bytes(elf, g)[c.addr - g.addr + 1] = c.place
      BY <1>1, <1>2, <3>2, <3>3, RightBytes
    <3>5. CASE c.addr < g.addr + k
      <4>1. c.addr - g.addr + 1 \in 1..k
        BY <1>2, <1>7, <2>1, <3>5, SMTT(30)
      <4>2. QED
        BY <3>4, <3>5, <4>1
    <3>6. CASE ~ (c.addr < g.addr + k)
      <4>1. Pends(ram, c.addr)
        BY <2>1, <3>2 DEF Pends
      <4>2. Pends(r, c.addr)
        BY <1>2, <1>6, <2>1, <3>6, <4>1
      <4>3. QED
        BY <1>4, <4>2 DEF Pends
    <3>7. QED
      BY <3>5, <3>6
  <2>4. QED
    BY <2>2, <2>3
<1>8. ASSUME NEW c \in Cells, Pends(toFlash, c.addr) \/ Pends(ram, c.addr)
      PROVE  \/ Pends(toFlash, c.addr)' \/ Pends(ram, c.addr)'
             \/ g.addr <= c.addr /\ c.addr < g.addr + (k + z)
  <2>1. CASE Pends(toFlash, c.addr)
    BY <2>1 DEF Pends
  <2>2. CASE Pends(ram, c.addr)
    <3>1. c.addr \in Nat
      BY <1>3
    <3>2. Pends(r, c.addr) \/ (g.addr <= c.addr /\ c.addr < g.addr + k)
      BY <1>6, <2>2, <3>1
    <3>3. Pends(r, c.addr) => Pends(ram, c.addr)'
      BY <1>4 DEF Pends
    <3>4. QED
      BY <1>2, <1>5, <3>1, <3>2, <3>3
  <2>3. QED
    BY <1>8, <2>1, <2>2
<1>9. Placed'
  <2>1. PICK a \in Nat, l \in Nat : a = g.addr /\ l = k + z
    BY <1>2
  <2>2. l = Len(bytes) + Missing(Len(bytes), Align) /\ Write(a, bytes)
    BY <1>5, <2>1
  <2>3. WritesRight(a, bytes, l)
    BY <1>7, <2>1 DEF WritesRight
  <2>4. LosesOnly(a, l)
    BY <1>8, <2>1 DEF LosesOnly
  <2>5. QED
    BY <2>2, <2>3, <2>4, PlacedStep
<1>10. Cells' = Cells
  BY DEF Cells, Addr, Place, Size
<1>11. Carries(ram)'
  <2>1. Carries(r) <=> \A n \in DOMAIN r, c \in Cells : Has(r[n], c.addr) => Right(r[n], c) \/ Later(r, n, c.addr)
    BY DEF Carries
  <2>2. Carries(ram)' <=> \A n \in DOMAIN ram', c \in Cells' :
                            Has(ram'[n], c.addr) => Right(ram'[n], c) \/ Later(ram', n, c.addr)
    BY DEF Carries, Later
  <2>3. QED
    BY <1>4, <1>6, <1>10, <2>1, <2>2
<1>13. Tails(ram, Align)'
  <2>1. Tails(r, Align) <=> \A n \in DOMAIN r, c \in Cells :
                              End(r[n]) <= c.addr /\ c.addr < End(r[n]) + Align => Later(r, n, c.addr)
    BY DEF Tails
  <2>2. Tails(ram, Align)' <=> \A n \in DOMAIN ram', c \in Cells' :
                              End(ram'[n]) <= c.addr /\ c.addr < End(ram'[n]) + Align => Later(ram', n, c.addr)
    BY DEF Tails, Later
  <2>3. QED
    BY <1>1, <1>4, <1>6, <1>10, <2>1, <2>2
<1>14. QED
  BY <1>9, <1>11, <1>13

LEMMA FillWithRamLoads ==
  ASSUME ImgInv, LoadInv, Linked, FillWithRam
  PROVE  Placed' /\ Carries(ram)' /\ Tails(ram, Align)' /\ built
<1>1. /\ Gap > SegHeader /\ ram # <<>> /\ UNCHANGED <<file, elf, built, toFlash>>
      /\ Write(Head(ram).addr, SubSeq(Bytes(elf, Head(ram)), 1, Min({Gap, Head(ram).len})))
      /\ ram' = IF Gap < Head(ram).len THEN <<From(Head(ram), Gap)>> \o Tail(ram) ELSE Tail(ram)
  BY DEF FillWithRam
<1>2. PICK n \in Nat : n = Gap /\ n > 0
  BY <1>1, GapSize, Amounts
<1>3. built
  BY <1>1, <1>2, Amounts DEF Gap
<1>4. PICK g \in Segments(Len(elf), RamBase) : g = Head(ram)
  BY <1>1, HeadTailProperties DEF ImgInv
<1>5. elf \in Seq(Nat) /\ g \in Seg /\ Fits(Len(elf), g) /\ g.addr \in Nat /\ g.len \in Nat \ {0}
  BY <1>4, SegmentFacts DEF ImgInv, Seg
<1>6. Bytes(elf, g) \in Seq(Nat) /\ Len(Bytes(elf, g)) = g.len
  BY <1>5, BytesOf
<1>7. PICK k \in 1..g.len : k = Min({n, g.len}) /\ (k < g.len => k = n) /\ (k < g.len <=> n < g.len)
  <2>1. PICK l \in Nat \ {0} : l = g.len
    BY <1>5
  <2>2. \E x \in {n, l} : \A y \in {n, l} : x <= y
    OBVIOUS
  <2>3. Min({n, l}) \in {n, l} /\ Min({n, l}) <= l /\ Min({n, l}) <= n
    BY <2>2 DEF Min
  <2>4. QED
    BY <1>2, <2>1, <2>3
<1>8. PICK bytes : bytes = SubSeq(Bytes(elf, g), 1, k)
  OBVIOUS
<1>9. bytes \in Seq(Nat) /\ Len(bytes) = k /\ \A j \in 1..k : bytes[j] = Bytes(elf, g)[j]
  <2>1. PICK all \in Seq(Nat) : all = Bytes(elf, g) /\ k \in Nat /\ k <= Len(all)
    BY <1>5, <1>6
  <2>2. 1 \in Nat \ {0} /\ 1 + k - 1 = k
    BY <2>1
  <2>3. SubSeq(all, 1, k) \in Seq(Nat) /\ Len(SubSeq(all, 1, k)) = k
    BY <2>1, <2>2, Part
  <2>4. ASSUME NEW j \in 1..k PROVE SubSeq(all, 1, k)[j] = all[j]
    <3>1. j \in 1..k - 1 + 1 /\ 1 + j - 1 = j
      BY <2>1
    <3>2. QED
      BY <2>1, <2>2, <3>1, PartAt
  <2>5. QED
    BY <1>8, <2>1, <2>3, <2>4
<1>10. Write(g.addr, bytes)
  BY <1>1, <1>2, <1>4, <1>7, <1>8
<1>11. ram' = IF k < g.len THEN <<From(g, k)>> \o Tail(ram) ELSE Tail(ram)
  BY <1>1, <1>2, <1>4, <1>7
<1>12. Placed /\ Carries(ram) /\ Tails(ram, Align) /\ Clean(elf)
  BY <1>3 DEF LoadInv
<1>13. UNCHANGED <<file, toFlash>>
  BY <1>1
<1>14. QED
  BY <1>1, <1>3, <1>4, <1>9, <1>10, <1>11, <1>12, <1>13, RamWritten

LEMMA SaveRemainingLoads ==
  ASSUME ImgInv, LoadInv, Linked, SaveRemaining
  PROVE  Placed' /\ Carries(ram)' /\ Tails(ram, Align)'
<1>1. /\ built /\ ram # <<>> /\ Write(Head(ram).addr, Bytes(elf, Head(ram)))
      /\ ram' = Tail(ram) /\ UNCHANGED <<file, toFlash>>
  BY DEF SaveRemaining
<1>2. PICK g \in Segments(Len(elf), RamBase) : g = Head(ram)
  BY <1>1, HeadTailProperties DEF ImgInv
<1>3. elf \in Seq(Nat) /\ g \in Seg /\ Fits(Len(elf), g) /\ g.len \in Nat \ {0}
  BY <1>2, SegmentFacts DEF ImgInv, Seg
<1>4. PICK bytes \in Seq(Nat) : bytes = Bytes(elf, g) /\ Len(bytes) = g.len
  BY <1>3, BytesOf
<1>5. PICK k \in 1..g.len : k = g.len
  BY <1>3
<1>6. Len(bytes) = k /\ \A j \in 1..k : bytes[j] = Bytes(elf, g)[j]
  BY <1>4, <1>5
<1>7. ram' = IF k < g.len THEN <<From(g, k)>> \o Tail(ram) ELSE Tail(ram)
  BY <1>1, <1>3, <1>5
<1>8. Placed /\ Carries(ram) /\ Tails(ram, Align) /\ Clean(elf)
  BY <1>1 DEF LoadInv
<1>9. Write(g.addr, bytes)
  BY <1>1, <1>2, <1>4
<1>10. QED
  BY <1>1, <1>2, <1>6, <1>7, <1>8, <1>9, RamWritten
-----------------------------------------------------------------------------
(* Writing flash segments.                                                  *)

\* n + Missing(n, align) is the first multiple of align from n on.
LEMMA RoundUp ==
  ASSUME NEW n \in Nat, NEW align \in Nat \ {0}
  PROVE  /\ (n + Missing(n, align)) % align = 0
         /\ \A m \in Nat : n <= m /\ m % align = 0 => n + Missing(n, align) <= m
<1>1. PICK q \in Int, r \in 0..align - 1 : n = align * q + r /\ r = n % align
  <2>1. n \in Int
    OBVIOUS
  <2>2. n \div align \in Int /\ n % align \in 0..align - 1 /\ n = align * (n \div align) + (n % align)
    BY <2>1, Division
  <2>3. QED
    BY <2>2
<1>2. CASE r = 0
  <2>1. Missing(n, align) = 0
    <3>1. (align - r) % align = 0
      <4>1. align - r \in Int /\ align - r = align * 1 + 0 /\ 0 \in 0..align - 1
        BY <1>2
      <4>2. QED
        BY <4>1, Remainder
    <3>2. QED
      BY <1>1, <3>1 DEF Missing
  <2>2. n + Missing(n, align) = n /\ n % align = 0
    BY <1>1, <1>2, <2>1
  <2>3. QED
    BY <2>2
<1>3. CASE r # 0
  <2>1. Missing(n, align) = align - r
    <3>1. (align - r) % align = align - r
      <4>1. align - r \in 0..align - 1
        BY <1>3
      <4>2. align - r \in Int /\ align - r = align * 0 + (align - r)
        OBVIOUS
      <4>3. QED
        BY <4>1, <4>2, Remainder
    <3>2. QED
      BY <1>1, <3>1 DEF Missing
  <2>2. n + (align - r) = align * (q + 1)
    <3>1. align * (q + 1) = align * q + align
      OBVIOUS
    <3>2. QED
      BY <1>1, <3>1
  <2>3. (align * (q + 1)) % align = 0
    <3>1. align * (q + 1) \in Int /\ align * (q + 1) = align * (q + 1) + 0 /\ q + 1 \in Int /\ 0 \in 0..align - 1
      OBVIOUS
    <3>2. QED
      BY <3>1, Remainder
  <2>4. ASSUME NEW m \in Nat, n <= m, m % align = 0 PROVE align * (q + 1) <= m
    <3>1. PICK t \in Int : m = align * t
      <4>1. m \in Int
        OBVIOUS
      <4>2. m \div align \in Int /\ m = align * (m \div align) + (m % align)
        BY <4>1, Division
      <4>3. align * (m \div align) \in Int
        BY <4>2
      <4>4. m = align * (m \div align)
        BY <2>4, <4>2, <4>3
      <4>5. QED
        BY <4>2, <4>4
    <3>2. align * q < align * t
      BY <1>1, <1>3, <2>4, <3>1
    <3>3. q < t
      <4>1. SUFFICES ASSUME t <= q PROVE FALSE
        OBVIOUS
      <4>2. align * (q - t) >= 0
        BY <4>1
      <4>3. align * (q - t) = align * q - align * t
        OBVIOUS
      <4>4. QED
        BY <3>2, <4>2, <4>3
    <3>4. t - (q + 1) \in Nat
      BY <3>3
    <3>5. align * (t - (q + 1)) >= 0
      BY <3>4
    <3>6. align * (t - (q + 1)) = align * t - align * (q + 1)
      OBVIOUS
    <3>7. QED
      BY <3>1, <3>5, <3>6
  <2>5. n + Missing(n, align) = align * (q + 1)
    BY <2>1, <2>2
  <2>6. QED
    BY <2>3, <2>4, <2>5
<1>4. QED
  BY <1>2, <1>3

LEMMA Multiples ==
  ASSUME NEW a \in Nat, NEW b \in Nat, NEW align \in Nat \ {0}, a % align = 0, b % align = 0
  PROVE  (a + b) % align = 0
<1>1. PICK s \in Int, t \in Int : a = align * s /\ b = align * t
  <2>1. a \div align \in Int /\ a = align * (a \div align) + 0 /\ b \div align \in Int /\ b = align * (b \div align) + 0
    BY Division
  <2>2. QED
    BY <2>1
<1>2. align * s + align * t = align * (s + t)
  OBVIOUS
<1>3. a + b \in Int /\ a + b = align * (s + t) + 0 /\ s + t \in Int /\ 0 \in 0..align - 1
  BY <1>1, <1>2
<1>4. QED
  BY <1>3, Remainder

\* The buffer with bytes written from place n on.
Spliced(buf, n, bytes) == [i \in DOMAIN buf |-> IF i \in n..n + Len(bytes) - 1 THEN bytes[i - n + 1] ELSE buf[i]]

LEMMA SplicedAt ==
  ASSUME NEW buf \in Seq(Nat), NEW n \in Nat, NEW bytes \in Seq(Nat), NEW p \in 1..Len(buf)
  PROVE  /\ p \in n..n + Len(bytes) - 1 => Spliced(buf, n, bytes)[p] = bytes[p - n + 1]
         /\ p \notin n..n + Len(bytes) - 1 => Spliced(buf, n, bytes)[p] = buf[p]
<1>1. p \in DOMAIN buf
  OBVIOUS
<1>2. QED
  BY <1>1 DEF Spliced

LEMMA InPlace ==
  ASSUME NEW buf \in Seq(Nat), NEW g \in Seg, NEW bytes \in Seq(Nat),
         g.at # 0, g.at + g.len + Len(bytes) - 1 <= Len(buf), NEW e, e = Extend(buf, g, bytes)
  PROVE  /\ e.buf = Spliced(buf, g.at + g.len, bytes)
         /\ e.seg.addr = g.addr /\ e.seg.at = g.at /\ e.seg.len = g.len + Len(bytes) /\ e.seg.own = g.own
<1>1. PICK l : l = g.len + Len(bytes)
  OBVIOUS
<1>2. PICK seg : seg = [g EXCEPT !.len = l]
  OBVIOUS
<1>3. e = [buf |-> Spliced(buf, g.at + g.len, bytes), seg |-> seg]
  BY <1>1, <1>2 DEF Extend, Spliced
<1>4. seg.addr = g.addr /\ seg.at = g.at /\ seg.len = l /\ seg.own = g.own
  BY <1>2 DEF Seg
<1>5. QED
  BY <1>1, <1>3, <1>4

LEMMA Aside ==
  ASSUME NEW buf \in Seq(Nat), NEW g \in Seg, NEW bytes \in Seq(Nat), NEW e, e = Extend(buf, g, bytes),
         ~ (g.at # 0 /\ g.at + g.len + Len(bytes) - 1 <= Len(buf))
  PROVE  e.buf = buf /\ e.seg = Own(g.addr, Bytes(buf, g) \o bytes)
  BY DEF Extend

Prefix(s, t, n) == \A j \in 1..n : s[j] = t[j]
AlikeOutside(buf, old, from, to) == \A p \in 1..Len(old) : buf[p] = old[p] \/ p \in from..to

LEMMA InView ==
  ASSUME NEW at \in Nat, NEW len \in Nat, NEW k \in Nat, NEW m \in Nat, NEW j \in 1..len, at # 0, at + len + k - 1 <= m
  PROVE  at + j - 1 \in 1..m /\ at + j - 1 < at + len
  OBVIOUS

\* append keeps the bytes that are there, and of the file those not behind the segment.
LEMMA ExtendedBytes ==
  ASSUME NEW buf \in Seq(Nat), NEW g \in Seg, Fits(Len(buf), g), NEW bytes \in Seq(Nat),
         NEW e, e = Extend(buf, g, bytes)
  PROVE  /\ Bytes(e.buf, e.seg) \in Seq(Nat) /\ Len(Bytes(e.buf, e.seg)) = g.len + Len(bytes)
         /\ Prefix(Bytes(e.buf, e.seg), Bytes(buf, g), g.len)
         /\ g.at = 0 => e.buf = buf
         /\ g.at # 0 => AlikeOutside(e.buf, buf, g.at + g.len, g.at + g.len + Len(bytes) - 1)
<1>1. PICK at \in Nat, len \in Nat \ {0}, k \in Nat, n \in Nat :
        at = g.at /\ len = g.len /\ k = Len(bytes) /\ n = at + len /\ Len(buf) \in Nat
  BY DEF Seg
<1>2. /\ e.buf \in Seq(Nat) /\ Len(e.buf) = Len(buf) /\ e.seg \in Seg /\ Fits(Len(buf), e.seg)
  BY Extended
<1>3. Bytes(e.buf, e.seg) \in Seq(Nat) /\ Len(Bytes(e.buf, e.seg)) = e.seg.len
  BY <1>2, BytesOf
<1>4. Bytes(buf, g) \in Seq(Nat) /\ Len(Bytes(buf, g)) = len
  BY <1>1, BytesOf
<1>5. CASE at # 0 /\ at + len + k - 1 <= Len(buf)
  <2>1. e.seg.at = at /\ e.seg.len = len + k /\ e.buf = Spliced(buf, n, bytes)
    <3>1. g.at # 0 /\ g.at + g.len + Len(bytes) - 1 <= Len(buf)
      BY <1>1, <1>5
    <3>2. e.buf = Spliced(buf, g.at + g.len, bytes) /\ e.seg.at = g.at /\ e.seg.len = g.len + Len(bytes)
      BY <3>1, InPlace
    <3>3. QED
      BY <1>1, <3>2
  <2>2. ASSUME NEW p \in 1..Len(buf), p \notin n..n + k - 1 PROVE e.buf[p] = buf[p]
    <3>1. p \notin n..n + Len(bytes) - 1
      BY <1>1, <2>2
    <3>2. Spliced(buf, n, bytes)[p] = buf[p]
      BY <3>1, SplicedAt
    <3>3. QED
      BY <2>1, <3>2
  <2>3. ASSUME NEW j \in 1..len PROVE Bytes(e.buf, e.seg)[j] = Bytes(buf, g)[j]
    <3>1. Bytes(buf, g)[j] = buf[at + j - 1]
      BY <1>1, <1>5, BytesAt
    <3>2. j \in 1..e.seg.len
      BY <2>1
    <3>3. Bytes(e.buf, e.seg)[j] = e.buf[at + j - 1]
      BY <1>2, <1>5, <2>1, <3>2, BytesAt
    <3>4. PICK p \in 1..Len(buf) : p = at + j - 1 /\ p \notin n..n + k - 1
      <4>1. PICK m \in Nat : m = Len(buf) /\ at + len + k - 1 <= m /\ at # 0
        BY <1>1, <1>5
      <4>2. PICK p \in Int : p = at + j - 1
        OBVIOUS
      <4>3. p \in 1..m /\ p < n
        <5>1. at + j - 1 \in 1..m /\ at + j - 1 < at + len
          BY <4>1, InView
        <5>2. QED
          BY <1>1, <4>2, <5>1
      <4>4. QED
        BY <4>1, <4>2, <4>3
    <3>5. QED
      BY <2>2, <3>1, <3>3, <3>4
  <2>4. Prefix(Bytes(e.buf, e.seg), Bytes(buf, g), len)
    BY <2>3 DEF Prefix
  <2>5. AlikeOutside(e.buf, buf, n, n + k - 1)
    BY <1>1, <1>5, <2>2 DEF AlikeOutside
  <2>6. QED
    BY <1>1, <1>3, <1>5, <2>1, <2>4, <2>5
<1>6. CASE ~ (at # 0 /\ at + len + k - 1 <= Len(buf))
  <2>1. e.buf = buf /\ e.seg = Own(g.addr, Bytes(buf, g) \o bytes)
    BY <1>1, <1>6, Aside
  <2>2. PICK b \in Seq(Nat), c \in Seq(Nat) : b = Bytes(buf, g) /\ Len(b) = len /\ c = b \o bytes /\ e.seg = Own(g.addr, c)
    BY <1>4, <2>1, Joins
  <2>3. Len(c) = len + k /\ \A j \in 1..len : c[j] = b[j]
    <3>1. Len(c) = Len(b) + Len(bytes)
      BY <2>2, Joins
    <3>2. ASSUME NEW j \in 1..len PROVE c[j] = b[j]
      BY <1>1, <2>2, <3>2, ConcatProperties
    <3>3. QED
      BY <1>1, <2>2, <3>1, <3>2
  <2>4. Bytes(e.buf, e.seg) = c /\ e.seg.len = len + k
    <3>1. e.seg.at = 0 /\ e.seg.own = c /\ e.seg.len = Len(c)
      BY <2>2 DEF Own
    <3>2. QED
      BY <2>3, <3>1 DEF Bytes
  <2>5. Prefix(Bytes(e.buf, e.seg), Bytes(buf, g), len)
    BY <2>2, <2>3, <2>4 DEF Prefix
  <2>6. AlikeOutside(e.buf, buf, n, n + k - 1)
    BY <2>1 DEF AlikeOutside
  <2>7. QED
    BY <1>1, <1>3, <2>1, <2>4, <2>5, <2>6
<1>7. QED
  BY <1>5, <1>6

LEMMA SaveFlashSegmentLoads ==
  ASSUME ImgInv, LoadInv, Linked, SaveFlashSegment
  PROVE  /\ Clean(elf)' /\ EndsAtSection(toFlash)' /\ AlignedLengths(toFlash)'
         /\ Carries(toFlash)' /\ Tails(toFlash, PageTail)' /\ Placed'
<1>1. PICK g, over, zeros, long :
        /\ g = Head(toFlash) /\ over = (written + SegHeader + g.len) % Page
        /\ zeros = Zeros(IF over < PageTail THEN PageTail - over ELSE 0)
        /\ long = Extend(elf, g, zeros)
  OBVIOUS
<1>2. /\ built /\ toFlash # <<>> /\ elf' = long.buf /\ Write(g.addr, Bytes(long.buf, long.seg))
      /\ toFlash' = Tail(toFlash) /\ UNCHANGED <<file, ram>>
  BY <1>1 DEF SaveFlashSegment
<1>3. FileSound /\ elf \in Seq(Nat) /\ written \in Nat /\ toFlash \in Seq(Segments(Len(elf), 0))
  BY DEF ImgInv
<1>4. PICK addr \in Nat, len \in Nat \ {0}, at \in Nat : addr = g.addr /\ len = g.len /\ at = g.at /\ g \in Seg /\ Fits(Len(elf), g)
  <2>1. g \in Segments(Len(elf), 0)
    BY <1>1, <1>2, <1>3, HeadTailProperties
  <2>2. QED
    BY <2>1, SegmentFacts DEF Seg
<1>5. /\ Clean(elf) /\ EndsAtSection(toFlash) /\ AlignedLengths(toFlash)
      /\ Carries(toFlash) /\ Tails(toFlash, PageTail) /\ Placed
  BY <1>2 DEF LoadInv
<1>6. PICK e \in Nat : zeros \in Seq(Nat) /\ Len(zeros) = e /\ e <= PageTail
  <2>1. PICK o \in Nat : o = over
    <3>1. written + SegHeader + len \in Int /\ Page \in Nat \ {0}
      BY <1>3, <1>4, Amounts
    <3>2. (written + SegHeader + len) % Page \in 0..Page - 1
      BY <3>1, Division
    <3>3. QED
      BY <1>1, <1>4, <3>1, <3>2
  <2>2. PICK e \in Nat : e = (IF o < PageTail THEN PageTail - o ELSE 0) /\ e <= PageTail
    <3>1. PICK t \in Nat : t = PageTail
      BY Amounts
    <3>2. \E e \in Nat : e = (IF o < t THEN t - o ELSE 0) /\ e <= t
      <4>1. CASE o < t
        <5>1. t - o \in Nat /\ t - o <= t
          BY <4>1
        <5>2. QED
          BY <4>1, <5>1
      <4>2. CASE ~ (o < t)
        BY <4>2
      <4>3. QED
        BY <4>1, <4>2
    <3>3. QED
      BY <3>1, <3>2
  <2>3. zeros = Zeros(e)
    BY <1>1, <2>1, <2>2
  <2>4. QED
    BY <2>2, <2>3, SomeZeros
<1>7. PICK bytes \in Seq(Nat) :
        /\ bytes = Bytes(long.buf, long.seg) /\ Len(bytes) = len + e
        /\ \A j \in 1..len : bytes[j] = Bytes(elf, g)[j]
        /\ \A p \in 1..Len(elf) : \/ long.buf[p] = elf[p]
                                  \/ at # 0 /\ p \in at + len..at + len + e - 1
  <2>1. elf \in Seq(Nat) /\ g \in Seg /\ Fits(Len(elf), g) /\ zeros \in Seq(Nat) /\ long = Extend(elf, g, zeros)
    BY <1>1, <1>3, <1>4, <1>6
  <2>2. PICK b : b = Bytes(long.buf, long.seg)
    OBVIOUS
  <2>3. /\ b \in Seq(Nat) /\ Len(b) = g.len + Len(zeros) /\ Prefix(b, Bytes(elf, g), g.len)
        /\ g.at = 0 => long.buf = elf
        /\ g.at # 0 => AlikeOutside(long.buf, elf, g.at + g.len, g.at + g.len + Len(zeros) - 1)
    BY <2>1, <2>2, ExtendedBytes
  <2>4. \A j \in 1..len : b[j] = Bytes(elf, g)[j]
    BY <1>4, <2>3 DEF Prefix
  <2>5. \A p \in 1..Len(elf) : long.buf[p] = elf[p] \/ (at # 0 /\ p \in at + len..at + len + e - 1)
    <3>1. CASE at = 0
      BY <1>4, <2>3, <3>1
    <3>2. CASE at # 0
      <4>1. AlikeOutside(long.buf, elf, at + len, at + len + e - 1)
        BY <1>4, <1>6, <2>3, <3>2
      <4>2. QED
        BY <3>2, <4>1 DEF AlikeOutside
    <3>3. QED
      BY <3>1, <3>2
  <2>6. QED
    BY <1>4, <1>6, <2>2, <2>3, <2>4, <2>5
<1>8. 1 \in DOMAIN toFlash /\ g = toFlash[1]
  BY <1>1, <1>2, <1>3, EmptySeq
<1>9. PICK r : r = toFlash'
  OBVIOUS
<1>10. /\ \A x \in Nat : Later(toFlash, 1, x) => Pends(r, x)
       /\ \A x \in Nat : Pends(toFlash, x) => Has(g, x) \/ Pends(r, x)
       /\ Carries(r) /\ Tails(r, PageTail) /\ EndsAtSection(r) /\ AlignedLengths(r)
  BY <1>1, <1>2, <1>3, <1>5, <1>9, TailKeeps, Amounts
<1>11. PICK k \in Nat : k = Len(bytes) + Missing(Len(bytes), Align) /\ len <= k /\ k <= len + PageTail
  <2>1. Align \in Nat \ {0} /\ PageTail \in Nat /\ PageTail % Align = 0
    BY Amounts, ImageAssumption DEF ImageAssumption
  <2>2. len % Align = 0
    BY <1>4, <1>5, <1>8 DEF AlignedLengths
  <2>3. (len + PageTail) % Align = 0
    BY <2>1, <2>2, Multiples
  <2>4. PICK n \in Nat, m \in Nat, z \in Nat : n = len + e /\ m = len + PageTail /\ n <= m /\ z = Missing(n, Align)
    <3>1. len + e \in Nat /\ len + PageTail \in Nat /\ len + e <= len + PageTail
      BY <1>6, <2>1
    <3>2. Missing(len + e, Align) \in Nat
      BY <2>1, <3>1, MissingSize
    <3>3. QED
      BY <3>1, <3>2
  <2>5. n + z <= m
    BY <2>1, <2>3, <2>4, RoundUp
  <2>6. QED
    BY <1>7, <2>4, <2>5
<1>12. ASSUME NEW c \in Cells, addr <= c.addr, c.addr < addr + k
       PROVE  \/ Pends(toFlash, c.addr)'
              \/ c.addr < addr + Len(bytes) /\ (c.place \in Exposed \/ bytes[c.addr - addr + 1] = c.place)
  <2>1. PICK x \in Nat : x = c.addr
    BY <1>3, CellFacts
  <2>2. CASE Later(toFlash, 1, x)
    BY <1>9, <1>10, <2>1, <2>2 DEF Pends
  <2>3. CASE ~ Later(toFlash, 1, x)
    <3>1. ~ (addr + len <= x /\ x < (addr + len) + PageTail)
      BY <1>4, <1>5, <1>8, <2>1, <2>3 DEF Tails, End
    <3>2. x < addr + len
      BY <1>11, <1>12, <2>1, <3>1, Amounts
    <3>3. Has(g, c.addr)
      BY <1>4, <1>12, <2>1, <3>2 DEF Has, End
    <3>4. Right(g, c)
      BY <1>5, <1>8, <2>1, <2>3, <3>3 DEF Carries
    <3>5. c.place \in Exposed \/ Bytes(elf, g)[c.addr - g.addr + 1] = c.place
      BY <1>3, <1>4, <1>5, <3>3, <3>4, RightBytes
    <3>6. PICK j \in 1..len : j = c.addr - addr + 1
      BY <1>12, <2>1, <3>2
    <3>7. c.addr < addr + Len(bytes)
      BY <1>7, <2>1, <3>2
    <3>8. QED
      BY <1>4, <1>7, <3>5, <3>6, <3>7
  <2>4. QED
    BY <2>2, <2>3
<1>13. ASSUME NEW c \in Cells, Pends(toFlash, c.addr) \/ Pends(ram, c.addr)
       PROVE  \/ Pends(toFlash, c.addr)' \/ Pends(ram, c.addr)'
              \/ addr <= c.addr /\ c.addr < addr + k
  <2>1. PICK x \in Nat : x = c.addr
    BY <1>3, CellFacts
  <2>2. CASE Pends(toFlash, x)
    <3>1. Has(g, x) \/ Pends(r, x)
      BY <1>10, <2>2
    <3>2. Has(g, x) => addr <= x /\ x < addr + k
      BY <1>4, <1>11 DEF Has, End
    <3>3. Pends(r, x) => Pends(toFlash, c.addr)'
      BY <1>9, <2>1 DEF Pends
    <3>4. QED
      BY <2>1, <3>1, <3>2, <3>3
  <2>3. CASE Pends(ram, x)
    BY <1>2, <2>1, <2>3 DEF Pends
  <2>4. QED
    BY <1>13, <2>1, <2>2, <2>3
<1>14. Placed'
  <2>1. Write(addr, bytes) /\ UNCHANGED file
    BY <1>2, <1>4, <1>7
  <2>2. WritesRight(addr, bytes, k)
    BY <1>12 DEF WritesRight
  <2>3. LosesOnly(addr, k)
    BY <1>13 DEF LosesOnly
  <2>4. QED
    BY <1>5, <1>11, <2>1, <2>2, <2>3, PlacedStep
<1>15. Cells' = Cells /\ Exposed' = Exposed /\ (\A s \in FlashSections : PlaceEnd(s)' = PlaceEnd(s))
  BY <1>2 DEF Cells, Exposed, PlaceEnd, Addr, Place, Size
<1>16. Clean(elf)'
  <2>1. ASSUME NEW c \in Cells PROVE c.place \in Exposed \/ elf'[c.place] = c.place
    <3>1. c.place \in 1..Len(elf)
      BY <1>3, CellFacts
    <3>2. c.place \in Exposed \/ elf[c.place] = c.place
      BY <1>5 DEF Clean
    <3>3. CASE long.buf[c.place] = elf[c.place]
      BY <1>2, <3>2, <3>3
    <3>4. CASE at # 0 /\ c.place \in at + len..at + len + e - 1
      <4>1. PICK s \in FlashSections : at + len = PlaceEnd(s)
        BY <1>4, <1>5, <1>8, <3>4 DEF EndsAtSection
      <4>2. c.place \in PlaceEnd(s)..PlaceEnd(s) + PageTail - 1
        BY <1>6, <3>1, <3>4, <4>1, Amounts
      <4>3. c.place \in Exposed
        BY <4>2 DEF Exposed, PlaceEnd, Place, Size
      <4>4. QED
        BY <4>3
    <3>5. QED
      BY <1>7, <3>1, <3>3, <3>4
  <2>2. QED
    BY <1>15, <2>1 DEF Clean
<1>17. EndsAtSection(toFlash)' /\ AlignedLengths(toFlash)'
  BY <1>9, <1>10, <1>15 DEF EndsAtSection, AlignedLengths
<1>18. Carries(toFlash)'
  <2>1. Carries(r) <=> \A n \in DOMAIN r, c \in Cells : Has(r[n], c.addr) => Right(r[n], c) \/ Later(r, n, c.addr)
    BY DEF Carries
  <2>2. Carries(toFlash)' <=> \A n \in DOMAIN toFlash', c \in Cells' :
                            Has(toFlash'[n], c.addr) => Right(toFlash'[n], c) \/ Later(toFlash', n, c.addr)
    BY DEF Carries, Later
  <2>3. QED
    BY <1>9, <1>10, <1>15, <2>1, <2>2
<1>19. Tails(toFlash, PageTail)'
  <2>1. Tails(r, PageTail) <=> \A n \in DOMAIN r, c \in Cells :
                              End(r[n]) <= c.addr /\ c.addr < End(r[n]) + PageTail => Later(r, n, c.addr)
    BY DEF Tails
  <2>2. Tails(toFlash, PageTail)' <=> \A n \in DOMAIN toFlash', c \in Cells' :
                              End(toFlash'[n]) <= c.addr /\ c.addr < End(toFlash'[n]) + PageTail => Later(toFlash', n, c.addr)
    BY DEF Tails, Later
  <2>3. QED
    BY <1>9, <1>10, <1>15, <2>1, <2>2
<1>20. QED
  BY <1>14, <1>16, <1>17, <1>18, <1>19
-----------------------------------------------------------------------------
(* Merging: sections in a row become one view of the file.                  *)

\* Sections f to l are as far apart in the file as in memory.
Rigid(f, l) == \A s \in f..l : Place(s) - Place(f) = Addr(s) - Addr(f)

\* All of the file from section f to section l.
Span(f, l) == View(Addr(f), Place(f), SecEnd(l) - Addr(f))

Intact(buf) == \A s \in Sections : \A p \in Place(s)..PlaceEnd(s) - 1 : buf[p] = p

LEMMA SectionNumbers ==
  ASSUME FileSound, NEW s \in Sections
  PROVE  \E a \in Nat, p \in Nat \ {0}, z \in Nat \ {0} :
           /\ a = Addr(s) /\ p = Place(s) /\ z = Size(s)
           /\ SecEnd(s) = a + z /\ PlaceEnd(s) = p + z /\ p + z - 1 <= Len(elf)
<1>1. /\ Addr(s) \in Nat /\ Place(s) \in Nat \ {0} /\ Size(s) \in Nat \ {0}
      /\ SecEnd(s) = Addr(s) + Size(s) /\ PlaceEnd(s) = Place(s) + Size(s) /\ PlaceEnd(s) - 1 <= Len(elf)
  BY SectionFacts
<1>2. PICK a \in Nat, p \in Nat \ {0}, z \in Nat \ {0} : a = Addr(s) /\ p = Place(s) /\ z = Size(s)
  BY <1>1
<1>3. QED
  BY <1>1, <1>2, SMTT(30)

LEMMA SpanFacts ==
  ASSUME FileSound, NEW f \in Sections, NEW l \in Sections, f <= l, SameWindow(f, l), Rigid(f, l)
  PROVE  /\ Span(f, l) \in Seg /\ Fits(Len(elf), Span(f, l))
         /\ Span(f, l).addr = Addr(f) /\ Span(f, l).at = Place(f) /\ Span(f, l).own = <<>>
         /\ Span(f, l).len = SecEnd(l) - Addr(f) /\ SecEnd(l) - Addr(f) \in Nat \ {0}
         /\ End(Span(f, l)) = SecEnd(l) /\ Span(f, l).at + Span(f, l).len = PlaceEnd(l)
<1>0. PICK af \in Nat, pf \in Nat \ {0}, sf \in Nat \ {0} :
        af = Addr(f) /\ pf = Place(f) /\ sf = Size(f) /\ SecEnd(f) = af + sf
  BY SectionNumbers
<1>1. PICK al \in Nat, pl \in Nat \ {0}, sl \in Nat \ {0} :
        /\ al = Addr(l) /\ pl = Place(l) /\ sl = Size(l)
        /\ SecEnd(l) = al + sl /\ PlaceEnd(l) = pl + sl /\ pl + sl - 1 <= Len(elf)
  BY SectionNumbers
<1>2. pl - pf = al - af /\ f \in Nat /\ l \in Nat
  <2>1. f \in Nat /\ l \in Nat
    BY SectionFacts
  <2>2. l \in f..l
    BY <2>1
  <2>3. QED
    BY <1>0, <1>1, <2>1, <2>2 DEF Rigid
<1>3. af <= al
  <2>1. CASE f = l
    BY <1>0, <1>1, <2>1
  <2>2. CASE f < l
    <3>1. SecEnd(f) <= Addr(l)
      BY <2>2, SectionOrder
    <3>2. af + sf <= al
      BY <1>0, <1>1, <3>1
    <3>3. QED
      BY <3>2
  <2>3. QED
    BY <1>2, <2>1, <2>2
<1>4. PICK n \in Nat \ {0} : n = al + sl - af /\ pf + n = pl + sl /\ af + n = al + sl
  BY <1>2, <1>3
<1>5. PICK g : g = Span(f, l)
  OBVIOUS
<1>6. g = [addr |-> af, at |-> pf, len |-> n, own |-> <<>>]
  BY <1>0, <1>1, <1>4, <1>5 DEF Span, View
<1>7. g \in Seg /\ g.addr = af /\ g.at = pf /\ g.len = n /\ g.own = <<>>
  <2>1. <<>> \in Seq(Nat)
    BY EmptySeq
  <2>2. QED
    BY <1>6, <2>1 DEF Seg
<1>8. Fits(Len(elf), g)
  <2>1. pf + n - 1 = pl + sl - 1
    BY <1>4
  <2>2. g.at # 0 /\ g.at + g.len - 1 <= Len(elf)
    BY <1>1, <1>7, <2>1
  <2>3. QED
    BY <1>7, <2>2 DEF Fits
<1>9. SecEnd(l) - Addr(f) = n /\ g.addr + g.len = SecEnd(l) /\ g.at + g.len = PlaceEnd(l)
  BY <1>0, <1>1, <1>4, <1>7
<1>10. QED
  BY <1>0, <1>4, <1>5, <1>7, <1>8, <1>9 DEF End

\* Two rows of sections with a gap in memory shorter than Align are one row.
LEMMA RigidJoins ==
  ASSUME FileSound, NEW f \in Sections, NEW l \in Sections, NEW h \in Sections, f <= l, l < h,
         \A s, t \in f..h : SameWindow(s, t), Rigid(f, l), Rigid(l + 1, h), Addr(l + 1) < SecEnd(l) + Align
  PROVE  /\ l + 1 \in Sections /\ Rigid(f, h)
         /\ Place(l + 1) - PlaceEnd(l) = Addr(l + 1) - SecEnd(l) /\ SecEnd(l) <= Addr(l + 1)
<1>1. f \in Nat /\ l \in Nat /\ h \in Nat /\ l + 1 \in Sections /\ l + 1 \in f..h /\ l \in f..h
  <2>1. f \in Nat /\ l \in Nat /\ h \in Nat
    BY SectionFacts
  <2>2. QED
    BY <2>1, Amounts DEF Sections
<1>2. Place(l + 1) - PlaceEnd(l) = Addr(l + 1) - SecEnd(l) /\ SecEnd(l) <= Addr(l + 1)
  <2>1. l < l + 1 /\ SameWindow(l, l + 1)
    BY <1>1
  <2>2. QED
    BY <1>1, <2>1, SectionOrder
<1>3. PICK af \in Nat, pf \in Nat, al \in Nat, pl \in Nat, sl \in Nat, am \in Nat, pm \in Nat :
        /\ af = Addr(f) /\ pf = Place(f) /\ al = Addr(l) /\ pl = Place(l) /\ sl = Size(l)
        /\ am = Addr(l + 1) /\ pm = Place(l + 1) /\ SecEnd(l) = al + sl /\ PlaceEnd(l) = pl + sl
  BY <1>1, SectionFacts
<1>4. pl - pf = al - af
  <2>1. l \in f..l
    BY <1>1
  <2>2. QED
    BY <1>3, <2>1 DEF Rigid
<1>5. ASSUME NEW s \in f..h PROVE Place(s) - Place(f) = Addr(s) - Addr(f)
  <2>1. CASE s \in f..l
    BY <2>1 DEF Rigid
  <2>2. CASE s \in l + 1..h
    <3>1. Place(s) - Place(l + 1) = Addr(s) - Addr(l + 1)
      BY <2>2 DEF Rigid
    <3>2. s \in Sections
      BY <1>1, <2>2, Amounts DEF Sections
    <3>3. PICK b \in Nat, ps \in Nat : b = Addr(s) /\ ps = Place(s)
      BY <3>2, SectionFacts
    <3>4. ps - pm = b - am /\ pm - (pl + sl) = am - (al + sl)
      BY <1>2, <1>3, <3>1, <3>3
    <3>5. ps - pf = b - af
      <4>1. pm - pl = am - al
        BY <3>4
      <4>2. ps - pl = b - al
        BY <3>4, <4>1
      <4>3. QED
        BY <1>4, <4>2
    <3>6. QED
      BY <1>3, <3>3, <3>5
  <2>3. QED
    BY <1>1, <2>1, <2>2
<1>6. QED
  BY <1>1, <1>2, <1>5 DEF Rigid

\* What changes between two sections leaves them alone.
LEMMA IntactOutside ==
  ASSUME FileSound, NEW buf \in Seq(Nat), Len(buf) = Len(elf), Intact(buf), NEW l \in Sections, l + 1 \in Sections,
         NEW new, AlikeOutside(new, buf, PlaceEnd(l), Place(l + 1) - 1)
  PROVE  Intact(new)
<1> SUFFICES ASSUME NEW t \in Sections, NEW p \in Place(t)..PlaceEnd(t) - 1
             PROVE  new[p] = p
  BY DEF Intact
<1>1. buf[p] = p
  BY DEF Intact
<1>2. PICK pt \in Nat \ {0}, et \in Nat, el \in Nat, pm \in Nat, m \in Nat :
        /\ pt = Place(t) /\ et = PlaceEnd(t) /\ el = PlaceEnd(l) /\ pm = Place(l + 1) /\ m = Len(buf) /\ et - 1 <= m
  <2>1. Len(buf) \in Nat
    OBVIOUS
  <2>2. QED
    BY <2>1, SectionFacts
<1>3. p \in 1..Len(buf)
  BY <1>2
<1>4. l \in Nat /\ t \in Nat
  BY SectionFacts
<1>5. et <= el \/ pm <= pt
  <2>1. CASE t = l
    BY <1>2, <2>1
  <2>2. CASE t < l
    <3>1. PlaceEnd(t) <= Place(l)
      BY <2>2, SectionOrder
    <3>2. Place(l) \in Nat /\ PlaceEnd(l) = Place(l) + Size(l) /\ Size(l) \in Nat
      BY SectionFacts
    <3>3. QED
      BY <1>2, <3>1, <3>2, SMTT(30)
  <2>3. CASE t = l + 1
    BY <1>2, <2>3
  <2>4. CASE l + 1 < t
    <3>1. PlaceEnd(l + 1) <= Place(t)
      BY <2>4, SectionOrder
    <3>2. PlaceEnd(l + 1) = Place(l + 1) + Size(l + 1) /\ Size(l + 1) \in Nat
      BY SectionFacts
    <3>3. QED
      BY <1>2, <3>1, <3>2
  <2>5. QED
    BY <1>4, <2>1, <2>2, <2>3, <2>4
<1>6. p \notin PlaceEnd(l)..Place(l + 1) - 1
  BY <1>2, <1>5
<1>7. new[p] = buf[p]
  BY <1>3, <1>6 DEF AlikeOutside
<1>8. QED
  BY <1>1, <1>7

LEMMA SameSegment ==
  ASSUME NEW g \in Seg, NEW h \in Seg, g.addr = h.addr, g.at = h.at, g.len = h.len, g.own = h.own
  PROVE  g = h
  BY DEF Seg

Behind(m, g, gap) == g.at = m.at + m.len + gap

\* Two views are joined in the file's buffer, which changes between them only.
LEMMA JoinedViews ==
  ASSUME NEW buf \in Seq(Nat), NEW m \in Seg, Fits(Len(buf), m), m.at # 0,
         NEW g \in Seg, Fits(Len(buf), g), NEW gap \in Nat, Behind(m, g, gap),
         NEW j, j = Joined(buf, m, g, gap)
  PROVE  /\ j.buf \in Seq(Nat) /\ Len(j.buf) = Len(buf)
         /\ j.seg \in Seg /\ j.seg.addr = m.addr /\ j.seg.at = m.at /\ j.seg.len = m.len + gap + g.len /\ j.seg.own = m.own
         /\ AlikeOutside(j.buf, buf, m.at + m.len, g.at - 1)
<1>1. PICK n \in Nat \ {0}, k \in Nat \ {0}, pf \in Nat \ {0}, pm \in Nat \ {0}, len \in Nat :
        /\ m.len = n /\ g.len = k /\ m.at = pf /\ g.at = pm /\ len = Len(buf) /\ pm = pf + n + gap /\ pm + k - 1 <= len
  <2>1. g.at \in Nat /\ m.at \in Nat \ {0} /\ m.len \in Nat \ {0} /\ g.len \in Nat \ {0} /\ Len(buf) \in Nat
    BY DEF Seg
  <2>2. g.at # 0
    BY <2>1 DEF Behind
  <2>3. g.at + g.len - 1 <= Len(buf) /\ g.at = m.at + m.len + gap
    BY <2>2 DEF Fits, Behind
  <2>4. QED
    BY <2>1, <2>2, <2>3
<1>2. PICK zeros \in Seq(Nat) : zeros = Zeros(gap) /\ Len(zeros) = gap
  BY SomeZeros
<1>3. PICK filled : filled = Extend(buf, m, zeros)
  OBVIOUS
<1>4. PICK seg, b : seg = filled.seg /\ b = filled.buf
  OBVIOUS
<1>5. b \in Seq(Nat) /\ Len(b) = len /\ seg \in Seg /\ Fits(len, seg)
  BY <1>1, <1>2, <1>3, <1>4, Extended
<1>6. m.at # 0 /\ m.at + m.len + Len(zeros) - 1 <= Len(buf)
  BY <1>1, <1>2
<1>7. /\ b = Spliced(buf, m.at + m.len, zeros)
      /\ seg.addr = m.addr /\ seg.at = m.at /\ seg.len = m.len + Len(zeros) /\ seg.own = m.own
  BY <1>2, <1>3, <1>4, <1>6, InPlace
<1>8. seg.at = pf /\ seg.len = n + gap /\ m.at + m.len = pf + n
  BY <1>1, <1>2, <1>7
<1>9. PICK bytes \in Seq(Nat) : bytes = Bytes(b, g) /\ Len(bytes) = k /\ \A i \in 1..k : bytes[i] = b[pm + i - 1]
  <2>1. Bytes(b, g) \in Seq(Nat) /\ Len(Bytes(b, g)) = k
    BY <1>1, <1>5, BytesOf
  <2>2. ASSUME NEW i \in 1..k PROVE Bytes(b, g)[i] = b[pm + i - 1]
    <3>1. Fits(Len(b), g) /\ b \in Seq(Nat) /\ i \in 1..g.len
      BY <1>1, <1>5
    <3>2. Bytes(b, g)[i] = IF g.at = 0 THEN g.own[i] ELSE b[g.at + i - 1]
      BY <3>1, BytesAt
    <3>3. g.at = pm /\ pm # 0
      BY <1>1
    <3>4. QED
      BY <3>2, <3>3
  <2>3. QED
    BY <2>1, <2>2
<1>10. j = Extend(b, seg, bytes)
  BY <1>2, <1>3, <1>4, <1>9 DEF Joined
<1>11. j.buf \in Seq(Nat) /\ Len(j.buf) = len /\ j.seg \in Seg
  BY <1>5, <1>9, <1>10, Extended
<1>12. seg.at # 0 /\ seg.at + seg.len + Len(bytes) - 1 <= Len(b)
  BY <1>1, <1>5, <1>8, <1>9
<1>13. /\ j.buf = Spliced(b, seg.at + seg.len, bytes)
       /\ j.seg.addr = seg.addr /\ j.seg.at = seg.at /\ j.seg.len = seg.len + Len(bytes) /\ j.seg.own = seg.own
  BY <1>5, <1>9, <1>10, <1>12, InPlace
<1>14. j.buf = Spliced(b, pm, bytes) /\ b = Spliced(buf, pf + n, zeros)
  BY <1>1, <1>7, <1>8, <1>13
<1>15. ASSUME NEW p \in 1..Len(buf) PROVE j.buf[p] = buf[p] \/ p \in m.at + m.len..g.at - 1
  <2>1. j.buf[p] = b[p]
    <3>0. p \in 1..Len(b) /\ b \in Seq(Nat) /\ pm \in Nat
      BY <1>1, <1>5
    <3>1. CASE p \in pm..pm + Len(bytes) - 1
      <4>0. Spliced(b, pm, bytes)[p] = bytes[p - pm + 1]
        BY <3>0, <3>1, SplicedAt
      <4>1. j.buf[p] = bytes[p - pm + 1]
        BY <1>14, <4>0
      <4>2. p - pm + 1 \in 1..k /\ pm + (p - pm + 1) - 1 = p
        BY <1>9, <3>1
      <4>3. QED
        BY <1>9, <4>1, <4>2
    <3>2. CASE p \notin pm..pm + Len(bytes) - 1
      <4>1. Spliced(b, pm, bytes)[p] = b[p]
        BY <3>0, <3>2, SplicedAt
      <4>2. QED
        BY <1>14, <4>1
    <3>3. QED
      BY <3>1, <3>2
  <2>2. CASE p \in pf + n..pf + n + Len(zeros) - 1
    <3>1. p \in pf + n..pm - 1
      BY <1>1, <1>2, <2>2
    <3>2. QED
      BY <1>1, <1>8, <3>1
  <2>3. CASE p \notin pf + n..pf + n + Len(zeros) - 1
    <3>1. b[p] = buf[p]
      BY <1>14, <2>3, SplicedAt
    <3>2. QED
      BY <2>1, <3>1
  <2>4. QED
    BY <2>2, <2>3
<1>16. AlikeOutside(j.buf, buf, m.at + m.len, g.at - 1)
  BY <1>15 DEF AlikeOutside
<1>17. m.len + gap + g.len = seg.len + Len(bytes)
  BY <1>1, <1>8, <1>9
<1>18. QED
  BY <1>1, <1>7, <1>11, <1>13, <1>16, <1>17

\* Two rows of sections, the second just behind the first.
Adjoin(f, l, h) ==
  /\ f <= l /\ l < h /\ \A s, t \in f..h : SameWindow(s, t)
  /\ Rigid(f, l) /\ Rigid(l + 1, h) /\ Addr(l + 1) < SecEnd(l) + Align

LEMMA Between ==
  ASSUME FileSound, NEW l \in Sections, l + 1 \in Sections, SecEnd(l) <= Addr(l + 1),
         Place(l + 1) - PlaceEnd(l) = Addr(l + 1) - SecEnd(l)
  PROVE  \E d \in Nat : d = Addr(l + 1) - SecEnd(l) /\ Addr(l + 1) = SecEnd(l) + d /\ Place(l + 1) = PlaceEnd(l) + d
<1>1. PICK a \in Nat, e \in Nat, p \in Nat, q \in Nat : a = Addr(l + 1) /\ e = SecEnd(l) /\ p = Place(l + 1) /\ q = PlaceEnd(l)
  BY SectionFacts
<1>2. p - q = a - e /\ e <= a
  BY <1>1
<1>3. PICK d \in Nat : d = a - e
  BY <1>2
<1>4. a = e + d /\ p = q + d
  BY <1>2, <1>3
<1>5. QED
  BY <1>1, <1>3, <1>4

\* Joining them gives the view of both, and leaves the sections alone.
LEMMA SpanJoined ==
  ASSUME FileSound, NEW f \in Sections, NEW l \in Sections, NEW h \in Sections, Adjoin(f, l, h),
         NEW buf \in Seq(Nat), Len(buf) = Len(elf), Intact(buf),
         NEW gap, gap = Addr(l + 1) - SecEnd(l), NEW j, j = Joined(buf, Span(f, l), Span(l + 1, h), gap)
  PROVE  Rigid(f, h) /\ j.seg = Span(f, h) /\ j.buf \in Seq(Nat) /\ Len(j.buf) = Len(elf) /\ Intact(j.buf)
<1>1. /\ l + 1 \in Sections /\ Rigid(f, h)
      /\ Place(l + 1) - PlaceEnd(l) = Addr(l + 1) - SecEnd(l) /\ SecEnd(l) <= Addr(l + 1)
  BY RigidJoins DEF Adjoin
<1>2. /\ f <= l /\ l + 1 <= h /\ f <= h
      /\ SameWindow(f, l) /\ SameWindow(l + 1, h) /\ SameWindow(f, h) /\ Rigid(f, l) /\ Rigid(l + 1, h)
  <2>1. f \in Nat /\ l \in Nat /\ h \in Nat /\ f <= l /\ l < h
    BY SectionFacts DEF Adjoin
  <2>2. f \in f..h /\ l \in f..h /\ l + 1 \in f..h /\ h \in f..h
    BY <2>1
  <2>3. QED
    BY <2>1, <2>2 DEF Adjoin
<1>3. PICK m, g, w : m = Span(f, l) /\ g = Span(l + 1, h) /\ w = Span(f, h)
  OBVIOUS
<1>4. /\ m \in Seg /\ Fits(Len(elf), m) /\ m.addr = Addr(f) /\ m.at = Place(f) /\ m.own = <<>>
      /\ m.len = SecEnd(l) - Addr(f) /\ m.at + m.len = PlaceEnd(l) /\ m.addr + m.len = SecEnd(l)
  BY <1>2, <1>3, SpanFacts DEF End
<1>5. /\ g \in Seg /\ Fits(Len(elf), g) /\ g.addr = Addr(l + 1) /\ g.at = Place(l + 1)
      /\ g.len = SecEnd(h) - Addr(l + 1) /\ g.addr + g.len = SecEnd(h)
  BY <1>1, <1>2, <1>3, SpanFacts DEF End
<1>6. w \in Seg /\ w.addr = Addr(f) /\ w.at = Place(f) /\ w.own = <<>> /\ w.len = SecEnd(h) - Addr(f)
  BY <1>1, <1>2, <1>3, SpanFacts
<1>7. /\ m.addr \in Nat /\ m.at \in Nat \ {0} /\ m.len \in Nat /\ g.addr \in Nat /\ g.at \in Nat /\ g.len \in Nat
      /\ m.at # 0
  <2>1. Place(f) # 0 /\ Place(f) \in Nat
    BY SectionFacts
  <2>2. QED
    BY <1>4, <1>5, <2>1 DEF Seg
<1>8. PICK d \in Nat : d = gap /\ g.at = m.at + m.len + d /\ g.addr = m.addr + m.len + d
  BY <1>1, <1>4, <1>5, <1>7, Between
<1>9. w.len = m.len + d + g.len
  <2>1. PICK a \in Nat, n \in Nat, b \in Nat, k \in Nat : a = m.addr /\ n = m.len /\ b = g.addr /\ k = g.len
    BY <1>7
  <2>2. b + k = SecEnd(h) /\ a = Addr(f) /\ b = a + n + d
    BY <1>4, <1>5, <1>8, <2>1
  <2>3. w.len = (b + k) - a
    BY <1>6, <2>2
  <2>4. (b + k) - a = n + d + k
    BY <2>2, SMTT(30)
  <2>5. QED
    BY <2>1, <2>3, <2>4
<1>10. /\ j.buf \in Seq(Nat) /\ Len(j.buf) = Len(buf)
       /\ j.seg \in Seg /\ j.seg.addr = m.addr /\ j.seg.at = m.at /\ j.seg.len = m.len + d + g.len /\ j.seg.own = m.own
       /\ AlikeOutside(j.buf, buf, m.at + m.len, g.at - 1)
  <2>1. m \in Seg /\ Fits(Len(buf), m) /\ g \in Seg /\ Fits(Len(buf), g) /\ j = Joined(buf, m, g, d) /\ Behind(m, g, d)
    BY <1>3, <1>4, <1>5, <1>8 DEF Behind
  <2>2. QED
    BY <1>7, <2>1, JoinedViews, SMTT(30)
<1>11. Intact(j.buf)
  <2>1. AlikeOutside(j.buf, buf, PlaceEnd(l), Place(l + 1) - 1)
    BY <1>4, <1>5, <1>10
  <2>2. QED
    BY <1>1, <2>1, IntactOutside
<1>12. j.seg = w
  BY <1>4, <1>6, <1>9, <1>10, SameSegment
<1>13. QED
  BY <1>1, <1>3, <1>10, <1>11, <1>12

\* The sections from lo + 1 to hi are all in flash, or all in RAM.
Window(lo, hi) ==
  lo \in Nat /\ hi \in Nat /\ lo <= hi /\ lo + 1..hi \subseteq Sections /\ \A s, t \in lo + 1..hi : SameWindow(s, t)

\* Segment i is the view of the sections from c[i - 1] + 1 to c[i].
IsCut(c, out, lo, h) ==
  /\ c \in [0..Len(out) -> Nat] /\ c[0] = lo /\ c[Len(out)] = h
  /\ \A i \in 1..Len(out) : /\ lo <= c[i - 1] /\ c[i - 1] < c[i] /\ c[i] <= h
                            /\ Rigid(c[i - 1] + 1, c[i]) /\ out[i] = Span(c[i - 1] + 1, c[i])

Close(s, align) == Addr(s + 1) <= SecEnd(s) + Missing(SecEnd(s), align)
Parted(c, n, align) == \A i \in 1..n : i < n => ~ Close(c[i], align)

IsMerged(acc, lo, h, align) ==
  /\ acc \in [buf : Seq(Nat), out : Seq(Seg)] /\ Len(acc.buf) = Len(elf) /\ Intact(acc.buf)
  /\ \E c : IsCut(c, acc.out, lo, h) /\ Parted(c, Len(acc.out), align)

LEMMA SpanOf ==
  ASSUME FileSound, NEW lo, NEW hi, Window(lo, hi), NEW f \in Nat, NEW l \in Nat, lo < f, f <= l, l <= hi, Rigid(f, l)
  PROVE  /\ f \in Sections /\ l \in Sections /\ SameWindow(f, l)
         /\ Span(f, l) \in Seg /\ Span(f, l).addr = Addr(f) /\ End(Span(f, l)) = SecEnd(l)
<1>1. f \in lo + 1..hi /\ l \in lo + 1..hi
  BY DEF Window
<1>2. f \in Sections /\ l \in Sections /\ SameWindow(f, l)
  BY <1>1 DEF Window
<1>3. QED
  BY <1>2, SpanFacts

\* The next row becomes a segment of its own.
LEMMA CutAppended ==
  ASSUME NEW lo \in Nat, NEW l \in Nat, NEW h \in Nat, lo <= l, l < h, Rigid(l + 1, h),
         NEW out \in Seq(Seg), NEW c, IsCut(c, out, lo, l), NEW align, Parted(c, Len(out), align),
         out # <<>> => ~ Close(l, align), NEW new, new = Append(out, Span(l + 1, h))
  PROVE  \E d : IsCut(d, new, lo, h) /\ Parted(d, Len(new), align)
<1>1. PICK n \in Nat : n = Len(out)
  OBVIOUS
<1>2. Len(new) = n + 1 /\ (\A i \in 1..n : new[i] = out[i]) /\ new[n + 1] = Span(l + 1, h)
  BY <1>1
<1>3. PICK d : d = [i \in 0..n + 1 |-> IF i = n + 1 THEN h ELSE c[i]]
  OBVIOUS
<1>4. c \in [0..n -> Nat] /\ c[0] = lo /\ c[n] = l
  BY <1>1 DEF IsCut
<1>5. d \in [0..n + 1 -> Nat] /\ d[n + 1] = h /\ \A i \in 0..n : d[i] = c[i]
  BY <1>3, <1>4
<1>6. ASSUME NEW i \in 1..n + 1
      PROVE  /\ lo <= d[i - 1] /\ d[i - 1] < d[i] /\ d[i] <= h
             /\ Rigid(d[i - 1] + 1, d[i]) /\ new[i] = Span(d[i - 1] + 1, d[i])
  <2>1. CASE i = n + 1
    <3>1. i - 1 = n /\ n \in 0..n
      BY <2>1
    <3>2. d[i - 1] = l /\ d[i] = h
      BY <1>4, <1>5, <2>1, <3>1
    <3>3. QED
      BY <1>2, <2>1, <3>2
  <2>2. CASE i # n + 1
    <3>1. i \in 1..n /\ i \in 0..n /\ i - 1 \in 0..n
      BY <2>2
    <3>2. d[i - 1] = c[i - 1] /\ d[i] = c[i] /\ c[i] \in Nat
      BY <1>4, <1>5, <3>1
    <3>3. /\ lo <= c[i - 1] /\ c[i - 1] < c[i] /\ c[i] <= l
          /\ Rigid(c[i - 1] + 1, c[i]) /\ out[i] = Span(c[i - 1] + 1, c[i])
      BY <1>1, <3>1 DEF IsCut
    <3>4. c[i] <= h
      BY <3>2, <3>3
    <3>5. QED
      BY <1>2, <3>1, <3>2, <3>3, <3>4
  <2>3. QED
    BY <2>1, <2>2
<1>7. IsCut(d, new, lo, h)
  <2>1. 0 \in 0..n
    OBVIOUS
  <2>2. d[0] = lo
    BY <1>4, <1>5, <2>1
  <2>3. QED
    BY <1>2, <1>5, <1>6, <2>2 DEF IsCut
<1>8. Parted(d, n + 1, align)
  <2> SUFFICES ASSUME NEW i \in 1..n + 1, i < n + 1 PROVE ~ Close(d[i], align)
    BY DEF Parted
  <2>1. i \in 1..n /\ i \in 0..n /\ d[i] = c[i]
    BY <1>5
  <2>2. CASE i = n
    <3>1. out # <<>>
      BY <1>1, <2>1, <2>2, EmptySeq
    <3>2. QED
      BY <1>4, <2>1, <2>2, <3>1
  <2>3. CASE i # n
    <3>1. i < n
      BY <2>1, <2>3
    <3>2. QED
      BY <1>1, <2>1, <3>1 DEF Parted
  <2>4. QED
    BY <2>2, <2>3
<1>9. QED
  BY <1>2, <1>7, <1>8

\* The next row is joined to the last segment.
LEMMA CutJoined ==
  ASSUME NEW lo \in Nat, NEW l \in Nat, NEW h \in Nat, lo <= l, l < h,
         NEW out \in Seq(Seg), NEW c, IsCut(c, out, lo, l), NEW align, Parted(c, Len(out), align),
         NEW n \in Nat \ {0}, n = Len(out), NEW seg \in Seg, Rigid(c[n - 1] + 1, h), seg = Span(c[n - 1] + 1, h),
         NEW new, new = [out EXCEPT ![n] = seg]
  PROVE  \E d : IsCut(d, new, lo, h) /\ Parted(d, Len(new), align)
<1>1. n \in 1..n /\ DOMAIN out = 1..n
  OBVIOUS
<1>2. Len(new) = n /\ new[n] = seg /\ \A i \in 1..n : i # n => new[i] = out[i]
  <2>1. new \in Seq(Seg) /\ Len(new) = Len(out)
    BY <1>1, ExceptSeq
  <2>2. QED
    BY <1>1, <2>1
<1>3. PICK d : d = [i \in 0..n |-> IF i = n THEN h ELSE c[i]]
  OBVIOUS
<1>4. c \in [0..n -> Nat] /\ c[0] = lo /\ c[n] = l
  BY DEF IsCut
<1>5. d \in [0..n -> Nat] /\ d[n] = h /\ \A i \in 0..n : i # n => d[i] = c[i]
  BY <1>3, <1>4
<1>6. ASSUME NEW i \in 1..n
      PROVE  /\ lo <= d[i - 1] /\ d[i - 1] < d[i] /\ d[i] <= h
             /\ Rigid(d[i - 1] + 1, d[i]) /\ new[i] = Span(d[i - 1] + 1, d[i])
  <2>1. i \in 0..n /\ i - 1 \in 0..n /\ i - 1 # n
    OBVIOUS
  <2>2. d[i - 1] = c[i - 1] /\ c[i - 1] \in Nat /\ c[i] \in Nat
    BY <1>4, <1>5, <2>1
  <2>3. /\ lo <= c[i - 1] /\ c[i - 1] < c[i] /\ c[i] <= l
        /\ Rigid(c[i - 1] + 1, c[i]) /\ out[i] = Span(c[i - 1] + 1, c[i])
    BY DEF IsCut
  <2>4. CASE i = n
    <3>1. d[i] = h /\ c[i - 1] < h
      BY <1>5, <2>2, <2>3, <2>4
    <3>2. QED
      BY <1>2, <2>2, <2>3, <2>4, <3>1
  <2>5. CASE i # n
    <3>1. d[i] = c[i] /\ c[i] <= h
      BY <1>5, <2>1, <2>2, <2>3, <2>5
    <3>2. QED
      BY <1>2, <2>2, <2>3, <2>5, <3>1
  <2>6. QED
    BY <2>4, <2>5
<1>7. IsCut(d, new, lo, h)
  <2>1. 0 \in 0..n /\ 0 # n
    OBVIOUS
  <2>2. d[0] = lo
    BY <1>4, <1>5, <2>1
  <2>3. QED
    BY <1>2, <1>5, <1>6, <2>2 DEF IsCut
<1>8. Parted(d, n, align)
  <2> SUFFICES ASSUME NEW i \in 1..n, i < n PROVE ~ Close(d[i], align)
    BY DEF Parted
  <2>1. d[i] = c[i]
    BY <1>5
  <2>2. QED
    BY <2>1 DEF Parted
<1>9. QED
  BY <1>2, <1>7, <1>8

LEMMA CloseIsNear ==
  ASSUME FileSound, NEW l \in Sections, l + 1 \in Sections, NEW align \in Nat \ {0}, align <= Align, Close(l, align)
  PROVE  Addr(l + 1) < SecEnd(l) + Align
<1>1. PICK a \in Nat, e \in Nat, n \in Nat : a = Addr(l + 1) /\ e = SecEnd(l) /\ n = Align
  BY SectionFacts, Amounts
<1>2. PICK m \in 0..align - 1 : m = Missing(e, align)
  BY MissingLess
<1>3. a <= e + m
  BY <1>1, <1>2 DEF Close
<1>4. a < e + n
  BY <1>1, <1>2, <1>3
<1>5. QED
  BY <1>1, <1>4

\* A turn of the loop: the segments so far are rows of the sections up to l, the next
\* one is the row from l + 1 to h.
LEMMA MergeStep ==
  ASSUME FileSound, NEW lo, NEW hi, Window(lo, hi), NEW l \in Nat, NEW h \in Nat, lo <= l, l < h, h <= hi,
         NEW align \in Nat \ {0}, align <= Align, NEW acc, IsMerged(acc, lo, l, align),
         Rigid(l + 1, h), NEW g, g = Span(l + 1, h)
  PROVE  IsMerged(Merge(acc, g, align), lo, h, align)
<1>0. lo \in Nat /\ hi \in Nat
  BY DEF Window
<1>1. PICK c : IsCut(c, acc.out, lo, l) /\ Parted(c, Len(acc.out), align)
  BY DEF IsMerged
<1>2. PICK buf \in Seq(Nat), out \in Seq(Seg) : acc = [buf |-> buf, out |-> out] /\ acc.buf = buf /\ acc.out = out
  BY DEF IsMerged
<1>3. Len(buf) = Len(elf) /\ Intact(buf)
  BY <1>2 DEF IsMerged
<1>4. IsCut(c, out, lo, l) /\ Parted(c, Len(out), align)
  BY <1>1, <1>2
<1>5. g \in Seg /\ g.addr = Addr(l + 1) /\ l + 1 \in Sections /\ h \in Sections
  BY <1>0, SpanOf
<1>6. PICK m, j : m = Last(out) /\ j = Joined(buf, m, g, g.addr - End(m))
  OBVIOUS
<1>7. out # <<>> => /\ Len(out) \in Nat \ {0} /\ l \in Sections /\ c[Len(out) - 1] + 1 \in Sections
                    /\ m = Span(c[Len(out) - 1] + 1, l) /\ End(m) = SecEnd(l)
                    /\ Rigid(c[Len(out) - 1] + 1, l) /\ lo < c[Len(out) - 1] + 1 /\ c[Len(out) - 1] + 1 <= l
                    /\ c[Len(out) - 1] \in Nat
  <2> SUFFICES ASSUME out # <<>>
               PROVE  /\ Len(out) \in Nat \ {0} /\ l \in Sections /\ c[Len(out) - 1] + 1 \in Sections
                      /\ m = Span(c[Len(out) - 1] + 1, l) /\ End(m) = SecEnd(l)
                      /\ Rigid(c[Len(out) - 1] + 1, l) /\ lo < c[Len(out) - 1] + 1 /\ c[Len(out) - 1] + 1 <= l
                      /\ c[Len(out) - 1] \in Nat
    OBVIOUS
  <2>1. PICK n \in Nat \ {0} : n = Len(out)
    BY EmptySeq
  <2>2. n \in 1..n /\ n - 1 \in 0..n
    OBVIOUS
  <2>3. PICK b \in Nat : b = c[n - 1] /\ c[n] = l
    BY <1>4, <2>1, <2>2 DEF IsCut
  <2>4. lo <= b /\ b < l /\ Rigid(b + 1, l) /\ out[n] = Span(b + 1, l)
    BY <1>4, <2>1, <2>2, <2>3 DEF IsCut
  <2>5. m = out[n]
    BY <1>6, <2>1 DEF Last
  <2>6. b + 1 \in Nat /\ lo < b + 1 /\ b + 1 <= l /\ l <= hi
    BY <1>0, <2>4
  <2>7. b + 1 \in Sections /\ l \in Sections /\ End(Span(b + 1, l)) = SecEnd(l)
    BY <2>4, <2>6, SpanOf
  <2>8. QED
    BY <2>1, <2>3, <2>4, <2>5, <2>6, <2>7
<1>8. CASE out # <<>> /\ Close(l, align)
  <2>1. PICK n \in Nat \ {0}, b \in Nat : n = Len(out) /\ b = c[n - 1]
    BY <1>7, <1>8
  <2>2. /\ l \in Sections /\ b + 1 \in Sections /\ m = Span(b + 1, l) /\ End(m) = SecEnd(l)
        /\ Rigid(b + 1, l) /\ lo < b + 1 /\ b + 1 <= l
    BY <1>7, <1>8, <2>1
  <2>3. g.addr <= End(m) + Missing(End(m), align)
    BY <1>5, <1>8, <2>2 DEF Close
  <2>4. Merge(acc, g, align) = [buf |-> j.buf, out |-> [out EXCEPT ![n] = j.seg]]
    BY <1>2, <1>6, <1>8, <2>1, <2>3 DEF Merge
  <2>5. Adjoin(b + 1, l, h)
    <3>1. Addr(l + 1) < SecEnd(l) + Align
      BY <1>5, <1>8, <2>2, CloseIsNear
    <3>2. \A s, t \in b + 1..h : SameWindow(s, t)
      <4>1. b + 1..h \subseteq lo + 1..hi
        BY <1>0, <2>2
      <4>2. QED
        BY <4>1 DEF Window
    <3>3. QED
      BY <2>2, <3>1, <3>2 DEF Adjoin
  <2>6. PICK gap : gap = g.addr - End(m) /\ gap = Addr(l + 1) - SecEnd(l)
    BY <1>5, <2>2
  <2>7. j = Joined(buf, Span(b + 1, l), Span(l + 1, h), gap)
    BY <1>6, <2>2, <2>6
  <2>8. Rigid(b + 1, h) /\ j.seg = Span(b + 1, h) /\ j.buf \in Seq(Nat) /\ Len(j.buf) = Len(elf) /\ Intact(j.buf)
    BY <1>3, <1>5, <2>2, <2>5, <2>6, <2>7, SpanJoined
  <2>9. j.seg \in Seg
    <3>1. b + 1 \in Nat /\ b + 1 <= h
      BY <2>2
    <3>2. QED
      BY <2>2, <2>8, <3>1, SpanOf
  <2>10. PICK new : new = [out EXCEPT ![n] = j.seg]
    OBVIOUS
  <2>11. new \in Seq(Seg)
    <3>1. n \in 1..Len(out)
      BY <2>1
    <3>2. QED
      BY <2>9, <2>10, <3>1, ExceptSeq
  <2>12. \E d : IsCut(d, new, lo, h) /\ Parted(d, Len(new), align)
    <3>1. PICK seg \in Seg : seg = j.seg
      BY <2>9
    <3>2. Rigid(c[n - 1] + 1, h) /\ seg = Span(c[n - 1] + 1, h) /\ new = [out EXCEPT ![n] = seg]
      BY <2>1, <2>8, <2>10, <3>1
    <3>3. QED
      BY <1>0, <1>4, <2>1, <3>2, CutJoined
  <2>13. PICK r : r = Merge(acc, g, align)
    OBVIOUS
  <2>14. r = [buf |-> j.buf, out |-> new]
    BY <2>4, <2>10, <2>13
  <2>15. r \in [buf : Seq(Nat), out : Seq(Seg)] /\ r.buf = j.buf /\ r.out = new
    BY <2>8, <2>11, <2>14
  <2>16. QED
    BY <2>8, <2>12, <2>13, <2>15 DEF IsMerged
<1>9. CASE ~ (out # <<>> /\ Close(l, align))
  <2>1. ~ (out # <<>> /\ g.addr <= End(m) + Missing(End(m), align))
    BY <1>5, <1>7, <1>9 DEF Close
  <2>2. Merge(acc, g, align) = [acc EXCEPT !.out = Append(out, g)]
    BY <1>2, <1>6, <2>1 DEF Merge
  <2>3. PICK r, new : r = Merge(acc, g, align) /\ new = Append(out, g)
    OBVIOUS
  <2>4. r = [buf |-> buf, out |-> new] /\ new \in Seq(Seg)
    <3>1. r = [buf |-> buf, out |-> new]
      BY <1>2, <2>2, <2>3
    <3>2. g \in Seg
      BY <1>5
    <3>3. Append(out, g) \in Seq(Seg)
      BY <3>2, AppendProperties
    <3>4. QED
      BY <2>3, <3>1, <3>3
  <2>5. \E d : IsCut(d, new, lo, h) /\ Parted(d, Len(new), align)
    BY <1>0, <1>4, <1>9, <2>3, CutAppended
  <2>6. r \in [buf : Seq(Nat), out : Seq(Seg)] /\ r.buf = buf /\ r.out = new
    BY <2>4
  <2>7. QED
    BY <1>3, <2>3, <2>5, <2>6 DEF IsMerged
<1>10. QED
  BY <1>8, <1>9

\* mergeSegments of rows of the sections from lo + 1 to hi gives such rows, apart.
LEMMA MergeRows ==
  ASSUME FileSound, NEW lo, NEW hi, Window(lo, hi), NEW align \in Nat \ {0}, align <= Align,
         NEW buf \in Seq(Nat), Len(buf) = Len(elf), Intact(buf),
         NEW segs \in Seq(Segments(Len(buf), 0)), NEW b, IsCut(b, segs, lo, hi)
  PROVE  IsMerged(MergeSegments(buf, segs, align), lo, hi, align)
<1>1. PICK n \in Nat : n = Len(segs)
  OBVIOUS
<1>2. PICK f : /\ f[0] = [buf |-> buf, out |-> <<>>] /\ f[n] = MergeSegments(buf, segs, align)
               /\ \A i \in 1..n : f[i] = Merge(f[i - 1], segs[i], align)
  <2>1. 0 \in Nat
    OBVIOUS
  <2>2. PICK f : /\ f[0] = [buf |-> buf, out |-> <<>>] /\ f[Len(segs)] = MergeSegments(buf, segs, align)
                 /\ \A i \in 1..Len(segs) : f[i] = Merge(f[i - 1], segs[i], align)
    BY <2>1, MergeTurns
  <2>3. QED
    BY <1>1, <2>2
<1>3. lo \in Nat /\ hi \in Nat /\ b \in [0..n -> Nat] /\ b[0] = lo /\ b[n] = hi
  BY <1>1 DEF Window, IsCut
<1> DEFINE S == {i \in Nat : i <= n => lo <= b[i] /\ IsMerged(f[i], lo, b[i], align)}
<1>4. 0 \in S
  <2>1. PICK acc : acc = f[0]
    OBVIOUS
  <2>2. <<>> \in Seq(Seg) /\ Len(<<>>) = 0
    BY EmptySeq
  <2>3. acc \in [buf : Seq(Nat), out : Seq(Seg)] /\ acc.buf = buf /\ acc.out = <<>>
    BY <1>2, <2>1, <2>2
  <2>4. PICK c : c = [i \in 0..0 |-> lo]
    OBVIOUS
  <2>5. c \in [0..0 -> Nat] /\ c[0] = lo
    BY <1>3, <2>4
  <2>6. 1..0 = {}
    OBVIOUS
  <2>7. IsCut(c, <<>>, lo, lo)
    BY <2>2, <2>5, <2>6 DEF IsCut
  <2>8. Parted(c, 0, align)
    BY <2>6 DEF Parted
  <2>9. IsMerged(acc, lo, lo, align)
    BY <2>2, <2>3, <2>7, <2>8 DEF IsMerged
  <2>10. QED
    BY <1>3, <2>1, <2>9
<1>5. ASSUME NEW i \in Nat, i \in S PROVE i + 1 \in S
  <2> SUFFICES ASSUME i + 1 <= n PROVE lo <= b[i + 1] /\ IsMerged(f[i + 1], lo, b[i + 1], align)
    OBVIOUS
  <2>1. i \in 0..n /\ i + 1 \in 0..n /\ i + 1 \in 1..n /\ (i + 1) - 1 = i /\ i <= n
    OBVIOUS
  <2>2. PICK l \in Nat, h \in Nat : l = b[i] /\ h = b[i + 1]
    BY <1>3, <2>1
  <2>3. lo <= l /\ l < h /\ h <= hi /\ Rigid(l + 1, h) /\ segs[i + 1] = Span(l + 1, h)
    BY <1>1, <2>1, <2>2 DEF IsCut
  <2>4. IsMerged(f[i], lo, l, align)
    BY <1>5, <2>1, <2>2
  <2>5. f[i + 1] = Merge(f[i], segs[i + 1], align)
    BY <1>2, <2>1
  <2>6. IsMerged(Merge(f[i], segs[i + 1], align), lo, h, align)
    BY <2>3, <2>4, MergeStep
  <2>7. lo <= h
    BY <1>3, <2>2, <2>3
  <2>8. QED
    BY <2>2, <2>5, <2>6, <2>7
<1>6. Nat \subseteq S
  <2> HIDE DEF S
  <2> QED
    BY <1>4, <1>5, SetInduction
<1>7. IsMerged(f[n], lo, b[n], align)
  BY <1>6
<1>8. QED
  BY <1>2, <1>3, <1>7

\* At first each section is a row.
LEMMA ViewsCut ==
  ASSUME FileSound, NEW lo, NEW hi, Window(lo, hi), NEW segs, segs = SectionViews(lo + 1..hi)
  PROVE  \E b : IsCut(b, segs, lo, hi)
<1>1. PICK n \in Nat : n = hi - lo /\ lo \in Nat /\ hi \in Nat /\ lo + n = hi
  BY DEF Window
<1>2. Cardinality(lo + 1..hi) = n
  <2>1. lo + 1 \in Int /\ hi \in Int
    BY <1>1
  <2>2. Cardinality(lo + 1..hi) = IF lo + 1 > hi THEN 0 ELSE hi - (lo + 1) + 1
    BY <2>1, FS_Interval
  <2>3. QED
    BY <1>1, <2>2
<1>3. ASSUME NEW i \in 1..n PROVE segs[i] = Span(lo + i, lo + i) /\ Rigid(lo + i, lo + i)
  <2>1. Min(lo + 1..hi) = lo + 1
    BY <1>1 DEF Min
  <2>2. PICK j \in Nat : j = lo + i /\ j \in lo + 1..hi /\ (lo + 1) + i - 1 = j
    BY <1>1
  <2>3. segs[i] = View(file.sections[j].addr, file.sections[j].at, file.sections[j].size)
    BY <1>2, <2>1, <2>2 DEF SectionViews
  <2>4. j \in Sections
    BY <2>2 DEF Window
  <2>5. PICK a \in Nat, z \in Nat : a = Addr(j) /\ z = Size(j) /\ SecEnd(j) = a + z
    BY <2>4, SectionFacts
  <2>6. SecEnd(j) - Addr(j) = Size(j)
    BY <2>5
  <2>7. segs[i] = Span(j, j)
    BY <2>3, <2>6 DEF Span, Addr, Place, Size
  <2>8. Rigid(j, j)
    <3>1. Place(j) \in Nat /\ Addr(j) \in Nat
      BY <2>4, SectionFacts
    <3>2. \A s \in j..j : s = j
      BY <2>2
    <3>3. QED
      BY <3>1, <3>2 DEF Rigid
  <2>9. QED
    BY <2>2, <2>7, <2>8
<1>4. PICK b : b = [i \in 0..n |-> lo + i]
  OBVIOUS
<1>5. Len(segs) = n
  <2>1. DOMAIN segs = 1..n
    BY <1>2 DEF SectionViews
  <2>2. segs = [i \in 1..n |-> segs[i]]
    BY <1>2 DEF SectionViews
  <2>3. QED
    BY <2>1, <2>2
<1>6. b \in [0..n -> Nat] /\ b[0] = lo /\ b[n] = hi
  BY <1>1, <1>4
<1>7. ASSUME NEW i \in 1..n
      PROVE  /\ lo <= b[i - 1] /\ b[i - 1] < b[i] /\ b[i] <= hi
             /\ Rigid(b[i - 1] + 1, b[i]) /\ segs[i] = Span(b[i - 1] + 1, b[i])
  <2>1. b[i - 1] = lo + (i - 1) /\ b[i] = lo + i /\ b[i - 1] + 1 = lo + i
    BY <1>1, <1>4
  <2>2. QED
    BY <1>1, <1>3, <2>1
<1>8. QED
  BY <1>5, <1>6, <1>7 DEF IsCut

-----------------------------------------------------------------------------
(* Padding: a row of sections as it is flashed.                             *)

Inside(c, s) == Addr(s) <= c.addr /\ c.addr < SecEnd(s) /\ c.place = Place(s) + (c.addr - Addr(s))

\* Segment p holds the sections from f to l, and less than Align bytes behind them.
Row(p, f, l) ==
  /\ p.addr = Addr(f) /\ SecEnd(l) <= End(p) /\ End(p) < SecEnd(l) + Align /\ p.len % Align = 0
  /\ p.at # 0 => p.at + p.len = PlaceEnd(l)
  /\ \A c \in Cells, s \in f..l : Inside(c, s) => Right(p, c)

LEMMA CellIn == ASSUME FileSound, NEW c \in Cells PROVE \E s \in Sections : Inside(c, s)
  BY CellFacts DEF Inside

LEMMA SectionsOrdered ==
  ASSUME FileSound, NEW s \in Sections, NEW t \in Sections, s <= t, SameWindow(s, t)
  PROVE  Addr(s) <= Addr(t) /\ SecEnd(s) <= SecEnd(t) /\ (s < t => SecEnd(s) <= Addr(t))
<1>1. PICK a \in Nat, b \in Nat, d \in Nat, e \in Nat, y \in Nat, z \in Nat :
        /\ a = Addr(s) /\ b = Addr(t) /\ d = SecEnd(s) /\ e = SecEnd(t) /\ y = Size(s) /\ z = Size(t) /\ d = a + y /\ e = b + z
  BY SectionFacts
<1>2. s \in Nat /\ t \in Nat
  BY SectionFacts
<1>3. CASE s = t
  <2>1. ~ (s < t)
    BY <1>2, <1>3
  <2>2. a <= b /\ d <= e
    BY <1>1, <1>3
  <2>3. QED
    BY <1>1, <2>1, <2>2
<1>4. CASE s < t
  <2>1. d <= b
    BY <1>1, <1>4, SectionOrder
  <2>2. a <= b /\ d <= e
    BY <1>1, <2>1
  <2>3. QED
    BY <1>1, <2>1, <2>2
<1>5. QED
  BY <1>2, <1>3, <1>4

LEMMA CellInRow ==
  ASSUME FileSound, NEW f \in Sections, NEW l \in Sections, f <= l, SameWindow(f, l), Rigid(f, l),
         NEW c \in Cells, NEW s \in f..l, Inside(c, s)
  PROVE  /\ Addr(f) <= c.addr /\ c.addr < SecEnd(l) /\ c.place = Place(f) + (c.addr - Addr(f))
         /\ s \in Sections /\ c.place \in Place(s)..PlaceEnd(s) - 1
<1>1. f \in Nat /\ l \in Nat /\ s \in Nat /\ f <= s /\ s <= l
  BY SectionFacts
<1>2. s \in Sections /\ SameWindow(f, s) /\ SameWindow(s, l)
  BY <1>1, Amounts DEF Sections, SameWindow
<1>3. PICK x \in Nat, a \in Nat, p \in Nat, b \in Nat, q \in Nat, z \in Nat, e \in Nat :
        /\ x = c.addr /\ a = Addr(f) /\ p = Place(f) /\ b = Addr(s) /\ q = Place(s) /\ z = Size(s)
        /\ SecEnd(s) = b + z /\ PlaceEnd(s) = q + z /\ e = SecEnd(l)
  <2>1. c.addr \in Nat
    BY CellFacts
  <2>2. QED
    BY <1>2, <2>1, SectionFacts
<1>4. a <= b /\ b + z <= e
  BY <1>1, <1>2, <1>3, SectionsOrdered
<1>5. q - p = b - a
  BY <1>3 DEF Rigid
<1>6. b <= x /\ x < b + z /\ c.place = q + (x - b)
  BY <1>3 DEF Inside
<1>7. a <= x /\ x < e
  BY <1>4, <1>6
<1>8. c.place = p + (x - a) /\ c.place \in q..q + z - 1
  BY <1>5, <1>6
<1>9. QED
  BY <1>2, <1>3, <1>7, <1>8

LEMMA PaddedRow ==
  ASSUME FileSound, NEW f \in Sections, NEW l \in Sections, f <= l, SameWindow(f, l), Rigid(f, l),
         NEW buf \in Seq(Nat), Len(buf) = Len(elf), Intact(buf), NEW g, g = Span(f, l), NEW p, p = Padded(buf, g)
  PROVE  Row(p, f, l)
<1>1. /\ g \in Seg /\ Fits(Len(buf), g) /\ g.addr = Addr(f) /\ g.at = Place(f)
      /\ End(g) = SecEnd(l) /\ g.at + g.len = PlaceEnd(l)
  BY SpanFacts
<1>2. PICK a \in Nat, at \in Nat \ {0}, n \in Nat \ {0} :
        a = g.addr /\ at = g.at /\ n = g.len /\ a = Addr(f) /\ at = Place(f) /\ a + n = SecEnd(l)
  <2>1. Place(f) \in Nat \ {0}
    BY SectionFacts
  <2>2. QED
    BY <1>1, <2>1 DEF Seg, End
<1>3. PICK k \in Nat \ {0} : k = Align
  BY Amounts
<1>4. PICK z \in Nat : z = Missing(n, Align) /\ z < k /\ (n + z) % Align = 0
  <2>1. Missing(n, Align) \in 0..k - 1 /\ (n + Missing(n, Align)) % Align = 0
    BY <1>3, MissingLess, RoundUp
  <2>2. QED
    BY <2>1
<1>5. CASE z = 0
  <2>1. p = g
    BY <1>2, <1>4, <1>5 DEF Padded
  <2>2. End(g) < SecEnd(l) + Align
    BY <1>1, <1>2, <1>3
  <2>3. SecEnd(l) <= End(g)
    BY <1>1, <1>2
  <2>4. g.len % Align = 0
    BY <1>2, <1>4, <1>5
  <2>5. ASSUME NEW c \in Cells, NEW s \in f..l, Inside(c, s) PROVE Right(g, c)
    <3>1. PICK x \in Nat : x = c.addr /\ a <= x /\ c.place = at + (x - a)
      BY <1>2, <2>5, CellInRow, CellFacts
    <3>2. g.at # 0
      BY <1>2
    <3>3. QED
      BY <1>2, <3>1, <3>2 DEF Right
  <2>6. QED
    BY <1>1, <2>1, <2>2, <2>3, <2>4, <2>5 DEF Row
<1>6. CASE z # 0
  <2>1. PICK bytes \in Seq(Nat), zs \in Seq(Nat) :
          bytes = Bytes(buf, g) /\ zs = Zeros(z) /\ Len(bytes) = n /\ Len(zs) = z
    BY <1>1, <1>2, BytesOf, SomeZeros
  <2>2. PICK own : own = bytes \o zs
    OBVIOUS
  <2>3. own \in Seq(Nat) /\ Len(own) = n + z
    <3>1. own \in Seq(Nat) /\ Len(own) = Len(bytes) + Len(zs)
      BY <2>2, Joins
    <3>2. QED
      BY <2>1, <3>1
  <2>4. p = [addr |-> a, at |-> 0, len |-> n + z, own |-> own]
    BY <1>2, <1>4, <1>6, <2>1, <2>2, <2>3 DEF Padded, Own
  <2>5. p.addr = a /\ p.at = 0 /\ p.len = n + z /\ p.own = own
    BY <2>4
  <2>6. ASSUME NEW j \in 1..n PROVE own[j] = buf[at + j - 1]
    <3>1. own[j] = bytes[j]
      BY <2>1, <2>2, <2>6, ConcatProperties
    <3>2. j \in 1..g.len /\ g.at # 0
      BY <1>2
    <3>3. Bytes(buf, g)[j] = buf[g.at + j - 1]
      BY <1>1, <3>2, BytesAt
    <3>4. QED
      BY <1>2, <2>1, <3>1, <3>3
  <2>7. ASSUME NEW c \in Cells, NEW s \in f..l, Inside(c, s) PROVE Right(p, c)
    <3>0. PICK x \in Nat : x = c.addr
      BY CellFacts
    <3>1. a <= x /\ x < a + n /\ c.place = at + (x - a)
      <4>1. Addr(f) <= c.addr /\ c.addr < SecEnd(l) /\ c.place = Place(f) + (c.addr - Addr(f))
        BY <2>7, CellInRow
      <4>2. QED
        BY <1>2, <3>0, <4>1
    <3>2. buf[c.place] = c.place
      BY <2>7, CellInRow DEF Intact
    <3>3. PICK j \in 1..n : j = x - a + 1 /\ at + j - 1 = c.place
      <4>1. x - a + 1 \in 1..n
        BY <3>1
      <4>2. at + (x - a + 1) - 1 = at + (x - a)
        OBVIOUS
      <4>3. QED
        BY <3>1, <4>1, <4>2
    <3>4. own[j] = c.place
      BY <2>6, <3>2, <3>3
    <3>5. QED
      BY <2>5, <3>0, <3>3, <3>4 DEF Right
  <2>8. SecEnd(l) <= End(p) /\ End(p) < SecEnd(l) + Align
    <3>1. End(p) = a + (n + z)
      BY <2>5 DEF End
    <3>2. PICK e \in Nat : e = a + n
      OBVIOUS
    <3>3. a + (n + z) = e + z
      BY <3>2
    <3>4. e <= e + z /\ e + z < e + k
      BY <1>4
    <3>5. QED
      BY <1>2, <1>3, <3>1, <3>2, <3>3, <3>4
  <2>9. p.len % Align = 0 /\ p.addr = Addr(f)
    BY <1>2, <1>4, <2>5
  <2>10. QED
    BY <2>5, <2>7, <2>8, <2>9 DEF Row
<1>7. QED
  BY <1>5, <1>6

-----------------------------------------------------------------------------
(* A queue of rows.                                                         *)

LEMMA CutRow ==
  ASSUME FileSound, NEW lo, NEW hi, Window(lo, hi), NEW out, NEW c, IsCut(c, out, lo, hi), NEW i \in 1..Len(out)
  PROVE  \E f \in Sections, l \in Sections :
           /\ f = c[i - 1] + 1 /\ l = c[i] /\ f <= l /\ lo < f /\ l <= hi
           /\ SameWindow(f, l) /\ Rigid(f, l) /\ out[i] = Span(f, l)
<1>1. lo \in Nat /\ hi \in Nat /\ c \in [0..Len(out) -> Nat]
  BY DEF Window, IsCut
<1>2. i \in 0..Len(out) /\ i - 1 \in 0..Len(out)
  OBVIOUS
<1>3. PICK b \in Nat, l \in Nat : b = c[i - 1] /\ l = c[i]
  BY <1>1, <1>2
<1>4. lo <= b /\ b < l /\ l <= hi /\ Rigid(b + 1, l) /\ out[i] = Span(b + 1, l)
  BY <1>3 DEF IsCut
<1>5. b + 1 \in Nat /\ lo < b + 1 /\ b + 1 <= l
  BY <1>1, <1>4
<1>6. b + 1 \in Sections /\ l \in Sections /\ SameWindow(b + 1, l)
  BY <1>4, <1>5, SpanOf
<1>7. QED
  BY <1>3, <1>4, <1>5, <1>6

LEMMA CutGrows ==
  ASSUME NEW lo, NEW hi, NEW out, NEW n \in Nat, n = Len(out), NEW c, IsCut(c, out, lo, hi),
         NEW i \in 0..n, NEW j \in 0..n, i <= j
  PROVE  c[i] <= c[j]
<1>1. c \in [0..n -> Nat] /\ \A k \in 1..n : c[k - 1] < c[k]
  BY DEF IsCut
<1> DEFINE S == {k \in Nat : k <= n => \A m \in 0..k : c[m] <= c[k]}
<1>2. 0 \in S
  <2>1. c[0] \in Nat
    BY <1>1
  <2>2. \A m \in 0..0 : m = 0
    OBVIOUS
  <2>3. QED
    BY <2>1, <2>2
<1>3. ASSUME NEW k \in Nat, k \in S PROVE k + 1 \in S
  <2> SUFFICES ASSUME k + 1 <= n, NEW m \in 0..k + 1 PROVE c[m] <= c[k + 1]
    OBVIOUS
  <2>1. k \in 0..n /\ k + 1 \in 0..n /\ m \in 0..n /\ k + 1 \in 1..n /\ (k + 1) - 1 = k
    OBVIOUS
  <2>2. c[k] \in Nat /\ c[k + 1] \in Nat /\ c[m] \in Nat /\ c[k] < c[k + 1]
    BY <1>1, <2>1
  <2>3. CASE m = k + 1
    BY <2>2, <2>3
  <2>4. CASE m # k + 1
    <3>1. m \in 0..k /\ k <= n
      BY <2>4
    <3>2. c[m] <= c[k]
      BY <1>3, <3>1
    <3>3. QED
      BY <2>2, <3>2
  <2>5. QED
    BY <2>3, <2>4
<1>4. Nat \subseteq S
  <2> HIDE DEF S
  <2> QED
    BY <1>2, <1>3, SetInduction
<1>5. j \in S /\ j <= n /\ i \in 0..j
  BY <1>4
<1>6. QED
  BY <1>5

LEMMA RowOf ==
  ASSUME NEW lo \in Nat, NEW hi \in Nat, NEW out, NEW n \in Nat, n = Len(out), NEW c, IsCut(c, out, lo, hi),
         NEW s \in lo + 1..hi
  PROVE  \E k \in 1..n : c[k - 1] < s /\ s <= c[k]
<1>1. c \in [0..n -> Nat] /\ c[0] = lo /\ c[n] = hi
  BY DEF IsCut
<1> DEFINE S == {i \in Nat : i <= n => (s <= c[i] => \E k \in 1..i : c[k - 1] < s /\ s <= c[k])}
<1>2. 0 \in S
  <2>1. ~ (s <= c[0])
    BY <1>1
  <2>2. QED
    BY <2>1
<1>3. ASSUME NEW i \in Nat, i \in S PROVE i + 1 \in S
  <2> SUFFICES ASSUME i + 1 <= n, s <= c[i + 1] PROVE \E k \in 1..i + 1 : c[k - 1] < s /\ s <= c[k]
    OBVIOUS
  <2>1. i <= n /\ i \in 0..n /\ i + 1 \in 1..i + 1 /\ (i + 1) - 1 = i
    OBVIOUS
  <2>2. CASE s <= c[i]
    <3>1. PICK k \in 1..i : c[k - 1] < s /\ s <= c[k]
      BY <1>3, <2>1, <2>2
    <3>2. k \in 1..i + 1
      OBVIOUS
    <3>3. QED
      BY <3>1, <3>2
  <2>3. CASE ~ (s <= c[i])
    <3>1. c[i] < s
      BY <1>1, <2>1, <2>3
    <3>2. QED
      BY <2>1, <3>1
  <2>4. QED
    BY <2>2, <2>3
<1>4. Nat \subseteq S
  <2> HIDE DEF S
  <2> QED
    BY <1>2, <1>3, SetInduction
<1>5. n \in S /\ s <= c[n]
  BY <1>1, <1>4
<1>6. QED
  BY <1>5

Rows(q, c, n) == q \in Seq(Seg) /\ Len(q) = n /\ \A i \in 1..n : Row(q[i], c[i - 1] + 1, c[i])

\* Each byte is in the row of its section.
LEMMA RowsPend ==
  ASSUME FileSound, NEW lo, NEW hi, Window(lo, hi), NEW out, NEW n \in Nat, n = Len(out), NEW c, IsCut(c, out, lo, hi),
         NEW q, Rows(q, c, n), NEW x \in Cells, NEW s \in lo + 1..hi, Inside(x, s)
  PROVE  \E k \in 1..n : s <= c[k] /\ Has(q[k], x.addr)
<1>1. lo \in Nat /\ hi \in Nat
  BY DEF Window
<1>2. PICK k \in 1..n : c[k - 1] < s /\ s <= c[k]
  BY <1>1, RowOf
<1>3. PICK f \in Sections, l \in Sections : f = c[k - 1] + 1 /\ l = c[k] /\ f <= l /\ SameWindow(f, l) /\ Rigid(f, l)
  BY CutRow
<1>4. s \in f..l
  <2>1. f \in Nat /\ l \in Nat /\ c[k - 1] \in Nat
    <3>1. k - 1 \in 0..n
      OBVIOUS
    <3>2. QED
      BY <1>3, <3>1, SectionFacts DEF IsCut
  <2>2. QED
    BY <1>1, <1>2, <1>3, <2>1
<1>5. Addr(f) <= x.addr /\ x.addr < SecEnd(l)
  BY <1>3, <1>4, CellInRow
<1>6. Row(q[k], f, l) /\ q[k] \in Seg
  BY <1>3, ElementOfSeq DEF Rows
<1>7. PICK y \in Nat, a \in Nat, e \in Nat, z \in Nat : y = x.addr /\ a = Addr(f) /\ e = SecEnd(l) /\ z = End(q[k])
  <2>1. End(q[k]) \in Nat
    BY <1>6 DEF End, Seg
  <2>2. QED
    BY <2>1, CellFacts, SectionFacts
<1>8. q[k].addr = a /\ e <= z
  BY <1>6, <1>7 DEF Row
<1>9. Has(q[k], y)
  BY <1>5, <1>7, <1>8 DEF Has
<1>10. QED
  BY <1>2, <1>7, <1>9

\* From its address on, a row holds its own sections and later ones only.
LEMMA RowsRight ==
  ASSUME FileSound, NEW lo, NEW hi, Window(lo, hi), NEW out, NEW n \in Nat, n = Len(out), NEW c, IsCut(c, out, lo, hi),
         NEW q, Rows(q, c, n), NEW x \in Cells, NEW s \in lo + 1..hi, Inside(x, s), NEW i \in 1..n, q[i].addr <= x.addr
  PROVE  s <= c[i] => Right(q[i], x) /\ x.addr < SecEnd(c[i])
<1> SUFFICES ASSUME s <= c[i] PROVE Right(q[i], x) /\ x.addr < SecEnd(c[i])
  OBVIOUS
<1>1. lo \in Nat /\ hi \in Nat /\ s \in Sections
  BY DEF Window
<1>2. PICK f \in Sections, l \in Sections : f = c[i - 1] + 1 /\ l = c[i] /\ f <= l /\ SameWindow(f, l) /\ Rigid(f, l)
                                            /\ lo < f /\ l <= hi
  BY CutRow
<1>3. Row(q[i], f, l)
  BY <1>2 DEF Rows
<1>4. f \in Nat /\ l \in Nat /\ s \in Nat /\ f \in lo + 1..hi
  <2>1. f \in Nat /\ l \in Nat /\ s \in Nat
    BY <1>1, SectionFacts
  <2>2. QED
    BY <1>1, <1>2, <2>1
<1>5. PICK y \in Nat, a \in Nat, e \in Nat : y = x.addr /\ a = Addr(f) /\ e = SecEnd(s)
  BY <1>1, CellFacts, SectionFacts
<1>6. f <= s
  <2> SUFFICES ASSUME s < f PROVE FALSE
    BY <1>4
  <2>1. SameWindow(s, f)
    BY <1>4 DEF Window
  <2>2. e <= a
    BY <1>1, <1>5, <2>1, SectionOrder
  <2>3. a <= y
    BY <1>3, <1>5 DEF Row
  <2>4. y < e
    BY <1>5 DEF Inside
  <2>5. QED
    BY <2>2, <2>3, <2>4
<1>7. s \in f..l
  BY <1>2, <1>4, <1>6
<1>8. Right(q[i], x)
  BY <1>3, <1>7 DEF Row
<1>9. x.addr < SecEnd(l)
  BY <1>2, <1>7, CellInRow
<1>10. QED
  BY <1>2, <1>8, <1>9

\* No section of the other window is near.
Beyond(q, reach, lo, hi) ==
  \A i \in DOMAIN q, x \in Cells, s \in Sections :
    Inside(x, s) /\ s \notin lo + 1..hi => ~ (q[i].addr <= x.addr /\ x.addr < End(q[i]) + reach)

LEMMA SegNumbers == ASSUME NEW g \in Seg PROVE g.addr \in Nat /\ End(g) \in Nat /\ g.addr <= End(g)
<1>1. PICK a \in Nat, l \in Nat : a = g.addr /\ l = g.len
  BY DEF Seg
<1>2. End(g) = a + l
  BY <1>1 DEF End
<1>3. QED
  BY <1>1, <1>2

LEMMA RowsLoad ==
  ASSUME FileSound, NEW lo, NEW hi, Window(lo, hi), NEW out, NEW n \in Nat, n = Len(out), NEW c, IsCut(c, out, lo, hi),
         NEW q, Rows(q, c, n), NEW reach \in Nat, Beyond(q, reach, lo, hi)
  PROVE  Carries(q) /\ Tails(q, reach)
<1>1. q \in Seq(Seg) /\ DOMAIN q = 1..n /\ lo \in Nat /\ hi \in Nat
  BY DEF Rows, Window
<1>2. ASSUME NEW i \in 1..n, NEW x \in Cells, q[i].addr <= x.addr, x.addr < End(q[i]) + reach
      PROVE  (Right(q[i], x) /\ x.addr < End(q[i])) \/ Later(q, i, x.addr)
  <2>1. PICK s \in Sections : Inside(x, s)
    BY CellIn
  <2>2. s \in lo + 1..hi
    BY <1>1, <1>2, <2>1 DEF Beyond
  <2>3. CASE s <= c[i]
    <3>1. Right(q[i], x) /\ x.addr < SecEnd(c[i])
      BY <1>2, <2>1, <2>2, <2>3, RowsRight
    <3>2. SecEnd(c[i]) <= End(q[i])
      BY DEF Rows, Row
    <3>3. PICK y \in Nat, e \in Nat, z \in Nat : y = x.addr /\ e = SecEnd(c[i]) /\ z = End(q[i])
      <4>1. c[i] \in Sections
        BY CutRow
      <4>2. q[i] \in Seg
        BY <1>1, ElementOfSeq
      <4>3. QED
        BY <4>1, <4>2, CellFacts, SectionFacts, SegNumbers
    <3>4. y < z
      BY <3>1, <3>2, <3>3
    <3>5. QED
      BY <3>1, <3>3, <3>4
  <2>4. CASE ~ (s <= c[i])
    <3>1. PICK k \in 1..n : s <= c[k] /\ Has(q[k], x.addr)
      BY <2>1, <2>2, RowsPend
    <3>2. i < k
      <4> SUFFICES ASSUME k <= i PROVE FALSE
        OBVIOUS
      <4>1. i \in 0..n /\ k \in 0..n
        OBVIOUS
      <4>2. c[k] <= c[i]
        BY <4>1, CutGrows
      <4>3. c[k] \in Nat /\ c[i] \in Nat
        BY <4>1 DEF IsCut
      <4>4. s \in Nat
        BY <1>1, <2>2
      <4>5. QED
        BY <2>4, <3>1, <4>2, <4>3, <4>4
    <3>3. QED
      BY <1>1, <3>1, <3>2 DEF Later
  <2>5. QED
    BY <2>3, <2>4
<1>3. Carries(q)
  <2> SUFFICES ASSUME NEW i \in 1..n, NEW x \in Cells, Has(q[i], x.addr) PROVE Right(q[i], x) \/ Later(q, i, x.addr)
    BY <1>1 DEF Carries
  <2>1. PICK y \in Nat, z \in Nat : y = x.addr /\ z = End(q[i])
    <3>1. q[i] \in Seg
      BY <1>1, ElementOfSeq
    <3>2. QED
      BY <3>1, CellFacts, SegNumbers
  <2>2. q[i].addr <= y /\ y < z
    BY <2>1 DEF Has
  <2>3. y < z + reach
    BY <2>2
  <2>4. QED
    BY <1>2, <2>1, <2>2, <2>3
<1>4. Tails(q, reach)
  <2> SUFFICES ASSUME NEW i \in 1..n, NEW x \in Cells, End(q[i]) <= x.addr, x.addr < End(q[i]) + reach
               PROVE  Later(q, i, x.addr)
    BY <1>1 DEF Tails
  <2>1. PICK y \in Nat, z \in Nat, a \in Nat : y = x.addr /\ z = End(q[i]) /\ a = q[i].addr /\ a <= z
    <3>1. q[i] \in Seg
      BY <1>1, ElementOfSeq
    <3>2. QED
      BY <3>1, CellFacts, SegNumbers
  <2>2. a <= y /\ ~ (y < z)
    BY <2>1
  <2>3. QED
    BY <1>2, <2>1, <2>2
<1>5. QED
  BY <1>3, <1>4

\* Rows whose neighbours are not near: what they carry does not depend on their order.
Solid(q, reach) ==
  \A i \in DOMAIN q, x \in Cells : q[i].addr <= x.addr /\ x.addr < End(q[i]) + reach =>
                                     Right(q[i], x) /\ x.addr < End(q[i])

Remote(c, n, reach) == \A i \in 1..n : i < n => Addr(c[i] + 1) >= SecEnd(c[i]) + reach + Align - 1

LEMMA RowsSolid ==
  ASSUME FileSound, NEW lo, NEW hi, Window(lo, hi), NEW out, NEW n \in Nat, n = Len(out), NEW c, IsCut(c, out, lo, hi),
         NEW q, Rows(q, c, n), NEW reach \in Nat, Beyond(q, reach, lo, hi), Remote(c, n, reach)
  PROVE  Solid(q, reach)
<1>1. q \in Seq(Seg) /\ DOMAIN q = 1..n /\ lo \in Nat /\ hi \in Nat
  BY DEF Rows, Window
<1> SUFFICES ASSUME NEW i \in 1..n, NEW x \in Cells, q[i].addr <= x.addr, x.addr < End(q[i]) + reach
             PROVE  Right(q[i], x) /\ x.addr < End(q[i])
  BY <1>1 DEF Solid
<1>2. PICK s \in Sections : Inside(x, s)
  BY CellIn
<1>3. s \in lo + 1..hi
  BY <1>1, <1>2 DEF Beyond
<1>4. PICK l \in Sections : l = c[i] /\ l <= hi /\ lo < l
  <2>1. PICK f \in Sections, l \in Sections : l = c[i] /\ l <= hi /\ lo < f /\ f <= l
    BY CutRow
  <2>2. f \in Nat /\ l \in Nat
    BY SectionFacts
  <2>3. QED
    BY <1>1, <2>1, <2>2
<1>5. PICK y \in Nat, e \in Nat, z \in Nat, k \in Nat \ {0} : y = x.addr /\ e = SecEnd(l) /\ z = End(q[i]) /\ k = Align
  <2>1. q[i] \in Seg
    BY <1>1, ElementOfSeq
  <2>2. QED
    BY <2>1, CellFacts, SectionFacts, SegNumbers, Amounts
<1>6. e <= z /\ z < e + k /\ y < z + reach
  BY <1>4, <1>5 DEF Rows, Row
<1>7. s <= l
  <2> SUFFICES ASSUME l < s PROVE FALSE
    <3>1. s \in Nat /\ l \in Nat
      BY SectionFacts
    <3>2. QED
      BY <3>1
  <2>1. s \in Nat /\ l \in Nat /\ s \in lo + 1..hi /\ l + 1 \in lo + 1..hi
    <3>1. s \in Nat /\ l \in Nat
      BY SectionFacts
    <3>2. QED
      BY <1>1, <1>3, <1>4, <3>1
  <2>2. l + 1 \in Sections /\ SameWindow(l + 1, s) /\ l + 1 <= s
    BY <2>1 DEF Window
  <2>3. PICK b \in Nat, d \in Nat : b = Addr(l + 1) /\ d = Addr(s)
    BY <2>2, SectionFacts
  <2>4. b <= d
    BY <2>2, <2>3, SectionsOrdered
  <2>5. d <= y
    BY <1>2, <1>5, <2>3 DEF Inside
  <2>6. i < n
    <3> SUFFICES ASSUME i = n PROVE FALSE
      OBVIOUS
    <3>1. l = hi
      BY <1>4 DEF IsCut
    <3>2. QED
      BY <1>1, <2>1, <3>1
  <2>7. b >= e + reach + k - 1
    BY <1>4, <1>5, <2>3, <2>6 DEF Remote
  <2>8. QED
    BY <1>6, <2>4, <2>5, <2>7
<1>8. Right(q[i], x) /\ x.addr < SecEnd(l)
  BY <1>2, <1>3, <1>4, <1>7, RowsRight
<1>9. y < z
  BY <1>5, <1>6, <1>8
<1>10. QED
  BY <1>5, <1>8, <1>9

-----------------------------------------------------------------------------
(* What Prepare gives.                                                      *)

LEMMA Windows ==
  /\ Window(0, NFlash) /\ 0 + 1..NFlash = FlashSections
  /\ Window(NFlash, NFlash + NRam) /\ NFlash + 1..NFlash + NRam = Sections \ FlashSections
<1>1. NFlash \in Nat /\ NRam \in Nat
  BY Amounts
<1>2. 0 + 1..NFlash = FlashSections /\ NFlash + 1..NFlash + NRam = Sections \ FlashSections
  BY <1>1 DEF Sections, FlashSections
<1>3. Window(0, NFlash)
  BY <1>1 DEF Window, Sections, SameWindow
<1>4. Window(NFlash, NFlash + NRam)
  BY <1>1 DEF Window, Sections, SameWindow
<1>5. QED
  BY <1>2, <1>3, <1>4

LEMMA PaddedRows ==
  ASSUME FileSound, NEW lo, NEW hi, Window(lo, hi), NEW align, NEW acc, IsMerged(acc, lo, hi, align),
         NEW q, q = [i \in DOMAIN acc.out |-> Padded(acc.buf, acc.out[i])]
  PROVE  \E c, out : /\ IsCut(c, out, lo, hi) /\ Parted(c, Len(out), align) /\ Rows(q, c, Len(out)) /\ Len(out) \in Nat
                     /\ \A i \in 1..Len(out) : Fits(Len(elf), q[i])
<1>0. PICK out \in Seq(Seg), buf \in Seq(Nat) : out = acc.out /\ buf = acc.buf
  BY DEF IsMerged
<1>1. PICK c : /\ out = acc.out /\ buf = acc.buf /\ IsCut(c, out, lo, hi) /\ Parted(c, Len(out), align)
               /\ Len(buf) = Len(elf) /\ Intact(buf)
  BY <1>0 DEF IsMerged
<1>2. PICK n \in Nat : n = Len(out) /\ DOMAIN out = 1..n
  OBVIOUS
<1>3. ASSUME NEW i \in 1..n PROVE q[i] \in Seg /\ Fits(Len(elf), q[i]) /\ Row(q[i], c[i - 1] + 1, c[i])
  <2>1. PICK f \in Sections, l \in Sections :
          f = c[i - 1] + 1 /\ l = c[i] /\ f <= l /\ SameWindow(f, l) /\ Rigid(f, l) /\ out[i] = Span(f, l)
    BY <1>1, <1>2, CutRow
  <2>2. PICK g, p : g = Span(f, l) /\ p = Padded(buf, g) /\ p = q[i]
    BY <1>1, <1>2, <2>1
  <2>3. Row(p, f, l)
    BY <1>1, <2>1, <2>2, PaddedRow
  <2>4. g \in Seg /\ Fits(Len(buf), g)
    BY <1>1, <2>1, <2>2, SpanFacts
  <2>5. p \in Seg /\ Fits(Len(buf), p)
    BY <2>2, <2>4, PaddedFits
  <2>6. QED
    BY <1>1, <2>1, <2>2, <2>3, <2>5
<1>4. q \in Seq(Seg) /\ Len(q) = n
  <2>1. q = [i \in 1..n |-> Padded(buf, out[i])]
    BY <1>1, <1>2
  <2>2. q = [i \in 1..n |-> q[i]]
    BY <2>1
  <2>3. PICK r \in [1..n -> Seg] : r = q
    BY <1>3, <2>2
  <2>4. r \in Seq(Seg) /\ Len(r) = n
    BY SMTT(30)
  <2>5. QED
    BY <2>3, <2>4
<1>5. Rows(q, c, n)
  BY <1>3, <1>4 DEF Rows
<1>6. QED
  BY <1>1, <1>2, <1>3, <1>5

\* The first byte of a row is that of its first section.
LEMMA FirstByte ==
  ASSUME FileSound, NEW f \in Sections, NEW l \in Sections, f <= l, NEW p \in Seg, Row(p, f, l),
         NEW buf \in Seq(Nat), Intact(buf), Fits(Len(buf), p)
  PROVE  Bytes(buf, p)[1] = Place(f)
<1>1. PICK a \in Nat, at \in Nat \ {0}, z \in Nat \ {0} : a = Addr(f) /\ at = Place(f) /\ z = Size(f)
                                                       /\ SecEnd(f) = a + z /\ PlaceEnd(f) = at + z
  BY SectionFacts
<1>2. 0 \in 0..Size(f) - 1
  BY <1>1
<1>3. PICK x \in Cells : x = [addr |-> a, place |-> at]
  <2>1. a + 0 = a /\ at + 0 = at
    OBVIOUS
  <2>2. [addr |-> Addr(f) + 0, place |-> Place(f) + 0] \in Cells
    BY <1>2, CellOf
  <2>3. QED
    BY <1>1, <2>1, <2>2
<1>4. x.addr = a /\ x.place = at
  BY <1>3
<1>5. f \in f..l
  <2>1. f \in Nat /\ l \in Nat
    BY SectionFacts
  <2>2. QED
    BY <2>1
<1>6. Inside(x, f)
  BY <1>1, <1>4 DEF Inside
<1>7. Right(p, x) /\ p.addr = a
  BY <1>1, <1>5, <1>6 DEF Row
<1>8. 1 \in 1..p.len
  BY DEF Seg
<1>9. Bytes(buf, p)[1] = IF p.at = 0 THEN p.own[1] ELSE buf[p.at + 1 - 1]
  BY <1>8, BytesAt
<1>10. CASE p.at = 0
  <2>1. a - a + 1 = 1
    OBVIOUS
  <2>2. p.own[1] = at
    BY <1>4, <1>7, <1>10, <2>1 DEF Right
  <2>3. QED
    BY <1>1, <1>9, <1>10, <2>2
<1>11. CASE p.at # 0
  <2>1. PICK b \in Nat : b = p.at
    BY DEF Seg
  <2>2. b + (a - a) = at
    BY <1>4, <1>7, <1>11, <2>1 DEF Right
  <2>3. b = at /\ b + 1 - 1 = at
    BY <2>2
  <2>4. at \in Place(f)..PlaceEnd(f) - 1
    BY <1>1, SMTT(30)
  <2>5. buf[at] = at
    BY <2>4 DEF Intact
  <2>6. QED
    BY <1>1, <1>9, <1>11, <2>1, <2>3, <2>5
<1>12. QED
  BY <1>10, <1>11

\* Where the row with the descriptor is the first already, nothing is swapped.
LEMMA StaysFirst ==
  ASSUME FileSound, NEW out, NEW n \in Nat, n = Len(out), NEW c, IsCut(c, out, 0, NFlash),
         NEW q, Rows(q, c, n), \A i \in 1..n : Fits(Len(elf), q[i]),
         NEW buf \in Seq(Nat), Len(buf) = Len(elf), Intact(buf),
         \A s \in FlashSections : file.descriptor = Place(s) => s = 1
  PROVE  WithDescriptorFirst(buf, q) = q
<1>1. DOMAIN q = 1..n /\ q \in Seq(Seg)
  BY DEF Rows
<1>2. PICK d : d = {i \in DOMAIN q : Bytes(buf, q[i])[1] = file.descriptor}
  OBVIOUS
<1>3. ASSUME NEW i \in d PROVE i = 1
  <2>1. i \in 1..n /\ Bytes(buf, q[i])[1] = file.descriptor
    BY <1>1, <1>2
  <2>2. PICK f \in Sections, l \in Sections : f = c[i - 1] + 1 /\ l = c[i] /\ f <= l /\ 0 < f /\ l <= NFlash
    BY <2>1, CutRow, Windows
  <2>3. q[i] \in Seg /\ Row(q[i], f, l) /\ Fits(Len(buf), q[i])
    BY <1>1, <2>1, <2>2, ElementOfSeq DEF Rows
  <2>4. file.descriptor = Place(f)
    BY <2>1, <2>2, <2>3, FirstByte
  <2>5. f \in FlashSections
    <3>1. f \in Nat /\ l \in Nat /\ NFlash \in Nat
      BY SectionFacts, Amounts
    <3>2. QED
      BY <2>2, <3>1 DEF FlashSections
  <2>6. f = 1
    BY <2>4, <2>5
  <2>7. QED
    <3> SUFFICES ASSUME i # 1 PROVE FALSE
      OBVIOUS
    <3>1. i - 1 \in 1..n /\ i - 1 \in 0..n /\ (i - 1) - 1 \in 0..n
      BY <2>1
    <3>2. 0 <= c[(i - 1) - 1] /\ c[(i - 1) - 1] < c[i - 1]
      BY <3>1 DEF IsCut
    <3>3. c[(i - 1) - 1] \in Nat /\ c[i - 1] \in Nat
      BY <3>1 DEF IsCut
    <3>4. QED
      BY <2>2, <2>6, <3>2, <3>3
<1>4. CASE d = {}
  BY <1>2, <1>4 DEF WithDescriptorFirst
<1>5. CASE d # {}
  <2>1. d = {1} /\ 1 \in DOMAIN q
    BY <1>2, <1>3, <1>5
  <2>2. Min(d) = 1
    BY <2>1 DEF Min
  <2>3. WithDescriptorFirst(buf, q) = [q EXCEPT ![1] = q[1], ![1] = q[1]]
    BY <1>2, <1>5, <2>2 DEF WithDescriptorFirst
  <2>4. [q EXCEPT ![1] = q[1]] = q
    BY <1>1, <2>1
  <2>5. QED
    BY <2>3, <2>4
<1>6. QED
  BY <1>4, <1>5

\* The swap keeps the segments.
SameElements(q, r) ==
  /\ \A i \in DOMAIN r : \E j \in DOMAIN q : r[i] = q[j]
  /\ \A j \in DOMAIN q : \E i \in DOMAIN r : r[i] = q[j]

LEMMA SwapKeeps ==
  ASSUME NEW S, NEW q \in Seq(S), NEW buf, NEW r, r = WithDescriptorFirst(buf, q)
  PROVE  SameElements(q, r)
<1>1. PICK n \in Nat : n = Len(q) /\ DOMAIN q = 1..n
  OBVIOUS
<1>2. PICK d : d = {i \in DOMAIN q : Bytes(buf, q[i])[1] = file.descriptor}
  OBVIOUS
<1>3. CASE d = {}
  <2>1. r = q
    BY <1>2, <1>3 DEF WithDescriptorFirst
  <2>2. QED
    BY <2>1 DEF SameElements
<1>4. CASE d # {}
  <2>1. d \subseteq 1..n
    BY <1>1, <1>2
  <2>2. \E x \in d : \A y \in d : x <= y
    <3>1. d \subseteq Nat
      BY <2>1
    <3>2. QED
      BY <1>4, <3>1, Smallest
  <2>3. Min(d) \in d
    BY <2>2 DEF Min
  <2>4. PICK m \in 1..n : m = Min(d)
    BY <2>1, <2>3
  <2>5. 1 \in 1..n
    BY <2>4
  <2>6. PICK t : t = [q EXCEPT ![1] = q[m]]
    OBVIOUS
  <2>7. r = [t EXCEPT ![m] = q[1]]
    BY <1>2, <1>4, <2>4, <2>6 DEF WithDescriptorFirst
  <2>8. DOMAIN r = 1..n /\ r[m] = q[1] /\ (m # 1 => r[1] = q[m]) /\ \A i \in 1..n : i # 1 /\ i # m => r[i] = q[i]
    BY <1>1, <2>4, <2>5, <2>6, <2>7
  <2>9. ASSUME NEW i \in 1..n PROVE \E j \in 1..n : r[i] = q[j]
    <3>1. CASE i = m
      BY <2>5, <2>8, <3>1
    <3>2. CASE i # m /\ i = 1
      BY <2>4, <2>8, <3>2
    <3>3. CASE i # m /\ i # 1
      BY <2>8, <3>3
    <3>4. QED
      BY <3>1, <3>2, <3>3
  <2>10. ASSUME NEW j \in 1..n PROVE \E i \in 1..n : r[i] = q[j]
    <3>1. CASE j = 1
      BY <2>4, <2>8, <3>1
    <3>2. CASE j # 1 /\ j = m
      BY <2>5, <2>8, <3>2
    <3>3. CASE j # 1 /\ j # m
      BY <2>8, <3>3
    <3>4. QED
      BY <3>1, <3>2, <3>3
  <2>11. DOMAIN r = 1..n /\ DOMAIN q = 1..n
    BY <1>1, <2>8
  <2>12. \A i \in DOMAIN r : \E j \in DOMAIN q : r[i] = q[j]
    BY <2>9, <2>11
  <2>13. \A j \in DOMAIN q : \E i \in DOMAIN r : r[i] = q[j]
    BY <2>10, <2>11
  <2>14. QED
    BY <2>12, <2>13 DEF SameElements
<1>5. QED
  BY <1>3, <1>4

LEMMA SwapLoads ==
  ASSUME FileSound, NEW q \in Seq(Seg), NEW r, SameElements(q, r), NEW reach \in Nat, Solid(q, reach)
  PROVE  Carries(r) /\ Tails(r, reach)
<1>1. \A j \in DOMAIN q : q[j].addr \in Nat /\ End(q[j]) \in Nat /\ q[j].addr <= End(q[j])
  BY ElementOfSeq, SegNumbers
<1>2. Carries(r)
  <2> SUFFICES ASSUME NEW i \in DOMAIN r, NEW x \in Cells, Has(r[i], x.addr) PROVE Right(r[i], x)
    BY DEF Carries
  <2>1. PICK j \in DOMAIN q : r[i] = q[j]
    BY DEF SameElements
  <2>2. PICK y \in Nat, z \in Nat : y = x.addr /\ z = End(q[j])
    BY <1>1, CellFacts
  <2>3. q[j].addr <= y /\ y < z + reach
    BY <2>1, <2>2 DEF Has
  <2>4. QED
    BY <2>1, <2>2, <2>3 DEF Solid
<1>3. Tails(r, reach)
  <2> SUFFICES ASSUME NEW i \in DOMAIN r, NEW x \in Cells, End(r[i]) <= x.addr, x.addr < End(r[i]) + reach
               PROVE  FALSE
    BY DEF Tails
  <2>1. PICK j \in DOMAIN q : r[i] = q[j]
    BY DEF SameElements
  <2>2. PICK y \in Nat, z \in Nat, a \in Nat : y = x.addr /\ z = End(q[j]) /\ a = q[j].addr /\ a <= z
    BY <1>1, CellFacts
  <2>3. a <= y /\ z <= y /\ y < z + reach
    BY <2>1, <2>2
  <2>4. y < z
    BY <2>2, <2>3 DEF Solid
  <2>5. QED
    BY <2>3, <2>4
<1>4. QED
  BY <1>2, <1>3

LEMMA FlashLoads ==
  ASSUME FileSound, Linked, NEW out, NEW n \in Nat, n = Len(out), NEW c, IsCut(c, out, 0, NFlash), Parted(c, n, Align),
         NEW q, Rows(q, c, n), \A i \in 1..n : Fits(Len(elf), q[i]),
         NEW buf \in Seq(Nat), Len(buf) = Len(elf), Intact(buf), NEW r, r = WithDescriptorFirst(buf, q)
  PROVE  /\ EndsAtSection(r) /\ AlignedLengths(r) /\ Carries(r) /\ Tails(r, PageTail)
         /\ \A x \in Cells, s \in FlashSections : Inside(x, s) => Pends(r, x.addr)
<1>1. q \in Seq(Seg) /\ DOMAIN q = 1..n
  BY DEF Rows
<1>2. SameElements(q, r)
  BY <1>1, SwapKeeps
<1>3. ASSUME NEW i \in 1..n
      PROVE  \E l \in FlashSections : l \in Sections /\ l = c[i] /\ SecEnd(l) <= End(q[i]) /\ End(q[i]) < SecEnd(l) + Align
  <2>1. PICK f \in Sections, l \in Sections : l = c[i] /\ l <= NFlash
    BY CutRow, Windows
  <2>2. l \in FlashSections
    <3>1. l \in Nat \ {0}
      BY SectionFacts
    <3>2. QED
      BY <2>1, <3>1, Amounts DEF FlashSections
  <2>3. QED
    BY <2>1, <2>2 DEF Rows, Row
<1>4. EndsAtSection(r) /\ AlignedLengths(r)
  <2>1. ASSUME NEW i \in 1..n
        PROVE  q[i].len % Align = 0 /\ (q[i].at # 0 => \E s \in FlashSections : q[i].at + q[i].len = PlaceEnd(s))
    BY <1>3 DEF Rows, Row
  <2>2. QED
    BY <1>1, <1>2, <2>1 DEF EndsAtSection, AlignedLengths, SameElements
<1>5. ASSUME NEW x \in Cells, NEW s \in FlashSections, Inside(x, s) PROVE Pends(r, x.addr)
  <2>1. s \in 0 + 1..NFlash
    BY Windows
  <2>2. PICK k \in 1..n : Has(q[k], x.addr)
    BY <1>5, <2>1, RowsPend, Windows
  <2>3. QED
    BY <1>1, <1>2, <2>2 DEF SameElements, Pends
<1>6. Beyond(q, PageTail, 0, NFlash)
  <2> SUFFICES ASSUME NEW i \in 1..n, NEW x \in Cells, NEW s \in Sections, Inside(x, s), s \notin FlashSections,
                      x.addr < End(q[i]) + PageTail
               PROVE  FALSE
    BY <1>1, Windows DEF Beyond
  <2>1. PICK l \in FlashSections : l \in Sections /\ End(q[i]) < SecEnd(l) + Align
    BY <1>3
  <2>2. PICK y \in Nat, z \in Nat, e \in Nat, k \in Nat \ {0}, t \in Nat, b \in Nat, a \in Nat :
          /\ y = x.addr /\ z = End(q[i]) /\ e = SecEnd(l) /\ k = Align /\ t = PageTail /\ b = RamBase /\ a = Addr(s)
    <3>1. q[i] \in Seg
      BY <1>1, ElementOfSeq
    <3>2. QED
      BY <2>1, <3>1, SegNumbers, CellFacts, SectionFacts, Amounts
  <2>3. e + t + k - 1 <= b
    BY <2>1, <2>2 DEF Linked
  <2>4. s > NFlash
    BY SectionFacts, Amounts, SMTT(30) DEF FlashSections
  <2>5. b <= a
    BY <2>2, <2>4, SectionFacts
  <2>6. a <= y
    BY <2>2 DEF Inside
  <2>7. z < e + k /\ y < z + t
    BY <2>1, <2>2
  <2>8. QED
    BY <2>3, <2>5, <2>6, <2>7
<1>7. CASE \A s \in FlashSections : file.descriptor = Place(s) => s = 1
  <2>1. r = q
    BY <1>7, StaysFirst
  <2>2. Carries(q) /\ Tails(q, PageTail)
    BY <1>6, RowsLoad, Windows, Amounts
  <2>3. QED
    BY <1>4, <1>5, <2>1, <2>2
<1>8. CASE \A s \in FlashSections : s + 1 \in FlashSections => Near(s) \/ Apart(s)
  <2>1. Remote(c, n, PageTail)
    <3> SUFFICES ASSUME NEW i \in 1..n, i < n PROVE Addr(c[i] + 1) >= SecEnd(c[i]) + PageTail + Align - 1
      BY DEF Remote
    <3>1. PICK s \in FlashSections : s = c[i]
      BY <1>3
    <3>2. s + 1 \in FlashSections
      <4>1. i + 1 \in 1..n /\ (i + 1) - 1 = i
        OBVIOUS
      <4>2. PICK l \in FlashSections : l = c[i + 1]
        BY <1>3, <4>1
      <4>3. c[i] < c[i + 1]
        BY <4>1 DEF IsCut
      <4>4. QED
        BY <3>1, <4>2, <4>3, Amounts DEF FlashSections
    <3>3. ~ Close(s, Align)
      BY <3>1 DEF Parted
    <3>4. Apart(s)
      BY <1>8, <3>2, <3>3 DEF Near, Close
    <3>5. QED
      BY <3>1, <3>4 DEF Apart
  <2>2. Solid(q, PageTail)
    BY <1>6, <2>1, RowsSolid, Windows, Amounts
  <2>3. Carries(r) /\ Tails(r, PageTail)
    BY <1>1, <1>2, <2>2, SwapLoads, Amounts
  <2>4. QED
    BY <1>4, <1>5, <2>3
<1>9. QED
  BY <1>7, <1>8 DEF Linked

LEMMA RamLoads ==
  ASSUME FileSound, Linked, NEW out, NEW n \in Nat, n = Len(out), NEW c, IsCut(c, out, NFlash, NFlash + NRam),
         NEW q, Rows(q, c, n)
  PROVE  /\ Carries(q) /\ Tails(q, Align)
         /\ \A x \in Cells, s \in Sections \ FlashSections : Inside(x, s) => Pends(q, x.addr)
<1>1. q \in Seq(Seg) /\ DOMAIN q = 1..n
  BY DEF Rows
<1>2. Beyond(q, Align, NFlash, NFlash + NRam)
  <2> SUFFICES ASSUME NEW i \in 1..n, NEW x \in Cells, NEW s \in FlashSections, Inside(x, s), q[i].addr <= x.addr
               PROVE  FALSE
    BY <1>1, Windows DEF Beyond
  <2>1. PICK f \in Sections : f = c[i - 1] + 1 /\ NFlash < f
    BY CutRow, Windows
  <2>2. s \in Sections
    BY Amounts DEF Sections, FlashSections
  <2>3. PICK y \in Nat, a \in Nat, b \in Nat, e \in Nat, t \in Nat, k \in Nat \ {0} :
          y = x.addr /\ a = Addr(f) /\ b = RamBase /\ e = SecEnd(s) /\ t = PageTail /\ k = Align
    BY <2>2, CellFacts, SectionFacts, Amounts
  <2>4. q[i].addr = a /\ b <= a
    BY <2>1, <2>3, SectionFacts, Amounts DEF Rows, Row
  <2>5. e + t + k - 1 <= b
    BY <2>3 DEF Linked
  <2>6. y < e /\ a <= y
    BY <2>3, <2>4 DEF Inside
  <2>7. QED
    BY <2>4, <2>5, <2>6
<1>3. Carries(q) /\ Tails(q, Align)
  BY <1>2, RowsLoad, Windows, Amounts
<1>4. ASSUME NEW x \in Cells, NEW s \in Sections \ FlashSections, Inside(x, s) PROVE Pends(q, x.addr)
  <2>1. s \in NFlash + 1..NFlash + NRam
    BY Windows
  <2>2. PICK k \in 1..n : Has(q[k], x.addr)
    BY <1>4, <2>1, RowsPend, Windows
  <2>3. QED
    BY <1>1, <2>2 DEF Pends
<1>5. QED
  BY <1>3, <1>4

\* The sections of one kind, as they are merged and padded.
LEMMA FlashMerged ==
  ASSUME ImgInv, Intact(elf), NEW parsed, parsed = MergeTouching(elf, SectionViews(FlashSections)),
         NEW rom, rom = MergeSegments(parsed.buf, parsed.out, Align)
  PROVE  IsMerged(rom, 0, NFlash, Align)
<1>1. FileSound /\ elf \in Seq(Nat) /\ Align \in Nat \ {0} /\ NFlash \in Nat /\ NRam \in Nat /\ 0 \in Nat
  BY Amounts DEF ImgInv
<1>2. PICK segs : segs = SectionViews(FlashSections)
  OBVIOUS
<1>3. segs \in Seq(Segments(Len(elf), 0))
  <2>1. 0 + NFlash <= NFlash + NRam
    BY <1>1
  <2>2. FlashSections = 0 + 1..0 + NFlash /\ \A i \in FlashSections : file.sections[i].addr >= 0
    <3>1. 0 + NFlash = NFlash
      BY <1>1
    <3>2. ASSUME NEW i \in FlashSections PROVE file.sections[i].addr >= 0
      <4>1. i \in Sections
        BY <1>1 DEF Sections, FlashSections
      <4>2. Addr(i) \in Nat
        BY <1>1, <4>1, SectionFacts
      <4>3. QED
        BY <4>2 DEF Addr
    <3>3. QED
      BY <3>1, <3>2, Windows
  <2>3. QED
    BY <1>1, <1>2, <2>1, <2>2, Views
<1>4. \E b : IsCut(b, segs, 0, NFlash)
  BY <1>1, <1>2, Windows, ViewsCut
<1>5. 1 \in Nat \ {0} /\ 1 <= Align
  BY <1>1
<1>6. parsed = MergeSegments(elf, segs, 1)
  BY <1>2 DEF MergeTouching
<1>7. IsMerged(parsed, 0, NFlash, 1)
  BY <1>1, <1>3, <1>4, <1>5, <1>6, Windows, MergeRows
<1>8. parsed \in Merged(Len(elf), 0)
  BY <1>1, <1>3, <1>6, MergeAll
<1>9. PICK buf \in Seq(Nat), out \in Seq(Segments(Len(elf), 0)) : buf = parsed.buf /\ out = parsed.out /\ Len(buf) = Len(elf)
  BY <1>8 DEF Merged
<1>10. Intact(buf) /\ \E c : IsCut(c, out, 0, NFlash)
  BY <1>7, <1>9 DEF IsMerged
<1>11. out \in Seq(Segments(Len(buf), 0)) /\ Align <= Align /\ rom = MergeSegments(buf, out, Align)
  BY <1>1, <1>9
<1>12. QED
  BY <1>1, <1>9, <1>10, <1>11, Windows, MergeRows

LEMMA Ram ==
  ASSUME ImgInv, NEW buf \in Seq(Nat), Len(buf) = Len(elf), Intact(buf),
         NEW low, low = MergeSegments(buf, SectionViews(Sections \ FlashSections), Align)
  PROVE  IsMerged(low, NFlash, NFlash + NRam, Align)
<1>1. FileSound /\ elf \in Seq(Nat) /\ Align \in Nat \ {0} /\ NFlash \in Nat /\ NRam \in Nat /\ 0 \in Nat
  BY Amounts DEF ImgInv
<1>2. PICK segs, ids : segs = SectionViews(ids) /\ ids = Sections \ FlashSections
  OBVIOUS
<1>3. ids = NFlash + 1..NFlash + NRam
  BY <1>2, Windows
<1>4. segs \in Seq(Segments(Len(elf), 0))
  <2>1. NFlash + NRam <= NFlash + NRam
    BY <1>1
  <2>2. ASSUME NEW i \in ids PROVE file.sections[i].addr >= 0
    <3>1. i \in Sections
      BY <1>2
    <3>2. Addr(i) \in Nat
      BY <1>1, <3>1, SectionFacts
    <3>3. QED
      BY <3>2 DEF Addr
  <2>3. QED
    BY <1>1, <1>2, <1>3, <2>1, <2>2, Views
<1>5. \E b : IsCut(b, segs, NFlash, NFlash + NRam)
  BY <1>1, <1>2, <1>3, Windows, ViewsCut
<1>6. segs \in Seq(Segments(Len(buf), 0)) /\ Align <= Align /\ low = MergeSegments(buf, segs, Align)
  BY <1>1, <1>2, <1>4
<1>7. QED
  BY <1>1, <1>5, <1>6, Windows, MergeRows

\* What the parts of the invariant say of the next state, where the file is the same.
LEMMA QueuesKept ==
  ASSUME UNCHANGED file, NEW q, q = toFlash', NEW r, r = ram'
  PROVE  /\ Cells' = Cells /\ Exposed' = Exposed /\ (Linked' <=> Linked)
         /\ (Carries(q) => Carries(toFlash)') /\ (\A reach \in Nat : Tails(q, reach) => Tails(toFlash, reach)')
         /\ (Carries(r) => Carries(ram)') /\ (\A reach \in Nat : Tails(r, reach) => Tails(ram, reach)')
         /\ (EndsAtSection(q) => EndsAtSection(toFlash)') /\ (AlignedLengths(q) => AlignedLengths(toFlash)')
         /\ \A x : (Pends(q, x) => Pends(toFlash, x)') /\ (Pends(r, x) => Pends(ram, x)')
<1>1. /\ Cells' = Cells /\ Exposed' = Exposed
      /\ \A s : Addr(s)' = Addr(s) /\ Place(s)' = Place(s) /\ SecEnd(s)' = SecEnd(s) /\ PlaceEnd(s)' = PlaceEnd(s)
  BY DEF Cells, Exposed, PlaceEnd, SecEnd, Addr, Place, Size
<1>2. Linked' <=> Linked
  BY DEF Linked, Near, Apart, SecEnd, Addr, Place, Size
<1>3. (Carries(q) => Carries(toFlash)') /\ (Carries(r) => Carries(ram)')
  BY <1>1 DEF Carries, Later
<1>4. \A reach \in Nat : (Tails(q, reach) => Tails(toFlash, reach)') /\ (Tails(r, reach) => Tails(ram, reach)')
  BY <1>1 DEF Tails, Later
<1>5. (EndsAtSection(q) => EndsAtSection(toFlash)') /\ (AlignedLengths(q) => AlignedLengths(toFlash)')
  BY <1>1 DEF EndsAtSection, AlignedLengths
<1>6. \A x : (Pends(q, x) => Pends(toFlash, x)') /\ (Pends(r, x) => Pends(ram, x)')
  BY DEF Pends
<1>7. QED
  BY <1>1, <1>2, <1>3, <1>4, <1>5, <1>6

LEMMA PrepareLoads == ASSUME ImgInv, LoadInv, Prepare PROVE LoadInv'
<1>1. PICK parsed, rom, padded, low :
        /\ parsed = MergeTouching(elf, SectionViews(FlashSections))
        /\ rom = MergeSegments(parsed.buf, parsed.out, Align)
        /\ padded = [i \in DOMAIN rom.out |-> Padded(rom.buf, rom.out[i])]
        /\ low = MergeSegments(rom.buf, SectionViews(Sections \ FlashSections), Align)
  OBVIOUS
<1>2. PICK q, r : q = toFlash' /\ r = ram'
  OBVIOUS
<1>3. /\ ~ built /\ built' = TRUE /\ elf' = low.buf
      /\ r = [i \in DOMAIN low.out |-> Padded(low.buf, low.out[i])]
      /\ q = WithDescriptorFirst(low.buf, padded) /\ UNCHANGED <<file, image, written>>
  BY <1>1, <1>2 DEF Prepare
<1>4. FileSound
  BY DEF ImgInv
<1>5. Intact(elf)
  <2> SUFFICES ASSUME NEW s \in Sections, NEW p \in Place(s)..PlaceEnd(s) - 1 PROVE elf[p] = p
    BY DEF Intact
  <2>1. Place(s) \in Nat \ {0} /\ PlaceEnd(s) \in Nat /\ PlaceEnd(s) - 1 <= Len(elf) /\ Len(elf) \in Nat
    <3>1. Len(elf) \in Nat
      BY DEF ImgInv
    <3>2. QED
      BY <1>4, <3>1, SectionFacts
  <2>2. p \in 1..Len(elf)
    BY <2>1
  <2>3. QED
    BY <1>3, <2>2 DEF LoadInv
<1>6. IsMerged(rom, 0, NFlash, Align)
  BY <1>1, <1>5, FlashMerged
<1>7. rom.buf \in Seq(Nat) /\ Len(rom.buf) = Len(elf) /\ Intact(rom.buf)
  BY <1>6 DEF IsMerged
<1>8. IsMerged(low, NFlash, NFlash + NRam, Align)
  BY <1>1, <1>7, Ram
<1>9. low.buf \in Seq(Nat) /\ Len(low.buf) = Len(elf) /\ Intact(low.buf)
  BY <1>8 DEF IsMerged
<1>10. ASSUME Linked
       PROVE  /\ EndsAtSection(q) /\ AlignedLengths(q) /\ Carries(q) /\ Tails(q, PageTail)
              /\ \A x \in Cells, s \in FlashSections : Inside(x, s) => Pends(q, x.addr)
  <2>1. PICK c, out : /\ IsCut(c, out, 0, NFlash) /\ Parted(c, Len(out), Align) /\ Rows(padded, c, Len(out))
                      /\ Len(out) \in Nat /\ \A i \in 1..Len(out) : Fits(Len(elf), padded[i])
    BY <1>1, <1>4, <1>6, Windows, PaddedRows
  <2>2. PICK n \in Nat : n = Len(out)
    BY <2>1
  <2>3. QED
    BY <1>3, <1>4, <1>9, <1>10, <2>1, <2>2, FlashLoads
<1>11. ASSUME Linked
       PROVE  /\ Carries(r) /\ Tails(r, Align)
              /\ \A x \in Cells, s \in Sections \ FlashSections : Inside(x, s) => Pends(r, x.addr)
  <2>1. PICK c, out : IsCut(c, out, NFlash, NFlash + NRam) /\ Rows(r, c, Len(out)) /\ Len(out) \in Nat
    BY <1>3, <1>4, <1>8, Windows, PaddedRows
  <2>2. PICK n \in Nat : n = Len(out)
    BY <2>1
  <2>3. QED
    BY <1>4, <1>11, <2>1, <2>2, RamLoads
<1>12. Clean(elf)'
  <2>1. ASSUME NEW c \in Cells PROVE elf'[c.place] = c.place
    <3>1. PICK s \in Sections : Place(s) <= c.place /\ c.place < PlaceEnd(s)
      BY <1>4, CellFacts
    <3>2. c.place \in Nat /\ Place(s) \in Nat /\ PlaceEnd(s) \in Nat
      <4>1. c.place \in 1..Len(elf) /\ Len(elf) \in Nat
        BY <1>4, CellFacts DEF ImgInv
      <4>2. Place(s) \in Nat /\ PlaceEnd(s) \in Nat
        BY <1>4, SectionFacts
      <4>3. QED
        BY <4>1, <4>2
    <3>3. c.place \in Place(s)..PlaceEnd(s) - 1
      BY <3>1, <3>2
    <3>4. QED
      BY <1>3, <1>9, <3>3 DEF Intact
  <2>2. Cells' = Cells
    BY <1>2, <1>3, QueuesKept
  <2>3. QED
    BY <2>1, <2>2 DEF Clean
<1>13. ASSUME Linked PROVE Placed'
  <2>1. ASSUME NEW c \in Cells PROVE Pends(toFlash, c.addr)' \/ Pends(ram, c.addr)'
    <3>1. PICK s \in Sections : Inside(c, s)
      BY <1>4, CellIn
    <3>2. CASE s \in FlashSections
      <4>1. Pends(q, c.addr)
        BY <1>10, <1>13, <3>1, <3>2
      <4>2. QED
        BY <1>2, <4>1 DEF Pends
    <3>3. CASE s \notin FlashSections
      <4>1. Pends(r, c.addr)
        BY <1>11, <1>13, <3>1, <3>3
      <4>2. QED
        BY <1>2, <4>1 DEF Pends
    <3>4. QED
      BY <3>2, <3>3
  <2>2. Cells' = Cells
    BY <1>2, <1>3, QueuesKept
  <2>3. QED
    BY <2>1, <2>2 DEF Placed
<1>14. PageTail \in Nat /\ Align \in Nat
  BY Amounts
<1>15. QED
  BY <1>2, <1>3, <1>10, <1>11, <1>12, <1>13, <1>14, QueuesKept DEF LoadInv

LEMMA LoadKept ==
  ASSUME LoadInv, UNCHANGED file
  PROVE  /\ (Linked' <=> Linked)
         /\ built /\ Linked /\ UNCHANGED elf => Clean(elf)'
         /\ built /\ Linked /\ UNCHANGED toFlash =>
              EndsAtSection(toFlash)' /\ AlignedLengths(toFlash)' /\ Carries(toFlash)' /\ Tails(toFlash, PageTail)'
         /\ built /\ Linked /\ UNCHANGED ram => Carries(ram)' /\ Tails(ram, Align)'
         /\ built /\ Linked /\ UNCHANGED <<toFlash, ram, image>> => Placed'
<1>1. Cells' = Cells /\ Exposed' = Exposed /\ (Linked' <=> Linked)
  BY QueuesKept
<1>2. built /\ Linked /\ UNCHANGED elf => Clean(elf)'
  BY <1>1 DEF Clean, LoadInv
<1>3. built /\ Linked /\ UNCHANGED toFlash =>
        EndsAtSection(toFlash)' /\ AlignedLengths(toFlash)' /\ Carries(toFlash)' /\ Tails(toFlash, PageTail)'
  BY QueuesKept, Amounts DEF LoadInv
<1>4. built /\ Linked /\ UNCHANGED ram => Carries(ram)' /\ Tails(ram, Align)'
  BY QueuesKept, Amounts DEF LoadInv
<1>5. ASSUME built, Linked, UNCHANGED <<toFlash, ram, image>> PROVE Placed'
  <2>1. Placed
    BY <1>5 DEF LoadInv
  <2>2. \A x : Covering(x)' = Covering(x) /\ Loaded(x)' = Loaded(x)
    BY <1>5 DEF Covering, Loaded
  <2>3. \A x : (Pends(toFlash, x)' <=> Pends(toFlash, x)) /\ (Pends(ram, x)' <=> Pends(ram, x))
    BY <1>5 DEF Pends
  <2>4. QED
    BY <1>1, <2>1, <2>2, <2>3 DEF Placed
<1>6. QED
  BY <1>1, <1>2, <1>3, <1>4, <1>5

LEMMA LoadInit == ImgInit => LoadInv
<1> SUFFICES ASSUME ImgInit PROVE LoadInv
  OBVIOUS
<1>1. ~ built /\ image = <<>>
  BY DEF ImgInit
<1>2. ImgInv
  BY ImgInitInv
<1>3. PICK k : elf = [i \in 1..k |-> i]
  BY DEF ImgInit
<1>4. DOMAIN elf = 1..Len(elf) /\ DOMAIN elf = 1..k
  <2>1. elf \in Seq(Nat)
    BY <1>2 DEF ImgInv
  <2>2. DOMAIN elf = 1..Len(elf)
    BY <2>1
  <2>3. DOMAIN elf = 1..k
    BY <1>3
  <2>4. QED
    BY <2>2, <2>3
<1>5. \A p \in 1..Len(elf) : elf[p] = p
  BY <1>3, <1>4
<1>6. QED
  BY <1>1, <1>5 DEF LoadInv

LEMMA LoadStep == ImgInv /\ LoadInv /\ [ImgNext]_imgVars => LoadInv'
<1> SUFFICES ASSUME ImgInv, LoadInv, [ImgNext]_imgVars PROVE LoadInv'
  OBVIOUS
<1>1. CASE Prepare
  BY <1>1, PrepareLoads
<1>2. CASE FillWithRam
  <2>1. built
    <3>1. Gap > SegHeader /\ SegHeader \in Nat
      BY <1>2, Amounts DEF FillWithRam
    <3>2. QED
      BY <3>1 DEF Gap
  <2>2. UNCHANGED <<file, elf, built, toFlash>>
    BY <1>2 DEF FillWithRam
  <2>3. Linked => Placed' /\ Carries(ram)' /\ Tails(ram, Align)'
    BY <1>2, FillWithRamLoads
  <2>4. QED
    BY <2>1, <2>2, <2>3, LoadKept DEF LoadInv
<1>3. CASE FillWithZeros
  <2>1. built
    <3>1. Gap > 0
      BY <1>3 DEF FillWithZeros
    <3>2. QED
      BY <3>1 DEF Gap
  <2>2. UNCHANGED <<file, elf, built, toFlash, ram, image>>
    BY <1>3 DEF FillWithZeros
  <2>3. QED
    BY <2>1, <2>2, LoadKept DEF LoadInv
<1>4. CASE SaveFlashSegment
  <2>1. built /\ UNCHANGED <<file, built, ram>>
    BY <1>4 DEF SaveFlashSegment
  <2>2. Linked => /\ Clean(elf)' /\ EndsAtSection(toFlash)' /\ AlignedLengths(toFlash)'
                  /\ Carries(toFlash)' /\ Tails(toFlash, PageTail)' /\ Placed'
    BY <1>4, SaveFlashSegmentLoads
  <2>3. QED
    BY <2>1, <2>2, LoadKept DEF LoadInv
<1>5. CASE SaveRemaining
  <2>1. built /\ UNCHANGED <<file, elf, built, toFlash>>
    BY <1>5 DEF SaveRemaining
  <2>2. Linked => Placed' /\ Carries(ram)' /\ Tails(ram, Align)'
    BY <1>5, SaveRemainingLoads
  <2>3. QED
    BY <2>1, <2>2, LoadKept DEF LoadInv
<1>6. CASE UNCHANGED imgVars
  <2>1. UNCHANGED <<file, elf, built, toFlash, ram, image>>
    BY <1>6 DEF imgVars
  <2>2. CASE built
    BY <2>1, <2>2, LoadKept DEF LoadInv
  <2>3. CASE ~ built
    BY <2>1, <2>3 DEF LoadInv
  <2>4. QED
    BY <2>2, <2>3
<1>7. QED
  BY <1>1, <1>2, <1>3, <1>4, <1>5, <1>6 DEF ImgNext

\* The loader gets every byte of every section of a file that is Linked at its address,
\* whatever was merged, split, padded or moved by BuildAppImage (SectionsLoad).
THEOREM ImageLoads == ImgSpec => []SectionsLoad
<1>1. ImgInit => ImgInv /\ LoadInv
  BY ImgInitInv, LoadInit
<1>2. (ImgInv /\ LoadInv) /\ [ImgNext]_imgVars => (ImgInv /\ LoadInv)'
  BY ImgStep, LoadStep
<1>3. ImgInv /\ LoadInv => SectionsLoad
  BY AllLoaded DEF ImgInv
<1>4. QED
  BY <1>1, <1>2, <1>3, PTL DEF ImgSpec
=============================================================================
