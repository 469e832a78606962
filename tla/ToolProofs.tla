----------------------------- MODULE ToolProofs -----------------------------
(* Proofs about magiskboot: BootImage for any images and files (sizes,      *)
(* formats and edits, as far as the header can describe them), and Ramdisk  *)
(* for any archives, edits and lengths of names and data.                   *)
EXTENDS BootImage, Ramdisk, WellFoundedInduction, SequenceTheorems, TLAPS

(***************************************************************************)
(* Sizes and pages                                                         *)
(***************************************************************************)

Maybe(d) == IsData(d) \/ d = Missing
MaybeAll(f, S) == DOMAIN f = S /\ \A p \in S : Maybe(f[p])

\* Data that is there takes room, a file that is missing takes none.
LEMMA SizeFacts ==
    ASSUME NEW d, Maybe(d)
    PROVE  /\ SizeOf(d) \in Nat /\ (SizeOf(d) = 0 <=> d = Missing) /\ (d # Missing => SizeOf(d) = Size(d))
           /\ d # Missing => IsData(d) /\ Size(d) \in Nat \ {0}
  BY DEF Maybe, IsData, Missing, Data, SizeOf, Size

\* PageAlign goes to the next page, which is where it stays.
LEMMA AlignFacts ==
    ASSUME NEW x \in Nat
    PROVE  PageAlign(x) \in Nat /\ PageAlign(x) >= x /\ PageAlign(PageAlign(x)) = PageAlign(x)
  BY DEF PageAlign, PAGE

\* A header takes whole pages.
LEMMA HdrFacts ==
    ASSUME NEW ver
    PROVE  HdrSpace(ver) \in Nat /\ PageAlign(HdrSpace(ver)) = HdrSpace(ver)
  BY DEF HdrSpace, PageAlign, PAGE

\* The blocks of an image, one after the other.
Chain(bo, h) ==
    /\ bo.kernel = HdrSpace(h.ver)
    /\ bo.ramdisk = PageAlign(bo.kernel + h.size["kernel"])
    /\ bo.second = PageAlign(bo.ramdisk + h.size["ramdisk"])
    /\ bo.extra = PageAlign(bo.second + h.size["second"])
    /\ bo.recovery_dtbo = PageAlign(bo.extra + h.size["extra"])
    /\ bo.dtb = PageAlign(bo.recovery_dtbo + h.size["recovery_dtbo"])
    /\ bo.tail = PageAlign(bo.dtb + h.size["dtb"])

\* What BlockOffset computes.
LEMMA BlockChain ==
    ASSUME NEW h
    PROVE  Chain(BlockOffset(h), h)
  BY DEF BlockOffset, Chain

(***************************************************************************)
(* Where the pieces of a new image are                                     *)
(***************************************************************************)

PieceNames == {"mtk_kernel", "kernel", "kernel_dtb", "mtk_ramdisk", "ramdisk", "second", "extra",
               "recovery_dtbo", "dtb", "trailer", "dhtb", "vbmeta"}

After(w, d, p) == w[p] + SizeOf(d[p])
Padded(w, d, base, p) == IF d[p] = Missing THEN w[p] ELSE FileAlign(After(w, d, p), base)
Layout(w, d, base, space) ==
    /\ w.mtk_kernel = base + space
    /\ w.kernel = After(w, d, "mtk_kernel")
    /\ w.kernel_dtb = After(w, d, "kernel")
    /\ w.mtk_ramdisk = FileAlign(After(w, d, "kernel_dtb"), base)
    /\ w.ramdisk = After(w, d, "mtk_ramdisk")
    /\ w.second = Padded(w, d, base, "ramdisk")
    /\ w.extra = Padded(w, d, base, "second")
    /\ w.recovery_dtbo = Padded(w, d, base, "extra")
    /\ w.dtb = Padded(w, d, base, "recovery_dtbo")
    /\ w.trailer = Padded(w, d, base, "dtb")
    /\ w.dhtb = After(w, d, "trailer")
    /\ w.total = After(w, d, "dhtb")
    /\ w.vbmeta = FileAlign(w.total, base)
    /\ w.end = After(w, d, "vbmeta")

\* What Written computes.
LEMMA WrittenLayout ==
    ASSUME NEW d, NEW base, NEW space
    PROVE  Layout(Written(d, base, space), d, base, space)
<1>. DEFINE w == Written(d, base, space)
<1>1. w.mtk_kernel = base + space
  BY DEF Written, After, Padded
<1>2. w.kernel = After(w, d, "mtk_kernel")
  BY DEF Written, After, Padded
<1>3. w.kernel_dtb = After(w, d, "kernel")
  BY DEF Written, After, Padded
<1>4. w.mtk_ramdisk = FileAlign(After(w, d, "kernel_dtb"), base)
  BY DEF Written, After, Padded
<1>5. w.ramdisk = After(w, d, "mtk_ramdisk")
  BY DEF Written, After, Padded
<1>6. w.second = Padded(w, d, base, "ramdisk")
  BY DEF Written, After, Padded
<1>7. w.extra = Padded(w, d, base, "second")
  BY DEF Written, After, Padded
<1>8. w.recovery_dtbo = Padded(w, d, base, "extra")
  BY DEF Written, After, Padded
<1>9. w.dtb = Padded(w, d, base, "recovery_dtbo")
  BY DEF Written, After, Padded
<1>10. w.trailer = Padded(w, d, base, "dtb")
  BY DEF Written, After, Padded
<1>11. w.dhtb = After(w, d, "trailer")
  BY DEF Written, After, Padded
<1>12. w.total = After(w, d, "dhtb")
  BY DEF Written, After, Padded
<1>13. w.vbmeta = FileAlign(w.total, base)
  BY DEF Written, After, Padded
<1>14. w.end = After(w, d, "vbmeta")
  BY DEF Written, After, Padded
<1>. QED  BY <1>1, <1>2, <1>3, <1>4, <1>5, <1>6, <1>7, <1>8, <1>9, <1>10, <1>11, <1>12, <1>13, <1>14 DEF Layout

\* Each piece begins where the one before it has ended, or later.
Rising(w, d, base) ==
    /\ \A p \in PieceNames \cup {"total", "end"} : w[p] \in Nat
    /\ base <= w.mtk_kernel
    /\ After(w, d, "mtk_kernel") = w.kernel /\ After(w, d, "kernel") = w.kernel_dtb
    /\ After(w, d, "kernel_dtb") <= w.mtk_ramdisk /\ After(w, d, "mtk_ramdisk") = w.ramdisk
    /\ After(w, d, "ramdisk") <= w.second /\ After(w, d, "second") <= w.extra
    /\ After(w, d, "extra") <= w.recovery_dtbo /\ After(w, d, "recovery_dtbo") <= w.dtb
    /\ After(w, d, "dtb") <= w.trailer /\ After(w, d, "trailer") = w.dhtb
    /\ After(w, d, "dhtb") <= w.vbmeta /\ After(w, d, "vbmeta") = w.end

\* file_align never goes back.
LEMMA FileAlignFacts ==
    ASSUME NEW base \in Nat, NEW x \in Nat, x >= base
    PROVE  FileAlign(x, base) \in Nat /\ FileAlign(x, base) >= x
<1>1. x - base \in Nat
  OBVIOUS
<1>. QED  BY <1>1, AlignFacts DEF FileAlign

\* The pieces of any new image rise.
LEMMA LayoutRises ==
    ASSUME NEW d, MaybeAll(d, PieceNames), NEW base \in Nat, NEW space \in Nat,
           NEW w, Layout(w, d, base, space)
    PROVE  Rising(w, d, base)
<1>. DEFINE Fine(p) == w[p] \in Nat /\ w[p] >= base
<1>1. \A p \in PieceNames : SizeOf(d[p]) \in Nat /\ (d[p] = Missing => SizeOf(d[p]) = 0)
  BY SizeFacts DEF MaybeAll
<1>2. \A p \in PieceNames : Fine(p) => After(w, d, p) \in Nat /\ After(w, d, p) >= w[p]
  BY <1>1 DEF After
<1>3. \A p \in PieceNames : Fine(p) =>
        /\ FileAlign(After(w, d, p), base) \in Nat /\ FileAlign(After(w, d, p), base) >= After(w, d, p)
        /\ Padded(w, d, base, p) \in Nat /\ Padded(w, d, base, p) >= After(w, d, p)
  <2>. SUFFICES ASSUME NEW p \in PieceNames, Fine(p)
                PROVE  /\ FileAlign(After(w, d, p), base) \in Nat
                       /\ FileAlign(After(w, d, p), base) >= After(w, d, p)
                       /\ Padded(w, d, base, p) \in Nat /\ Padded(w, d, base, p) >= After(w, d, p)
    OBVIOUS
  <2>1. After(w, d, p) \in Nat /\ After(w, d, p) >= base
    BY <1>2
  <2>2. FileAlign(After(w, d, p), base) \in Nat /\ FileAlign(After(w, d, p), base) >= After(w, d, p)
    BY <2>1, FileAlignFacts
  <2>. QED  BY <1>1, <2>2 DEF Padded, After
<1>4. Fine("mtk_kernel") /\ Fine("kernel") /\ Fine("kernel_dtb")
  BY <1>2 DEF Layout, PieceNames
<1>5. Fine("mtk_ramdisk") /\ w.mtk_ramdisk >= After(w, d, "kernel_dtb") /\ Fine("ramdisk")
  BY <1>2, <1>3, <1>4 DEF Layout, PieceNames
<1>6. Fine("second") /\ w.second >= After(w, d, "ramdisk")
  BY <1>2, <1>3, <1>5 DEF Layout, PieceNames
<1>7. Fine("extra") /\ w.extra >= After(w, d, "second")
  BY <1>2, <1>3, <1>6 DEF Layout, PieceNames
<1>8. Fine("recovery_dtbo") /\ w.recovery_dtbo >= After(w, d, "extra")
  BY <1>2, <1>3, <1>7 DEF Layout, PieceNames
<1>9. Fine("dtb") /\ w.dtb >= After(w, d, "recovery_dtbo")
  BY <1>2, <1>3, <1>8 DEF Layout, PieceNames
<1>10. Fine("trailer") /\ w.trailer >= After(w, d, "dtb")
  BY <1>2, <1>3, <1>9 DEF Layout, PieceNames
<1>11. Fine("dhtb") /\ w.total \in Nat /\ w.total >= base
  BY <1>2, <1>10 DEF Layout, PieceNames
<1>12. Fine("vbmeta") /\ w.vbmeta >= w.total
  BY <1>11, FileAlignFacts DEF Layout
<1>13. w.end \in Nat
  BY <1>2, <1>12 DEF Layout, PieceNames
<1>. QED  BY <1>4, <1>5, <1>6, <1>7, <1>8, <1>9, <1>10, <1>11, <1>12, <1>13 DEF Rising, Layout, PieceNames

\* The order in which the pieces are written.
Place == [mtk_kernel |-> 1, kernel |-> 2, kernel_dtb |-> 3, mtk_ramdisk |-> 4, ramdisk |-> 5, second |-> 6,
          extra |-> 7, recovery_dtbo |-> 8, dtb |-> 9, trailer |-> 10, dhtb |-> 11, vbmeta |-> 12]

InOrder(w, d) ==
    \A p, q \in PieceNames : Place[p] < Place[q] => After(w, d, p) <= w[q]

\* Every piece has ended where a later one begins.
LEMMA PiecesInOrder ==
    ASSUME NEW d, MaybeAll(d, PieceNames), NEW base \in Nat, NEW w, Rising(w, d, base)
    PROVE  InOrder(w, d)
<1>1. \A x \in PieceNames : w[x] \in Nat /\ After(w, d, x) \in Nat /\ w[x] <= After(w, d, x)
  BY SizeFacts DEF MaybeAll, Rising, After
<1>. DEFINE Later(x) == {y \in PieceNames : Place[x] < Place[y]}
            Below(x) == \A y \in Later(x) : After(w, d, x) <= w[y]
<1>2. Below("vbmeta")
  BY DEF PieceNames, Place
<1>3. Below("dhtb")
  BY <1>1, <1>2 DEF Rising, PieceNames, Place
<1>4. Below("trailer")
  BY <1>1, <1>3 DEF Rising, PieceNames, Place
<1>5. Below("dtb")
  BY <1>1, <1>4 DEF Rising, PieceNames, Place
<1>6. Below("recovery_dtbo")
  BY <1>1, <1>5 DEF Rising, PieceNames, Place
<1>7. Below("extra")
  BY <1>1, <1>6 DEF Rising, PieceNames, Place
<1>8. Below("second")
  BY <1>1, <1>7 DEF Rising, PieceNames, Place
<1>9. Below("ramdisk")
  BY <1>1, <1>8 DEF Rising, PieceNames, Place
<1>10. Below("mtk_ramdisk")
  BY <1>1, <1>9 DEF Rising, PieceNames, Place
<1>11. Below("kernel_dtb")
  BY <1>1, <1>10 DEF Rising, PieceNames, Place
<1>12. Below("kernel")
  BY <1>1, <1>11 DEF Rising, PieceNames, Place
<1>13. Below("mtk_kernel")
  BY <1>1, <1>12 DEF Rising, PieceNames, Place
<1>14. \A x \in PieceNames : Below(x)
  BY <1>2, <1>3, <1>4, <1>5, <1>6, <1>7, <1>8, <1>9, <1>10, <1>11, <1>12, <1>13 DEF PieceNames
<1>. QED  BY <1>14 DEF InOrder

\* What the file holds: at the place of each piece its data, and nothing else.
Holds(at, d, w) ==
    /\ \A p \in PieceNames : d[p] # Missing => w[p] \in DOMAIN at /\ at[w[p]] = d[p]
    /\ \A o \in DOMAIN at : \E p \in PieceNames : d[p] # Missing /\ w[p] = o /\ at[o] = d[p]

\* Contents is that file.
LEMMA ContentsHold ==
    ASSUME NEW d, MaybeAll(d, PieceNames), NEW base \in Nat, NEW w, Rising(w, d, base)
    PROVE  Holds(Contents(d, w), d, w)
<1>. DEFINE there == {p \in DOMAIN d : d[p] # Missing}
            who(o) == CHOOSE p \in there : w[p] = o
            at == [o \in {w[p] : p \in there} |-> d[who(o)]]
<1>1. DOMAIN d = PieceNames
  BY DEF MaybeAll
<1>2. \A p, q \in there : w[p] = w[q] => p = q
  <2>. SUFFICES ASSUME NEW p \in there, NEW q \in there, w[p] = w[q], p # q
                PROVE  FALSE
    OBVIOUS
  <2>1. SizeOf(d[p]) \in Nat \ {0} /\ SizeOf(d[q]) \in Nat \ {0} /\ w[p] \in Nat /\ w[q] \in Nat
    BY <1>1, SizeFacts DEF MaybeAll, Rising
  <2>2. Place[p] < Place[q] \/ Place[q] < Place[p]
    BY <1>1 DEF Place, PieceNames
  <2>3. After(w, d, p) <= w[q] \/ After(w, d, q) <= w[p]
    BY <1>1, <2>2, PiecesInOrder DEF InOrder
  <2>. QED  BY <2>1, <2>3 DEF After
<1>3. \A p \in there : who(w[p]) = p
  BY <1>2
<1>4. Contents(d, w) = at
  BY DEF Contents
<1>. HIDE DEF who
<1>5. Holds(at, d, w)
  BY <1>1, <1>3 DEF Holds
<1>. QED  BY <1>4, <1>5

(***************************************************************************)
(* What is read from the old image                                         *)
(***************************************************************************)

\* Min finds one of the elements.
LEMMA MinFacts ==
    ASSUME NEW T \in SUBSET Nat, T # {}
    PROVE  Min(T) \in T /\ \A y \in T : Min(T) <= y
<1>. DEFINE R == {ss \in Nat \X Nat : ss[1] < ss[2]}
<1>1. IsWellFoundedOn(R, Nat)
  BY NatLessThanWellFounded DEF OpToRel
<1>2. \E x \in T : \A y \in T : ~(<<y, x>> \in R)
  BY <1>1, WFMin
<1>3. \E x \in T : \A y \in T : x <= y
  <2>1. PICK x \in T : \A y \in T : ~(<<y, x>> \in R)
    BY <1>2
  <2>2. ASSUME NEW y \in T
        PROVE  x <= y
    <3>1. x \in Nat /\ y \in Nat /\ <<y, x>> \in Nat \X Nat
      OBVIOUS
    <3>2. ~(y < x)
      BY <2>1, <3>1
    <3>. QED  BY <3>1, <3>2
  <2>. QED  BY <2>2
<1>. QED  BY <1>3 DEF Min

\* ReadAt returns data unless it is asked for nothing.
LEMMA ReadFacts ==
    ASSUME NEW img, \A o \in DOMAIN img.at : IsData(img.at[o]), NEW off, NEW n
    PROVE  Maybe(ReadAt(img, off, n)) /\ (ReadAt(img, off, n) = Missing <=> n = 0)
<1>1. IsData(Garbage) /\ ~IsData(Missing)
  BY DEF Garbage, Missing, Data, IsData
<1>. QED  BY <1>1 DEF ReadAt, Maybe

\* The blocks an image has.
BlocksOf(b, h) ==
    /\ MaybeAll(b.data, Parts)
    /\ b.mtk_kernel \in BOOLEAN /\ b.mtk_ramdisk \in BOOLEAN /\ b.seandroid \in BOOLEAN /\ b.lg_bump \in BOOLEAN
    /\ Maybe(b.avb) /\ (b.avb # Missing => b.avb.what = "vbmeta")
    /\ \A p \in {"second", "extra", "recovery_dtbo", "dtb"} : b.data[p] = Missing <=> h.size[p] = 0
    /\ h.size["kernel"] = 0 => ~b.mtk_kernel /\ b.data["kernel"] = Missing /\ b.data["kernel_dtb"] = Missing
    /\ h.size["ramdisk"] = 0 => ~b.mtk_ramdisk /\ b.data["ramdisk"] = Missing

\* What Parse finds, in any image.
LEMMA ParseFacts ==
    ASSUME NEW img \in BootImages
    PROVE  BlocksOf(Parse(img), img.hdr)
<1>. DEFINE h == img.hdr
            off(p) == PreSize[img.pre] + BlockOffset(h)[p]
            ksz == h.size["kernel"]
            dt == FindDtb(img, off("kernel"), ksz)
            k == Stripped(img, off("kernel"), IF dt > 0 THEN dt ELSE ksz)
            r == Stripped(img, off("ramdisk"), h.size["ramdisk"])
            meta == {o \in DOMAIN img.at : o >= off("tail") /\ img.at[o].what = "vbmeta"}
            b == Parse(img)
<1>1. (\A o \in DOMAIN img.at : o \in Nat /\ IsData(img.at[o])) /\ h.size \in [Blocks -> Nat]
  BY ImageAssumption DEF IsHdr
<1>2. \A o, n : Maybe(ReadAt(img, o, n)) /\ (ReadAt(img, o, n) = Missing <=> n = 0)
  BY <1>1, ReadFacts
<1>3. \A o, n : /\ Maybe(Stripped(img, o, n).data) /\ Stripped(img, o, n).mtk \in BOOLEAN
                /\ n = 0 => ~Stripped(img, o, n).mtk /\ Stripped(img, o, n).data = Missing
  <2>. SUFFICES ASSUME NEW o, NEW n
                PROVE  /\ Maybe(Stripped(img, o, n).data) /\ Stripped(img, o, n).mtk \in BOOLEAN
                       /\ n = 0 => ~Stripped(img, o, n).mtk /\ Stripped(img, o, n).data = Missing
    OBVIOUS
  <2>1. Stripped(img, o, n).mtk = (n > 0 /\ o \in DOMAIN img.at /\ img.at[o].what = "mtk")
    BY DEF Stripped
  <2>2. Stripped(img, o, n).data \in {ReadAt(img, o + 1, n - 1), ReadAt(img, o, n)}
        /\ (~Stripped(img, o, n).mtk => Stripped(img, o, n).data = ReadAt(img, o, n))
    BY DEF Stripped
  <2>3. n = 0 => ~(n > 0)
    OBVIOUS
  <2>. QED  BY <1>2, <2>1, <2>2, <2>3
<1>4. ksz = 0 => dt = 0
  <2>1. PreSize[img.pre] \in Nat
    BY ImageAssumption DEF PreSize
  <2>2. off("kernel") \in Nat
    BY <2>1, BlockChain, HdrFacts DEF Chain
  <2>. HIDE DEF off
  <2>. QED  BY <1>1, <2>2 DEF FindDtb
<1>5. meta # {} => Min(meta) \in meta
  BY <1>1, MinFacts
<1>6. Maybe(b.avb) /\ (b.avb # Missing => b.avb.what = "vbmeta")
  BY <1>1, <1>5 DEF Parse, Maybe
<1>7. MaybeAll(b.data, Parts)
  BY <1>2, <1>3 DEF Parse, Parts, MaybeAll
<1>8. b.mtk_kernel \in BOOLEAN /\ b.mtk_ramdisk \in BOOLEAN /\ b.seandroid \in BOOLEAN /\ b.lg_bump \in BOOLEAN
  BY <1>3 DEF Parse
<1>9. \A p \in {"second", "extra", "recovery_dtbo", "dtb"} : b.data[p] = Missing <=> h.size[p] = 0
  BY <1>2 DEF Parse
<1>10. ksz = 0 => ~b.mtk_kernel /\ b.data["kernel"] = Missing /\ b.data["kernel_dtb"] = Missing
  BY <1>3, <1>4 DEF Parse
<1>11. h.size["ramdisk"] = 0 => ~b.mtk_ramdisk /\ b.data["ramdisk"] = Missing
  BY <1>3 DEF Parse
<1>. QED  BY <1>6, <1>7, <1>8, <1>9, <1>10, <1>11 DEF BlocksOf

(***************************************************************************)
(* The pieces of the new image and the sizes in its header                 *)
(***************************************************************************)

\* The files of the directory are parts the old image has.
FilesFit(part, b) ==
    /\ MaybeAll(part, Parts)
    /\ \A p \in Parts : part[p] # Missing => b.data[p] # Missing /\ Suits(p, part[p])

MisplacedIn(b, part) ==
    \/ \E p \in {"extra", "recovery_dtbo"} : b.data[p] # Missing /\ part[p] = Missing
    \/ b.mtk_ramdisk /\ part["ramdisk"] = Missing
    \/ part["kernel"] = Missing /\ part["kernel_dtb"] # Missing

\* Compression changes the format of data and nothing else.
LEMMA NewDataFacts ==
    ASSUME NEW b, NEW p, NEW f, Maybe(f), NEW skip
    PROVE  /\ Maybe(NewData(b, p, f, skip)) /\ (NewData(b, p, f, skip) = Missing <=> f = Missing)
           /\ NewData(b, p, f, skip).what = f.what
<1>1. ~IsData(Missing)
  BY DEF IsData, Missing, Data
<1>2. ASSUME IsData(f), NEW x
      PROVE  IsData([f EXCEPT !.fmt = x]) /\ [f EXCEPT !.fmt = x].what = f.what
  BY <1>2 DEF IsData
<1>. QED  BY <1>1, <1>2 DEF NewData, Maybe

\* What Pieces makes of an image and of files.
PiecesOf(d, b, img, part, skip) ==
    /\ d.kernel = NewData(b, "kernel", part["kernel"], FALSE)
    /\ d.ramdisk = NewData(b, "ramdisk", part["ramdisk"], skip)
    /\ d.extra = NewData(b, "extra", part["extra"], skip)
    /\ \A p \in {"kernel_dtb", "second", "recovery_dtbo", "dtb"} : d[p] = part[p]
    /\ d.mtk_kernel # Missing <=> b.mtk_kernel
    /\ d.mtk_ramdisk # Missing <=> b.mtk_ramdisk
    /\ \A p \in {"mtk_kernel", "mtk_ramdisk"} : d[p] # Missing => d[p].what = "mtk" /\ SizeOf(d[p]) = 1
    /\ d.trailer # Missing <=> b.seandroid \/ b.lg_bump
    /\ d.trailer # Missing => d.trailer.what = IF b.seandroid THEN "seandroid" ELSE "bump"
    /\ d.dhtb # Missing => img.pre = "dhtb" /\ d.dhtb.what = "ffff"
    /\ d.vbmeta # Missing <=> b.avb # Missing
    /\ b.avb # Missing => d.vbmeta = [b.avb EXCEPT !.v = 3] /\ d.vbmeta.what = "vbmeta"

\* That is what it makes, and all of it is data.
LEMMA PieceFacts ==
    ASSUME NEW img \in BootImages, NEW part, FilesFit(part, Parse(img)), NEW skip
    PROVE  /\ MaybeAll(Pieces(Parse(img), img, part, skip), PieceNames)
           /\ PiecesOf(Pieces(Parse(img), img, part, skip), Parse(img), img, part, skip)
<1>. DEFINE b == Parse(img)
            d == Pieces(b, img, part, skip)
            kd == NewData(b, "kernel", part["kernel"], FALSE)
            rd == NewData(b, "ramdisk", part["ramdisk"], skip)
<1>1. /\ Maybe(b.avb) /\ (b.avb # Missing => b.avb.what = "vbmeta")
      /\ b.mtk_kernel \in BOOLEAN /\ b.mtk_ramdisk \in BOOLEAN /\ b.seandroid \in BOOLEAN /\ b.lg_bump \in BOOLEAN
  BY ParseFacts DEF BlocksOf
<1>2. \A p \in Parts : Maybe(part[p])
  BY DEF FilesFit, MaybeAll
<1>3. \A p \in Parts : \A s : Maybe(NewData(b, p, part[p], s))
  BY <1>2, NewDataFacts
<1>. HIDE DEF b
<1>4. SizeOf(kd) + SizeOf(part["kernel_dtb"]) \in Nat /\ SizeOf(rd) \in Nat
  <2>1. Maybe(kd) /\ Maybe(rd) /\ Maybe(part["kernel_dtb"])
    BY <1>2, <1>3 DEF Parts
  <2>. HIDE DEF kd, rd
  <2>2. SizeOf(kd) \in Nat /\ SizeOf(rd) \in Nat /\ SizeOf(part["kernel_dtb"]) \in Nat
    BY <2>1, SizeFacts
  <2>. QED  BY <2>2
<1>. HIDE DEF kd, rd
<1>5. \A n \in Nat : IsData(MtkHdr(n)) /\ MtkHdr(n).what = "mtk" /\ SizeOf(MtkHdr(n)) = 1 /\ MtkHdr(n) # Missing
  BY DEF MtkHdr, IsData, SizeOf, Size, COMPRESSED_ANY, COMPRESSED, Missing, Data
<1>6. \A what : /\ IsData(Data(what, "raw", 1)) /\ Data(what, "raw", 1).what = what
                /\ Data(what, "raw", 1) # Missing
  BY DEF IsData, Data, Missing
<1>7. b.avb # Missing => /\ IsData(DisableVerification(b.avb)) /\ DisableVerification(b.avb) # Missing
                         /\ DisableVerification(b.avb) = [b.avb EXCEPT !.v = 3]
                         /\ DisableVerification(b.avb).what = "vbmeta"
  <2>. SUFFICES ASSUME b.avb # Missing
                PROVE  /\ IsData(DisableVerification(b.avb)) /\ DisableVerification(b.avb) # Missing
                       /\ DisableVerification(b.avb) = [b.avb EXCEPT !.v = 3]
                       /\ DisableVerification(b.avb).what = "vbmeta"
    OBVIOUS
  <2>1. IsData(b.avb) /\ b.avb.what = "vbmeta"
    BY <1>1 DEF Maybe
  <2>. QED  BY <2>1 DEF IsData, DisableVerification, Missing, Data
<1>8. /\ d.mtk_kernel = IF b.mtk_kernel THEN MtkHdr(SizeOf(kd) + SizeOf(part["kernel_dtb"])) ELSE Missing
      /\ d.mtk_ramdisk = IF b.mtk_ramdisk THEN MtkHdr(SizeOf(rd)) ELSE Missing
      /\ d.kernel = kd /\ d.ramdisk = rd /\ d.extra = NewData(b, "extra", part["extra"], skip)
  BY DEF Pieces, kd, rd
<1>9. /\ d.trailer = IF b.seandroid THEN Data("seandroid", "raw", 1)
                     ELSE IF b.lg_bump THEN Data("bump", "raw", 1) ELSE Missing
      /\ d.dhtb = IF img.pre = "dhtb" THEN Data("ffff", "raw", 1) ELSE Missing
      /\ d.vbmeta = IF b.avb # Missing THEN DisableVerification(b.avb) ELSE Missing
      /\ \A p \in {"kernel_dtb", "second", "recovery_dtbo", "dtb"} : d[p] = part[p]
      /\ DOMAIN d = PieceNames
  BY DEF Pieces, PieceNames
<1>. HIDE DEF d
<1>10. MaybeAll(d, PieceNames)
  <2>1. Maybe(d.mtk_kernel) /\ Maybe(d.mtk_ramdisk) /\ Maybe(d.trailer) /\ Maybe(d.dhtb) /\ Maybe(d.vbmeta)
    BY <1>4, <1>5, <1>6, <1>7, <1>8, <1>9 DEF Maybe
  <2>2. Maybe(d.kernel) /\ Maybe(d.ramdisk) /\ Maybe(d.extra)
    BY <1>3, <1>8 DEF Parts, kd, rd
  <2>3. \A p \in {"kernel_dtb", "second", "recovery_dtbo", "dtb"} : Maybe(d[p])
    BY <1>2, <1>9 DEF Parts
  <2>. QED  BY <1>9, <2>1, <2>2, <2>3 DEF MaybeAll, PieceNames
<1>11. PiecesOf(d, b, img, part, skip)
  <2>1. /\ d.kernel = NewData(b, "kernel", part["kernel"], FALSE)
        /\ d.ramdisk = NewData(b, "ramdisk", part["ramdisk"], skip)
        /\ d.extra = NewData(b, "extra", part["extra"], skip)
    BY <1>8 DEF kd, rd
  <2>2. /\ d.mtk_kernel # Missing <=> b.mtk_kernel
        /\ d.mtk_kernel # Missing => d.mtk_kernel.what = "mtk" /\ SizeOf(d.mtk_kernel) = 1
    BY <1>1, <1>4, <1>5, <1>8
  <2>3. /\ d.mtk_ramdisk # Missing <=> b.mtk_ramdisk
        /\ d.mtk_ramdisk # Missing => d.mtk_ramdisk.what = "mtk" /\ SizeOf(d.mtk_ramdisk) = 1
    BY <1>1, <1>4, <1>5, <1>8
  <2>4. /\ d.trailer # Missing <=> b.seandroid \/ b.lg_bump
        /\ d.trailer # Missing => d.trailer.what = IF b.seandroid THEN "seandroid" ELSE "bump"
        /\ d.dhtb # Missing => img.pre = "dhtb" /\ d.dhtb.what = "ffff"
    BY <1>1, <1>6, <1>9
  <2>5. /\ d.vbmeta # Missing <=> b.avb # Missing
        /\ b.avb # Missing => d.vbmeta = [b.avb EXCEPT !.v = 3] /\ d.vbmeta.what = "vbmeta"
    BY <1>7, <1>9
  <2>. QED  BY <1>9, <2>1, <2>2, <2>3, <2>4, <2>5 DEF PiecesOf
<1>. QED  BY <1>10, <1>11 DEF d, b


\* The size fields describe the pieces.
SizesAgree(size, d) ==
    /\ size["kernel"] = SizeOf(d.mtk_kernel) + SizeOf(d.kernel) + SizeOf(d.kernel_dtb)
    /\ size["ramdisk"] = SizeOf(d.mtk_ramdisk) + SizeOf(d.ramdisk)
    /\ \A p \in {"second", "extra", "recovery_dtbo", "dtb"} : size[p] = SizeOf(d[p])

\* NewSizes does, whether or not the version of the header has the field.
LEMMA SizesFit ==
    ASSUME NEW img \in BootImages, NEW part, FilesFit(part, Parse(img)), ~MisplacedIn(Parse(img), part), NEW skip,
           NEW d, MaybeAll(d, PieceNames), PiecesOf(d, Parse(img), img, part, skip)
    PROVE  SizesAgree(NewSizes(img.hdr, d), d)
<1>. DEFINE b == Parse(img)
            h == img.hdr
            F == FieldsOf[h.ver]
            size == NewSizes(h, d)
<1>1. BlocksOf(b, h)
  BY ParseFacts
<1>2. \A p \in Blocks \ F : h.size[p] = 0
  BY ImageAssumption DEF IsHdr
<1>. HIDE DEF b, h, F
<1>3. \A p \in {"second", "recovery_dtbo", "dtb", "kernel_dtb"} : d[p] = part[p]
  BY DEF PiecesOf
<1>4. \A p \in {"kernel", "ramdisk", "extra"} : d[p] = Missing <=> part[p] = Missing
  <2>1. \A p \in Parts : Maybe(part[p])
    BY DEF FilesFit, MaybeAll
  <2>2. \A p \in Parts : \A s : NewData(b, p, part[p], s) = Missing <=> part[p] = Missing
    BY <2>1, NewDataFacts
  <2>3. PiecesOf(d, b, img, part, skip)
    BY DEF b
  <2>4. \E s \in {FALSE} : d.kernel = NewData(b, "kernel", part["kernel"], s)
    BY <2>3 DEF PiecesOf
  <2>5. /\ d.ramdisk = NewData(b, "ramdisk", part["ramdisk"], skip)
        /\ d.extra = NewData(b, "extra", part["extra"], skip)
    BY <2>3 DEF PiecesOf
  <2>6. d.kernel = Missing <=> part["kernel"] = Missing
    BY <2>2, <2>4 DEF Parts
  <2>7. d.ramdisk = Missing <=> part["ramdisk"] = Missing
    BY <2>2, <2>5 DEF Parts
  <2>8. d.extra = Missing <=> part["extra"] = Missing
    BY <2>2, <2>5 DEF Parts
  <2>. QED  BY <2>6, <2>7, <2>8
<1>5. \A p \in Parts : b.data[p] = Missing => part[p] = Missing
  BY DEF FilesFit, b
<1>6. SizeOf(Missing) = 0 /\ \A p \in PieceNames : d[p] # Missing => SizeOf(d[p]) = Size(d[p])
  BY DEF SizeOf
<1>7. /\ size["kernel"] = IF "kernel" \in F THEN SizeOf(d.mtk_kernel) + SizeOf(d.kernel) + SizeOf(d.kernel_dtb) ELSE 0
      /\ size["ramdisk"] = IF "ramdisk" \in F THEN SizeOf(d.mtk_ramdisk) + SizeOf(d.ramdisk) ELSE 0
      /\ \A p \in {"second", "dtb"} : size[p] = IF p \in F THEN SizeOf(d[p]) ELSE 0
      /\ \A p \in {"extra", "recovery_dtbo"} :
            size[p] = IF p \in F THEN IF d[p] = Missing THEN h.size[p] ELSE Size(d[p]) ELSE 0
  BY DEF NewSizes, Blocks, F
<1>. HIDE DEF size
<1>8. \A p \in {"second", "dtb"} : size[p] = SizeOf(d[p])
  BY <1>1, <1>2, <1>3, <1>5, <1>6, <1>7 DEF BlocksOf, Blocks, Parts
<1>9. \A p \in {"extra", "recovery_dtbo"} : size[p] = SizeOf(d[p])
  <2>. SUFFICES ASSUME NEW p \in {"extra", "recovery_dtbo"}
                PROVE  size[p] = SizeOf(d[p])
    OBVIOUS
  <2>1. d[p] = Missing <=> part[p] = Missing
    BY <1>3, <1>4
  <2>2. b.data[p] = Missing <=> h.size[p] = 0
    BY <1>1 DEF BlocksOf
  <2>3. part[p] = Missing => b.data[p] = Missing
    BY DEF MisplacedIn, b
  <2>4. b.data[p] = Missing => part[p] = Missing
    BY <1>5 DEF Parts
  <2>5. p \notin F => h.size[p] = 0
    BY <1>2 DEF Blocks
  <2>6. p \in PieceNames
    BY DEF PieceNames
  <2>. QED  BY <1>6, <1>7, <2>1, <2>2, <2>3, <2>4, <2>5, <2>6
<1>10. size["kernel"] = SizeOf(d.mtk_kernel) + SizeOf(d.kernel) + SizeOf(d.kernel_dtb)
  <2>1. h.size["kernel"] = 0 => d.mtk_kernel = Missing /\ d.kernel = Missing /\ d.kernel_dtb = Missing
    BY <1>1, <1>3, <1>4, <1>5 DEF BlocksOf, Parts, PiecesOf, b
  <2>2. "kernel" \notin F => h.size["kernel"] = 0
    BY <1>2 DEF Blocks
  <2>. QED  BY <1>6, <1>7, <2>1, <2>2
<1>11. size["ramdisk"] = SizeOf(d.mtk_ramdisk) + SizeOf(d.ramdisk)
  <2>1. h.size["ramdisk"] = 0 => d.mtk_ramdisk = Missing /\ d.ramdisk = Missing
    BY <1>1, <1>4, <1>5 DEF BlocksOf, Parts, PiecesOf, b
  <2>2. "ramdisk" \notin F => h.size["ramdisk"] = 0
    BY <1>2 DEF Blocks
  <2>. QED  BY <1>6, <1>7, <2>1, <2>2
<1>. QED  BY <1>8, <1>9, <1>10, <1>11 DEF SizesAgree, size, h

\* Where the header places a block there the pieces of the block begin.
Agree(w, bo, base) ==
    /\ w.mtk_kernel = base + bo.kernel /\ w.mtk_ramdisk = base + bo.ramdisk
    /\ \A p \in {"second", "extra", "recovery_dtbo", "dtb"} : w[p] = base + bo[p]
    /\ w.trailer = base + bo.tail

Aligned(x) == x \in Nat /\ PageAlign(x) = x

\* Padding the file, counted from the header, is padding the block.
LEMMA PadStep ==
    ASSUME NEW base \in Nat, NEW x, Aligned(x), NEW n \in Nat
    PROVE  /\ FileAlign(base + x + n, base) = base + PageAlign(x + n)
           /\ Aligned(PageAlign(x + n)) /\ PageAlign(x + 0) = x
<1>1. (base + x + n) - base = x + n /\ x + n \in Nat /\ x + 0 = x
  BY DEF Aligned
<1>. QED  BY <1>1, AlignFacts DEF FileAlign, Aligned

\* The pieces of a file and the blocks of its header agree.
LEMMA PiecesInBlocks ==
    ASSUME NEW d, MaybeAll(d, PieceNames), d.ramdisk = Missing => d.mtk_ramdisk = Missing,
           NEW h, SizesAgree(h.size, d), NEW base \in Nat,
           NEW w, Layout(w, d, base, HdrSpace(h.ver)), NEW bo, Chain(bo, h)
    PROVE  Agree(w, bo, base)
<1>1. \A p \in PieceNames : SizeOf(d[p]) \in Nat /\ (d[p] = Missing => SizeOf(d[p]) = 0)
  BY SizeFacts DEF MaybeAll
<1>2. w.mtk_kernel = base + bo.kernel /\ Aligned(bo.kernel)
  BY HdrFacts DEF Layout, Chain, Aligned
<1>. DEFINE ks == h.size["kernel"]
            rs == h.size["ramdisk"]
<1>3. ks \in Nat /\ rs \in Nat
  BY <1>1 DEF SizesAgree, PieceNames
<1>4. w.mtk_ramdisk = base + bo.ramdisk /\ Aligned(bo.ramdisk)
  <2>1. After(w, d, "kernel_dtb") = base + bo.kernel + ks
    BY <1>1, <1>2 DEF Layout, After, SizesAgree, PieceNames, Aligned
  <2>2. w.mtk_ramdisk = FileAlign(base + bo.kernel + ks, base) /\ bo.ramdisk = PageAlign(bo.kernel + ks)
    BY <2>1 DEF Layout, Chain
  <2>. HIDE DEF ks
  <2>. QED  BY <1>2, <1>3, <2>2, PadStep
<1>5. w.second = base + bo.second /\ Aligned(bo.second)
  <2>1. After(w, d, "ramdisk") = base + bo.ramdisk + rs
    BY <1>1, <1>4 DEF Layout, After, SizesAgree, PieceNames, Aligned
  <2>2. bo.second = PageAlign(bo.ramdisk + rs)
    BY DEF Chain
  <2>3. d.ramdisk = Missing => rs = 0 /\ w.second = w.mtk_ramdisk
    BY <1>1, <1>4 DEF Layout, After, Padded, SizesAgree, PieceNames, Aligned
  <2>4. d.ramdisk # Missing => w.second = FileAlign(base + bo.ramdisk + rs, base)
    BY <2>1 DEF Layout, Padded
  <2>. HIDE DEF rs
  <2>. QED  BY <1>3, <1>4, <2>2, <2>3, <2>4, PadStep
<1>6. ASSUME NEW p \in {"second", "extra", "recovery_dtbo", "dtb"}, NEW x, w[p] = base + x, Aligned(x)
      PROVE  Padded(w, d, base, p) = base + PageAlign(x + h.size[p]) /\ Aligned(PageAlign(x + h.size[p]))
  <2>. DEFINE n == h.size[p]
  <2>1. n = SizeOf(d[p]) /\ n \in Nat /\ (d[p] = Missing => n = 0)
    BY <1>1 DEF SizesAgree, PieceNames
  <2>2. Padded(w, d, base, p) = IF d[p] = Missing THEN base + x ELSE FileAlign(base + x + n, base)
    BY <1>6, <2>1 DEF Padded, After
  <2>. HIDE DEF n
  <2>3. Padded(w, d, base, p) = base + PageAlign(x + n) /\ Aligned(PageAlign(x + n))
    BY <1>6, <2>1, <2>2, PadStep
  <2>. QED  BY <2>3 DEF n
<1>7. w.extra = base + bo.extra /\ Aligned(bo.extra)
  BY <1>5, <1>6 DEF Layout, Chain
<1>8. w.recovery_dtbo = base + bo.recovery_dtbo /\ Aligned(bo.recovery_dtbo)
  BY <1>7, <1>6 DEF Layout, Chain
<1>9. w.dtb = base + bo.dtb /\ Aligned(bo.dtb)
  BY <1>8, <1>6 DEF Layout, Chain
<1>10. w.trailer = base + bo.tail
  BY <1>9, <1>6 DEF Layout, Chain
<1>. QED  BY <1>2, <1>4, <1>5, <1>7, <1>8, <1>9, <1>10 DEF Agree


(***************************************************************************)
(* What is read from the new image                                         *)
(***************************************************************************)

\* The new file, but for vbmeta, which the footer may overwrite.
Keeps(at, d, w) ==
    /\ \A p \in PieceNames \ {"vbmeta"} : d[p] # Missing => w[p] \in DOMAIN at /\ at[w[p]] = d[p]
    /\ \A o \in DOMAIN at : \E p \in PieceNames : d[p] # Missing /\ w[p] = o /\ at[o] = d[p]

\* Each piece is recognised for what it is.
Known(d) ==
    /\ \A p \in {"mtk_kernel", "mtk_ramdisk"} : d[p] # Missing => d[p].what = "mtk" /\ SizeOf(d[p]) = 1
    /\ \A p \in {"kernel", "ramdisk"} : d[p] # Missing => d[p].what \notin {"mtk", "kernel_dtb"}
    /\ d.kernel_dtb # Missing => d.kernel_dtb.what = "kernel_dtb" /\ d.kernel # Missing
    /\ d.trailer = Missing => d.dhtb = Missing
    /\ \A p \in {"trailer", "dhtb"} : d[p] # Missing => d[p].what # "vbmeta"
    /\ d.vbmeta # Missing => d.vbmeta.what = "vbmeta"

\* The new image as a reader sees it.
ReadyToRead(N, d, w, base) ==
    /\ MaybeAll(d, PieceNames) /\ Known(d) /\ Keeps(N.at, d, w) /\ InOrder(w, d)
    /\ \A p \in PieceNames : w[p] \in Nat
    /\ w.kernel = w.mtk_kernel + SizeOf(d.mtk_kernel) /\ w.kernel_dtb = w.kernel + SizeOf(d.kernel)
    /\ w.ramdisk = w.mtk_ramdisk + SizeOf(d.mtk_ramdisk)
    /\ base \in Nat /\ base = PreSize[N.pre]
    /\ Agree(w, BlockOffset(N.hdr), base) /\ SizesAgree(N.hdr.size, d)

\* A piece is found where it was written.
LEMMA ReadPiece ==
    ASSUME NEW N, NEW d, NEW w, NEW base, ReadyToRead(N, d, w, base), NEW p \in PieceNames \ {"vbmeta"}
    PROVE  ReadAt(N, w[p], SizeOf(d[p])) = d[p]
<1>1. Maybe(d[p]) /\ (d[p] # Missing => w[p] \in DOMAIN N.at /\ N.at[w[p]] = d[p])
  BY DEF ReadyToRead, MaybeAll, Keeps
<1>2. (SizeOf(d[p]) = 0 <=> d[p] = Missing) /\ (d[p] # Missing => SizeOf(d[p]) = Size(d[p]))
  BY <1>1, SizeFacts
<1>. QED  BY <1>1, <1>2 DEF ReadAt

\* An MTK header is taken off, and data without one is left alone.
LEMMA StripPiece ==
    ASSUME NEW N, NEW d, NEW w, NEW base, ReadyToRead(N, d, w, base),
           NEW m, NEW x, <<m, x>> \in {<<"mtk_kernel", "kernel">>, <<"mtk_ramdisk", "ramdisk">>},
           NEW n, n = SizeOf(d[m]) + SizeOf(d[x])
    PROVE  /\ Stripped(N, w[m], n).mtk = (d[m] # Missing)
           /\ Stripped(N, w[m], n).data = d[x]
<1>1. m \in PieceNames \ {"vbmeta"} /\ x \in PieceNames \ {"vbmeta"} /\ w[x] = w[m] + SizeOf(d[m])
  BY DEF ReadyToRead, PieceNames
<1>2. Maybe(d[m]) /\ Maybe(d[x]) /\ w[m] \in Nat
  BY <1>1 DEF ReadyToRead, MaybeAll
<1>3. /\ SizeOf(d[m]) \in Nat /\ SizeOf(d[x]) \in Nat
      /\ SizeOf(d[m]) = 0 <=> d[m] = Missing
      /\ SizeOf(d[x]) = 0 <=> d[x] = Missing
  BY <1>2, SizeFacts
<1>4. /\ d[m] # Missing => w[m] \in DOMAIN N.at /\ N.at[w[m]] = d[m] /\ d[m].what = "mtk" /\ SizeOf(d[m]) = 1
      /\ d[x] # Missing => w[x] \in DOMAIN N.at /\ N.at[w[x]] = d[x] /\ d[x].what # "mtk"
  BY <1>1 DEF ReadyToRead, Keeps, Known
<1>5. ReadAt(N, w[x], SizeOf(d[x])) = d[x]
  BY <1>1, ReadPiece
<1>6. CASE d[m] # Missing
  <2>1. n > 0 /\ w[m] + 1 = w[x] /\ n - 1 = SizeOf(d[x])
    BY <1>1, <1>2, <1>3, <1>4, <1>6
  <2>2. n > 0 /\ w[m] \in DOMAIN N.at /\ N.at[w[m]].what = "mtk"
    BY <1>4, <1>6, <2>1
  <2>. QED  BY <1>5, <1>6, <2>1, <2>2 DEF Stripped
<1>7. CASE d[m] = Missing
  <2>1. w[m] = w[x] /\ n = SizeOf(d[x])
    BY <1>1, <1>2, <1>3, <1>7
  <2>2. ~(n > 0 /\ w[m] \in DOMAIN N.at /\ N.at[w[m]].what = "mtk")
    BY <1>3, <1>4, <2>1
  <2>. QED  BY <1>5, <1>7, <2>1, <2>2 DEF Stripped
<1>. QED  BY <1>6, <1>7

\* The device tree behind the kernel, and nothing else, is found.
LEMMA DtbFound ==
    ASSUME NEW N, NEW d, NEW w, NEW base, ReadyToRead(N, d, w, base), NEW n, n = N.hdr.size["kernel"]
    PROVE  /\ d.kernel_dtb = Missing => FindDtb(N, w.mtk_kernel, n) = 0
           /\ d.kernel_dtb # Missing => /\ FindDtb(N, w.mtk_kernel, n) = w.kernel_dtb - w.mtk_kernel
                                        /\ w.kernel_dtb - w.mtk_kernel > 0
<1>. DEFINE off == w.mtk_kernel
            S == {o \in DOMAIN N.at : /\ o > off /\ o < off + n
                                      /\ N.at[o].what = "kernel_dtb" /\ o + Size(N.at[o]) <= off + n}
<1>1. \A p \in PieceNames : /\ w[p] \in Nat /\ SizeOf(d[p]) \in Nat
                            /\ SizeOf(d[p]) = 0 <=> d[p] = Missing
                            /\ d[p] # Missing => SizeOf(d[p]) = Size(d[p])
  BY SizeFacts DEF ReadyToRead, MaybeAll
<1>2. off + n = w.kernel_dtb + SizeOf(d.kernel_dtb) /\ n \in Nat
  <2>1. /\ n = SizeOf(d.mtk_kernel) + SizeOf(d.kernel) + SizeOf(d.kernel_dtb)
        /\ w.kernel = w.mtk_kernel + SizeOf(d.mtk_kernel) /\ w.kernel_dtb = w.kernel + SizeOf(d.kernel)
    BY DEF ReadyToRead, SizesAgree
  <2>2. /\ SizeOf(d.mtk_kernel) \in Nat /\ SizeOf(d.kernel) \in Nat /\ SizeOf(d.kernel_dtb) \in Nat
        /\ w.mtk_kernel \in Nat
    BY <1>1 DEF PieceNames
  <2>. QED  BY <2>1, <2>2
<1>3. \A o \in S : d.kernel_dtb # Missing /\ o = w.kernel_dtb
  <2>. SUFFICES ASSUME NEW o \in S
                PROVE  d.kernel_dtb # Missing /\ o = w.kernel_dtb
    OBVIOUS
  <2>1. PICK p \in PieceNames : d[p] # Missing /\ w[p] = o /\ N.at[o] = d[p]
    BY DEF ReadyToRead, Keeps
  <2>2. d[p].what = "kernel_dtb" /\ w[p] < w.kernel_dtb + SizeOf(d.kernel_dtb)
    BY <1>2, <2>1
  <2>3. p \notin {"mtk_kernel", "kernel"}
    BY <2>1, <2>2 DEF ReadyToRead, Known
  <2>4. \A q \in PieceNames \ {"mtk_kernel", "kernel", "kernel_dtb"} : After(w, d, "kernel_dtb") <= w[q]
    <3>1. \A q \in PieceNames \ {"mtk_kernel", "kernel", "kernel_dtb"} : Place["kernel_dtb"] < Place[q]
      BY DEF Place, PieceNames
    <3>2. "kernel_dtb" \in PieceNames
      BY DEF PieceNames
    <3>. QED  BY <3>1, <3>2 DEF ReadyToRead, InOrder
  <2>5. w.kernel_dtb \in Nat /\ SizeOf(d.kernel_dtb) \in Nat /\ w[p] \in Nat
    BY <1>1 DEF PieceNames
  <2>6. p = "kernel_dtb"
    BY <2>2, <2>3, <2>4, <2>5 DEF After
  <2>. QED  BY <2>1, <2>6
<1>4. FindDtb(N, off, n) = IF S = {} THEN 0 ELSE Min(S) - off
  BY DEF FindDtb
<1>5. ASSUME d.kernel_dtb # Missing
      PROVE  S = {w.kernel_dtb} /\ w.kernel_dtb - off > 0
  <2>1. w.kernel_dtb \in DOMAIN N.at /\ N.at[w.kernel_dtb] = d.kernel_dtb /\ d.kernel_dtb.what = "kernel_dtb"
    BY <1>5 DEF ReadyToRead, Keeps, Known, PieceNames
  <2>2. d.kernel # Missing
    BY <1>5 DEF ReadyToRead, Known
  <2>3. /\ SizeOf(d.kernel) \in Nat \ {0} /\ SizeOf(d.mtk_kernel) \in Nat /\ w.mtk_kernel \in Nat
        /\ SizeOf(d.kernel_dtb) \in Nat \ {0} /\ Size(d.kernel_dtb) = SizeOf(d.kernel_dtb)
        /\ w.kernel_dtb \in Nat
    BY <1>1, <1>5, <2>2 DEF PieceNames
  <2>4. w.kernel_dtb = w.mtk_kernel + SizeOf(d.mtk_kernel) + SizeOf(d.kernel)
    BY DEF ReadyToRead
  <2>5. w.kernel_dtb > off /\ w.kernel_dtb < off + n /\ w.kernel_dtb + Size(d.kernel_dtb) <= off + n
    BY <1>2, <2>3, <2>4
  <2>6. w.kernel_dtb \in S
    BY <2>1, <2>5
  <2>. QED  BY <1>3, <2>3, <2>5, <2>6
<1>. HIDE DEF S
<1>6. d.kernel_dtb = Missing => S = {}
  BY <1>3
<1>7. S = {w.kernel_dtb} => Min(S) = w.kernel_dtb
  <2>1. w.kernel_dtb \in Nat
    BY <1>1 DEF PieceNames
  <2>. QED  BY <2>1, MinFacts
<1>. QED  BY <1>4, <1>5, <1>6, <1>7


\* The new image, taken apart.
ReadBack(c, d) ==
    /\ \A p \in Parts : c.data[p] = d[p]
    /\ c.mtk_kernel = (d.mtk_kernel # Missing) /\ c.mtk_ramdisk = (d.mtk_ramdisk # Missing)

\* Parse finds the parts that were written.
LEMMA PartsReadBack ==
    ASSUME NEW N, NEW d, NEW w, NEW base, ReadyToRead(N, d, w, base)
    PROVE  ReadBack(Parse(N), d)
<1>. DEFINE c == Parse(N)
            bo == BlockOffset(N.hdr)
            ksz == N.hdr.size["kernel"]
            dt == FindDtb(N, w.mtk_kernel, ksz)
            kn == IF dt > 0 THEN dt ELSE ksz
            k == Stripped(N, w.mtk_kernel, kn)
            r == Stripped(N, w.mtk_ramdisk, N.hdr.size["ramdisk"])
<1>1. PreSize[N.pre] + bo["kernel"] = w.mtk_kernel /\ PreSize[N.pre] + bo["ramdisk"] = w.mtk_ramdisk
      /\ \A p \in {"second", "extra", "recovery_dtbo", "dtb"} : PreSize[N.pre] + bo[p] = w[p]
  BY DEF ReadyToRead, Agree
<1>. HIDE DEF bo
<1>2. /\ c.data["kernel"] = k.data /\ c.mtk_kernel = k.mtk
      /\ c.data["kernel_dtb"] = IF dt > 0 THEN ReadAt(N, w.mtk_kernel + dt, ksz - dt) ELSE Missing
      /\ c.data["ramdisk"] = r.data /\ c.mtk_ramdisk = r.mtk
  BY <1>1 DEF Parse, bo
<1>3. \A p \in {"second", "extra", "recovery_dtbo", "dtb"} : c.data[p] = ReadAt(N, w[p], N.hdr.size[p])
  BY <1>1 DEF Parse, bo
<1>. HIDE DEF c
<1>4. \A p \in {"second", "extra", "recovery_dtbo", "dtb"} : c.data[p] = d[p]
  <2>1. \A p \in {"second", "extra", "recovery_dtbo", "dtb"} : ReadAt(N, w[p], SizeOf(d[p])) = d[p]
    BY ReadPiece DEF PieceNames
  <2>2. \A p \in {"second", "extra", "recovery_dtbo", "dtb"} : N.hdr.size[p] = SizeOf(d[p])
    BY DEF ReadyToRead, SizesAgree
  <2>. QED  BY <1>3, <2>1, <2>2
<1>5. r.data = d.ramdisk /\ r.mtk = (d.mtk_ramdisk # Missing)
  <2>1. N.hdr.size["ramdisk"] = SizeOf(d.mtk_ramdisk) + SizeOf(d.ramdisk)
    BY DEF ReadyToRead, SizesAgree
  <2>. QED  BY <2>1, StripPiece
<1>6. /\ ksz = SizeOf(d.mtk_kernel) + SizeOf(d.kernel) + SizeOf(d.kernel_dtb)
      /\ w.kernel = w.mtk_kernel + SizeOf(d.mtk_kernel) /\ w.kernel_dtb = w.kernel + SizeOf(d.kernel)
  BY DEF ReadyToRead, SizesAgree
<1>7. /\ SizeOf(d.mtk_kernel) \in Nat /\ SizeOf(d.kernel) \in Nat /\ SizeOf(d.kernel_dtb) \in Nat
      /\ d.kernel_dtb = Missing => SizeOf(d.kernel_dtb) = 0
      /\ w.mtk_kernel \in Nat
  <2>1. Maybe(d.mtk_kernel) /\ Maybe(d.kernel) /\ Maybe(d.kernel_dtb)
    BY DEF ReadyToRead, MaybeAll, PieceNames
  <2>2. w.mtk_kernel \in Nat
    BY DEF ReadyToRead, PieceNames
  <2>. QED  BY <2>1, <2>2, SizeFacts
<1>8. /\ d.kernel_dtb = Missing => dt = 0
      /\ d.kernel_dtb # Missing => dt = w.kernel_dtb - w.mtk_kernel /\ dt > 0
  BY DtbFound
<1>. HIDE DEF dt, ksz
<1>9. kn = SizeOf(d.mtk_kernel) + SizeOf(d.kernel)
  BY <1>6, <1>7, <1>8
<1>. HIDE DEF kn
<1>10. k.data = d.kernel /\ k.mtk = (d.mtk_kernel # Missing)
  BY <1>9, StripPiece
<1>11. c.data["kernel_dtb"] = d.kernel_dtb
  <2>1. ReadAt(N, w.kernel_dtb, SizeOf(d.kernel_dtb)) = d.kernel_dtb
    BY ReadPiece DEF PieceNames
  <2>2. d.kernel_dtb # Missing => w.mtk_kernel + dt = w.kernel_dtb /\ ksz - dt = SizeOf(d.kernel_dtb)
    BY <1>6, <1>7, <1>8
  <2>3. d.kernel_dtb = Missing => ~(dt > 0)
    BY <1>8
  <2>. QED  BY <1>2, <1>8, <2>1, <2>2, <2>3
<1>. QED  BY <1>2, <1>4, <1>5, <1>10, <1>11 DEF ReadBack, Parts, c

\* What lies behind the blocks.
TailOf(N, d, w, tail) ==
    /\ tail = w.trailer
    /\ d.trailer # Missing => tail \in DOMAIN N.at /\ N.at[tail] = d.trailer
    /\ d.trailer = Missing /\ tail \in DOMAIN N.at => N.at[tail].what = "vbmeta"
    /\ \A o \in DOMAIN N.at : o >= tail /\ N.at[o].what = "vbmeta" => o = w.vbmeta /\ d.vbmeta # Missing

\* The trailer of the vendor, or vbmeta, is the first thing there.
LEMMA TailRead ==
    ASSUME NEW N, NEW d, NEW w, NEW base, ReadyToRead(N, d, w, base)
    PROVE  TailOf(N, d, w, PreSize[N.pre] + BlockOffset(N.hdr)["tail"])
<1>. DEFINE tail == PreSize[N.pre] + BlockOffset(N.hdr)["tail"]
<1>1. tail = w.trailer
  BY DEF ReadyToRead, Agree
<1>. HIDE DEF tail
<1>2. \A p \in PieceNames : w[p] \in Nat /\ SizeOf(d[p]) \in Nat /\ (SizeOf(d[p]) = 0 <=> d[p] = Missing)
  BY SizeFacts DEF ReadyToRead, MaybeAll
<1>3. ASSUME NEW o \in DOMAIN N.at, o >= tail
      PROVE  \E p \in {"trailer", "dhtb", "vbmeta"} : d[p] # Missing /\ w[p] = o /\ N.at[o] = d[p]
  <2>1. PICK p \in PieceNames : d[p] # Missing /\ w[p] = o /\ N.at[o] = d[p]
    BY DEF ReadyToRead, Keeps
  <2>2. CASE p \in {"trailer", "dhtb", "vbmeta"}
    BY <2>1, <2>2
  <2>3. CASE p \notin {"trailer", "dhtb", "vbmeta"}
    <3>1. Place[p] < Place["trailer"] /\ "trailer" \in PieceNames
      BY <2>3 DEF PieceNames, Place
    <3>2. w[p] + SizeOf(d[p]) <= w["trailer"]
      BY <3>1 DEF ReadyToRead, InOrder, After
    <3>3. w[p] \in Nat /\ SizeOf(d[p]) \in Nat \ {0} /\ w["trailer"] \in Nat
      BY <1>2, <2>1, <3>1
    <3>. QED  BY <1>1, <1>3, <2>1, <3>2, <3>3
  <2>. QED  BY <2>2, <2>3
<1>4. d.trailer # Missing => tail \in DOMAIN N.at /\ N.at[tail] = d.trailer
  BY <1>1 DEF ReadyToRead, Keeps, PieceNames
<1>5. d.trailer = Missing /\ tail \in DOMAIN N.at => N.at[tail].what = "vbmeta"
  <2>. SUFFICES ASSUME d.trailer = Missing, tail \in DOMAIN N.at
                PROVE  N.at[tail].what = "vbmeta"
    OBVIOUS
  <2>1. tail \in Nat
    BY <1>1, <1>2 DEF PieceNames
  <2>2. PICK p \in {"trailer", "dhtb", "vbmeta"} : d[p] # Missing /\ w[p] = tail /\ N.at[tail] = d[p]
    BY <1>3, <2>1
  <2>. QED  BY <2>2 DEF ReadyToRead, Known
<1>6. \A o \in DOMAIN N.at : o >= tail /\ N.at[o].what = "vbmeta" => o = w.vbmeta /\ d.vbmeta # Missing
  <2>. SUFFICES ASSUME NEW o \in DOMAIN N.at, o >= tail, N.at[o].what = "vbmeta"
                PROVE  o = w.vbmeta /\ d.vbmeta # Missing
    OBVIOUS
  <2>1. PICK p \in {"trailer", "dhtb", "vbmeta"} : d[p] # Missing /\ w[p] = o /\ N.at[o] = d[p]
    BY <1>3
  <2>. QED  BY <2>1 DEF ReadyToRead, Known
<1>7. TailOf(N, d, w, tail)
  BY <1>1, <1>4, <1>5, <1>6 DEF TailOf
<1>. QED  BY <1>7 DEF tail


(***************************************************************************)
(* What repack writes                                                      *)
(***************************************************************************)

HdrFields == {"ver", "size", "cmdline", "extra_cmdline", "os_version", "id", "dtbo_offset", "name"}
Loaded(h, header) == IF header = NoHdrFile THEN h ELSE LoadHdr(h, header)

\* Repacking changes the fields of the header one by one.
HdrOf(nh, h, header, d, off) ==
    /\ nh.ver = h.ver /\ nh.size = NewSizes(h, d)
    /\ nh.dtbo_offset = DtboOffset(h, d.recovery_dtbo, off.recovery_dtbo)
    /\ \A f \in {"cmdline", "extra_cmdline", "os_version", "name"} : nh[f] = Loaded(h, header)[f]
    /\ DOMAIN nh = HdrFields

\* NewHdr keeps the version, sets the sizes and loads the rest.
LEMMA NewHdrFacts ==
    ASSUME NEW h, DOMAIN h = HdrFields, NEW header, NEW d, NEW off
    PROVE  HdrOf(NewHdr(h, header, d, off), h, header, d, off)
<1>. DEFINE l == Loaded(h, header)
<1>1. DOMAIN l = HdrFields /\ l.ver = h.ver
  BY DEF Loaded, LoadHdr, HdrFields
<1>2. NewHdr(h, header, d, off) =
        [l EXCEPT !.size = NewSizes(h, d), !.dtbo_offset = DtboOffset(h, d.recovery_dtbo, off.recovery_dtbo)]
  BY DEF NewHdr, Loaded
<1>. HIDE DEF l
<1>3. HdrOf([l EXCEPT !.size = NewSizes(h, d), !.dtbo_offset = DtboOffset(h, d.recovery_dtbo, off.recovery_dtbo)],
            h, header, d, off)
  BY <1>1 DEF HdrOf, HdrFields, l
<1>. QED  BY <1>2, <1>3

\* The fields of the new image, from the pieces and their places.
RepackOf(N, img, header, part, skip, d, w, base, hdr) ==
    /\ d = Pieces(Parse(img), img, part, skip)
    /\ base = IF img.pre = "chromeos" THEN 0 ELSE PreSize[img.pre]
    /\ w = Written(d, base, HdrSpace(img.hdr.ver))
    /\ hdr = NewHdr(img.hdr, header, d, w)
    /\ N.pre = IF img.pre = "chromeos" THEN "none" ELSE img.pre
    /\ N.hdr = IF hdr.ver \notin HasId THEN hdr
               ELSE [hdr EXCEPT !.id = Checksum(hdr, Contents(d, w),
                        [kernel |-> w.mtk_kernel, ramdisk |-> w.mtk_ramdisk, second |-> w.second,
                         extra |-> w.extra, recovery_dtbo |-> hdr.dtbo_offset, dtb |-> w.dtb])]
    /\ N.at = IF Parse(img).avb # Missing THEN WithFooter(Contents(d, w), N.size) ELSE Contents(d, w)
    /\ N.size = IF img.pre # "chromeos" /\ w.end < img.size THEN img.size ELSE w.end
    /\ N.footer = IF Parse(img).avb # Missing THEN <<w.total, w.vbmeta>> ELSE <<>>
    /\ N.room = (w.end <= N.size - FOOTER)

\* Repacked is such an image.
LEMMA RepackedFields ==
    ASSUME NEW img, NEW header, NEW part, NEW skip
    PROVE  \E d, w, base, hdr : RepackOf(Repacked(img, header, part, skip), img, header, part, skip, d, w, base, hdr)
<1>. DEFINE b == Parse(img)
            d == Pieces(b, img, part, skip)
            base == IF img.pre = "chromeos" THEN 0 ELSE PreSize[img.pre]
            w == Written(d, base, HdrSpace(img.hdr.ver))
            hdr == NewHdr(img.hdr, header, d, w)
            size == IF img.pre # "chromeos" /\ w.end < img.size THEN img.size ELSE w.end
            N == Finished(img, b.avb # Missing, hdr, d, w, size)
<1>1. Repacked(img, header, part, skip) = N
  BY DEF Repacked
<1>2. RepackOf(N, img, header, part, skip, d, w, base, hdr)
  <2>1. d = Pieces(Parse(img), img, part, skip) /\ base = (IF img.pre = "chromeos" THEN 0 ELSE PreSize[img.pre])
        /\ w = Written(d, base, HdrSpace(img.hdr.ver)) /\ hdr = NewHdr(img.hdr, header, d, w)
        /\ size = IF img.pre # "chromeos" /\ w.end < img.size THEN img.size ELSE w.end
    OBVIOUS
  <2>. HIDE DEF d, w, base, hdr, size
  <2>. QED  BY <2>1 DEF RepackOf, Finished
<1>. HIDE DEF d, w, base, hdr, N
<1>. QED  BY <1>1, <1>2

\* The footer overwrites nothing but vbmeta.
LEMMA FooterKeeps ==
    ASSUME NEW d, MaybeAll(d, PieceNames), NEW w, InOrder(w, d), \A p \in PieceNames : w[p] \in Nat,
           NEW C, Holds(C, d, w), d.vbmeta # Missing,
           NEW end, end = w.vbmeta + SizeOf(d.vbmeta), NEW size \in Nat, end <= size
    PROVE  /\ Keeps(WithFooter(C, size), d, w)
           /\ \A o \in DOMAIN C : o < w.vbmeta => o \in DOMAIN WithFooter(C, size) /\ WithFooter(C, size)[o] = C[o]
           /\ end <= size - FOOTER =>
                w.vbmeta \in DOMAIN WithFooter(C, size) /\ WithFooter(C, size)[w.vbmeta] = d.vbmeta
<1>. DEFINE at == WithFooter(C, size)
            kept == {x \in DOMAIN C : x + Size(C[x]) <= size - FOOTER}
<1>1. DOMAIN at = kept /\ \A o \in kept : at[o] = C[o]
  BY DEF WithFooter
<1>. HIDE DEF at
<1>2. \A p \in PieceNames : /\ w[p] \in Nat /\ SizeOf(d[p]) \in Nat
                            /\ d[p] # Missing => SizeOf(d[p]) = Size(d[p]) /\ SizeOf(d[p]) # 0
  BY SizeFacts DEF MaybeAll
<1>3. w.vbmeta \in Nat /\ SizeOf(d.vbmeta) \in Nat \ {0} /\ SizeOf(d.vbmeta) = Size(d.vbmeta)
  BY <1>2 DEF PieceNames
<1>4. \A p \in PieceNames \ {"vbmeta"} : d[p] # Missing => w[p] + Size(d[p]) <= size - FOOTER
  <2>. SUFFICES ASSUME NEW p \in PieceNames \ {"vbmeta"}, d[p] # Missing
                PROVE  w[p] + Size(d[p]) <= size - FOOTER
    OBVIOUS
  <2>1. Place[p] < Place["vbmeta"] /\ "vbmeta" \in PieceNames
    BY DEF Place, PieceNames
  <2>2. w[p] + SizeOf(d[p]) <= w["vbmeta"]
    BY <2>1 DEF InOrder, After
  <2>3. w[p] \in Nat /\ SizeOf(d[p]) \in Nat /\ SizeOf(d[p]) = Size(d[p])
    BY <1>2
  <2>. QED  BY <1>3, <2>2, <2>3 DEF FOOTER
<1>5. \A p \in PieceNames \ {"vbmeta"} : d[p] # Missing => w[p] \in kept /\ at[w[p]] = d[p]
  BY <1>1, <1>4 DEF Holds
<1>6. \A o \in DOMAIN at : \E p \in PieceNames : d[p] # Missing /\ w[p] = o /\ at[o] = d[p]
  BY <1>1 DEF Holds
<1>7. Keeps(at, d, w)
  BY <1>1, <1>5, <1>6 DEF Keeps
<1>8. ASSUME NEW o \in DOMAIN C, o < w.vbmeta
      PROVE  o \in DOMAIN at /\ at[o] = C[o]
  <2>1. PICK p \in PieceNames : d[p] # Missing /\ w[p] = o /\ C[o] = d[p]
    BY DEF Holds
  <2>2. p # "vbmeta"
    BY <1>3, <1>8, <2>1
  <2>. QED  BY <1>1, <1>5, <2>1, <2>2
<1>9. end <= size - FOOTER => w.vbmeta \in DOMAIN at /\ at[w.vbmeta] = d.vbmeta
  <2>1. w.vbmeta \in DOMAIN C /\ C[w.vbmeta] = d.vbmeta
    BY DEF Holds, PieceNames
  <2>. QED  BY <1>1, <1>3, <2>1
<1>. QED  BY <1>7, <1>8, <1>9 DEF at


\* Every piece of the new image is what it was written as.
LEMMA PiecesKnown ==
    ASSUME NEW img \in BootImages, NEW part, FilesFit(part, Parse(img)), ~MisplacedIn(Parse(img), part), NEW skip,
           NEW d, PiecesOf(d, Parse(img), img, part, skip)
    PROVE  Known(d) /\ (d.ramdisk = Missing => d.mtk_ramdisk = Missing)
<1>. DEFINE b == Parse(img)
<1>1. BlocksOf(b, img.hdr) /\ (img.pre = "dhtb" => b.seandroid)
  BY ParseFacts DEF Parse
<1>2. FilesFit(part, b) /\ ~MisplacedIn(b, part) /\ PiecesOf(d, b, img, part, skip)
  OBVIOUS
<1>. HIDE DEF b
<1>3. \A p \in Parts : Maybe(part[p]) /\ (part[p] # Missing => Suits(p, part[p]))
  BY <1>2 DEF FilesFit, MaybeAll
<1>4. \A p \in Parts : \A s : /\ NewData(b, p, part[p], s) = Missing <=> part[p] = Missing
                              /\ NewData(b, p, part[p], s).what = part[p].what
  BY <1>3, NewDataFacts
<1>5. \E s \in {FALSE} : d.kernel = NewData(b, "kernel", part["kernel"], s)
  BY <1>2 DEF PiecesOf
<1>6. d.ramdisk = NewData(b, "ramdisk", part["ramdisk"], skip)
  BY <1>2 DEF PiecesOf
<1>7. (d.kernel = Missing <=> part["kernel"] = Missing) /\ d.kernel.what = part["kernel"].what
  BY <1>4, <1>5 DEF Parts
<1>8. (d.ramdisk = Missing <=> part["ramdisk"] = Missing) /\ d.ramdisk.what = part["ramdisk"].what
  BY <1>4, <1>6 DEF Parts
<1>9. \A p \in {"kernel", "ramdisk"} : d[p] # Missing => d[p].what \notin {"mtk", "kernel_dtb"}
  BY <1>3, <1>7, <1>8 DEF Suits, Parts
<1>10. d.kernel_dtb # Missing => d.kernel_dtb.what = "kernel_dtb" /\ d.kernel # Missing
  <2>1. d.kernel_dtb = part["kernel_dtb"]
    BY <1>2 DEF PiecesOf
  <2>2. part["kernel_dtb"] # Missing => part["kernel"] # Missing
    BY <1>2 DEF MisplacedIn
  <2>3. part["kernel_dtb"] # Missing => part["kernel_dtb"].what = "kernel_dtb"
    BY <1>3 DEF Suits, Parts
  <2>. QED  BY <1>7, <2>1, <2>2, <2>3
<1>11. \A p \in {"mtk_kernel", "mtk_ramdisk"} : d[p] # Missing => d[p].what = "mtk" /\ SizeOf(d[p]) = 1
  BY <1>2 DEF PiecesOf
<1>12. /\ d.trailer = Missing => d.dhtb = Missing
       /\ d.trailer # Missing => d.trailer.what # "vbmeta"
       /\ d.dhtb # Missing => d.dhtb.what # "vbmeta"
       /\ d.vbmeta # Missing => d.vbmeta.what = "vbmeta"
  BY <1>1, <1>2 DEF PiecesOf
<1>13. d.ramdisk = Missing => d.mtk_ramdisk = Missing
  <2>1. b.mtk_ramdisk \in BOOLEAN
    BY <1>1 DEF BlocksOf
  <2>. QED  BY <1>2, <1>8, <2>1 DEF PiecesOf, MisplacedIn
<1>. QED  BY <1>9, <1>10, <1>11, <1>12, <1>13 DEF Known

\* The new image can be read, and what its checksum was computed from is
\* what it holds.
ReadyImage(N, d, w, base) ==
    /\ ReadyToRead(N, d, w, base)
    /\ \A o : o < w.vbmeta => /\ o \in DOMAIN Contents(d, w) <=> o \in DOMAIN N.at
                              /\ o \in DOMAIN N.at => N.at[o] = Contents(d, w)[o]
    /\ d.vbmeta # Missing /\ N.room => w.vbmeta \in DOMAIN N.at /\ N.at[w.vbmeta] = d.vbmeta

\* Whatever repack writes is such an image.
LEMMA RepackReady ==
    ASSUME NEW img \in BootImages, NEW header, NEW part, FilesFit(part, Parse(img)), ~MisplacedIn(Parse(img), part),
           NEW skip, NEW N, NEW d, NEW w, NEW base, NEW hdr, RepackOf(N, img, header, part, skip, d, w, base, hdr)
    PROVE  ReadyImage(N, d, w, base)
<1>. DEFINE C == Contents(d, w)
            h == img.hdr
            b == Parse(img)
<1>1. MaybeAll(d, PieceNames) /\ PiecesOf(d, b, img, part, skip)
  BY PieceFacts DEF RepackOf
<1>2. Known(d) /\ (d.ramdisk = Missing => d.mtk_ramdisk = Missing)
  BY <1>1, PiecesKnown
<1>3. base \in Nat /\ base = PreSize[N.pre]
  BY ImageAssumption DEF RepackOf, PreSize
<1>4. Layout(w, d, base, HdrSpace(h.ver))
  BY WrittenLayout DEF RepackOf
<1>5. Rising(w, d, base)
  BY <1>1, <1>3, <1>4, HdrFacts, LayoutRises
<1>6. InOrder(w, d) /\ Holds(C, d, w)
  BY <1>1, <1>3, <1>5, PiecesInOrder, ContentsHold
<1>. HIDE DEF C
<1>7. N.hdr.ver = h.ver /\ N.hdr.size = NewSizes(h, d)
  <2>1. DOMAIN h = HdrFields
    BY ImageAssumption DEF IsHdr, HdrFields
  <2>2. HdrOf(hdr, h, header, d, w)
    BY <2>1, NewHdrFacts DEF RepackOf
  <2>. QED  BY <2>2 DEF RepackOf, HdrOf, HdrFields
<1>8. SizesAgree(N.hdr.size, d)
  BY <1>1, <1>7, SizesFit
<1>9. Agree(w, BlockOffset(N.hdr), base)
  BY <1>1, <1>2, <1>3, <1>4, <1>7, <1>8, BlockChain, PiecesInBlocks
<1>10. \A p \in PieceNames \cup {"end"} : w[p] \in Nat
  BY <1>5 DEF Rising
<1>11. w.end = w.vbmeta + SizeOf(d.vbmeta)
  BY <1>4 DEF Layout, After
<1>12. N.size \in Nat /\ w.end <= N.size
  <2>1. img.size \in Nat /\ w.end \in Nat
    BY <1>10, ImageAssumption
  <2>. QED  BY <2>1 DEF RepackOf
<1>13. /\ Keeps(N.at, d, w)
       /\ \A o : o < w.vbmeta => /\ o \in DOMAIN C <=> o \in DOMAIN N.at
                                 /\ o \in DOMAIN N.at => N.at[o] = C[o]
       /\ d.vbmeta # Missing /\ N.room => w.vbmeta \in DOMAIN N.at /\ N.at[w.vbmeta] = d.vbmeta
  <2>1. CASE b.avb = Missing
    <3>1. N.at = C
      BY <2>1 DEF RepackOf, C
    <3>2. Keeps(C, d, w)
      BY <1>6 DEF Holds, Keeps
    <3>3. d.vbmeta = Missing
      BY <1>1, <2>1 DEF PiecesOf
    <3>. QED  BY <3>1, <3>2, <3>3
  <2>2. CASE b.avb # Missing
    <3>. DEFINE n == N.size
                end == w.end
    <3>1. N.at = WithFooter(C, n) /\ N.room = (end <= n - FOOTER)
      BY <2>2 DEF RepackOf, C
    <3>2. d.vbmeta # Missing
      BY <1>1, <2>2 DEF PiecesOf
    <3>3. DOMAIN WithFooter(C, n) \subseteq DOMAIN C
      BY DEF WithFooter
    <3>4. n \in Nat /\ end <= n /\ end = w.vbmeta + SizeOf(d.vbmeta) /\ \A p \in PieceNames : w[p] \in Nat
      BY <1>10, <1>11, <1>12
    <3>. HIDE DEF n, end
    <3>5. /\ Keeps(WithFooter(C, n), d, w)
          /\ \A o \in DOMAIN C : o < w.vbmeta => o \in DOMAIN WithFooter(C, n) /\ WithFooter(C, n)[o] = C[o]
          /\ end <= n - FOOTER => w.vbmeta \in DOMAIN WithFooter(C, n) /\ WithFooter(C, n)[w.vbmeta] = d.vbmeta
      BY <1>1, <1>6, <3>2, <3>4, FooterKeeps
    <3>. QED  BY <3>1, <3>3, <3>5
  <2>. QED  BY <2>1, <2>2
<1>14. ReadyToRead(N, d, w, base)
  <2>1. /\ w.kernel = w.mtk_kernel + SizeOf(d.mtk_kernel) /\ w.kernel_dtb = w.kernel + SizeOf(d.kernel)
        /\ w.ramdisk = w.mtk_ramdisk + SizeOf(d.mtk_ramdisk)
    BY <1>4 DEF Layout, After
  <2>. QED  BY <1>1, <1>2, <1>3, <1>6, <1>8, <1>9, <1>10, <1>13, <2>1 DEF ReadyToRead
<1>. QED  BY <1>13, <1>14 DEF ReadyImage, C


(***************************************************************************)
(* repack is faithful                                                      *)
(***************************************************************************)

\* WantedFmt, of any files.
FmtOf(b, part, skip, p) ==
    LET again == p = "kernel" \/ (p \in {"ramdisk", "extra"} /\ ~skip)
    IN  IF again /\ part[p] # Missing /\ part[p].fmt \notin COMPRESSED_ANY /\ b.data[p].fmt \in COMPRESSED
        THEN b.data[p].fmt ELSE part[p].fmt

\* A part is stored in the wanted format.
LEMMA StoredFmt ==
    ASSUME NEW b, NEW img, NEW part, MaybeAll(part, Parts), NEW skip, NEW d, PiecesOf(d, b, img, part, skip),
           NEW p \in Parts
    PROVE  d[p] = [part[p] EXCEPT !.fmt = FmtOf(b, part, skip, p)]
<1>1. part[p] = [part[p] EXCEPT !.fmt = part[p].fmt]
  <2>1. Maybe(part[p])
    BY DEF MaybeAll
  <2>. QED  BY <2>1 DEF Maybe, IsData, Missing, Data
<1>2. CASE p = "kernel"
  <2>1. d[p] = NewData(b, p, part[p], FALSE)
    BY <1>2 DEF PiecesOf
  <2>. QED  BY <1>1, <1>2, <2>1 DEF NewData, FmtOf
<1>3. CASE p \in {"ramdisk", "extra"}
  <2>1. d[p] = NewData(b, p, part[p], skip)
    BY <1>3 DEF PiecesOf
  <2>. QED  BY <1>1, <1>3, <2>1 DEF NewData, FmtOf
<1>4. CASE p \notin {"kernel", "ramdisk", "extra"}
  <2>1. d[p] = part[p]
    BY <1>4 DEF PiecesOf, Parts
  <2>. QED  BY <1>1, <1>4, <2>1 DEF FmtOf
<1>. QED  BY <1>2, <1>3, <1>4

\* The parts of the new image and the marks of its vendor.
SameParts(b, c, part, skip) ==
    /\ \A p \in Parts : c.data[p] = [part[p] EXCEPT !.fmt = FmtOf(b, part, skip, p)]
    /\ c.mtk_kernel = b.mtk_kernel /\ c.mtk_ramdisk = b.mtk_ramdisk
    /\ c.seandroid = b.seandroid /\ c.lg_bump = b.lg_bump

\* A second unpack finds the files.
LEMMA PartsSame ==
    ASSUME NEW img \in BootImages, NEW header, NEW part, FilesFit(part, Parse(img)), ~MisplacedIn(Parse(img), part),
           NEW skip, NEW N, NEW d, NEW w, NEW base, NEW hdr, RepackOf(N, img, header, part, skip, d, w, base, hdr)
    PROVE  SameParts(Parse(img), Parse(N), part, skip)
<1>. DEFINE b == Parse(img)
            c == Parse(N)
            tail == PreSize[N.pre] + BlockOffset(N.hdr)["tail"]
            is(x) == tail \in DOMAIN N.at /\ N.at[tail].what = x
<1>1. PiecesOf(d, b, img, part, skip) /\ BlocksOf(b, img.hdr) /\ MaybeAll(part, Parts)
  BY PieceFacts, ParseFacts DEF RepackOf, FilesFit
<1>2. ReadyToRead(N, d, w, base)
  BY RepackReady DEF ReadyImage
<1>3. ReadBack(c, d) /\ TailOf(N, d, w, tail)
  BY <1>2, PartsReadBack, TailRead
<1>4. /\ c.seandroid = (N.pre = "dhtb" \/ is("seandroid"))
      /\ c.lg_bump = (~is("seandroid") /\ is("bump"))
  BY DEF Parse
<1>5. (N.pre = "dhtb" <=> img.pre = "dhtb") /\ (img.pre = "dhtb" => b.seandroid /\ ~b.lg_bump)
  <2>1. N.pre = "dhtb" <=> img.pre = "dhtb"
    BY DEF RepackOf
  <2>2. img.pre = "dhtb" => b.seandroid
    BY DEF Parse
  <2>. QED  BY <2>1, <2>2, ImageAssumption
<1>6. ~(img.pre # "dhtb" /\ b.seandroid /\ b.lg_bump)
  BY DEF Parse
<1>. HIDE DEF b, c, tail
<1>7. /\ is("seandroid") <=> b.seandroid
      /\ is("bump") <=> b.lg_bump
  <2>1. b.seandroid \in BOOLEAN /\ b.lg_bump \in BOOLEAN
    BY <1>1 DEF BlocksOf
  <2>2. /\ d.trailer # Missing <=> b.seandroid \/ b.lg_bump
        /\ d.trailer # Missing => d.trailer.what = IF b.seandroid THEN "seandroid" ELSE "bump"
    BY <1>1 DEF PiecesOf
  <2>3. CASE d.trailer # Missing
    <3>1. tail \in DOMAIN N.at /\ N.at[tail] = d.trailer
      BY <1>3, <2>3 DEF TailOf
    <3>. QED  BY <1>5, <1>6, <2>1, <2>2, <2>3, <3>1
  <2>4. CASE d.trailer = Missing
    <3>1. tail \in DOMAIN N.at => N.at[tail].what = "vbmeta"
      BY <1>3, <2>4 DEF TailOf
    <3>. QED  BY <2>1, <2>2, <2>4, <3>1
  <2>. QED  BY <2>3, <2>4
<1>8. b.seandroid \in BOOLEAN /\ b.lg_bump \in BOOLEAN /\ b.mtk_kernel \in BOOLEAN /\ b.mtk_ramdisk \in BOOLEAN
  BY <1>1 DEF BlocksOf
<1>. HIDE DEF is
<1>9. c.seandroid = b.seandroid /\ c.lg_bump = b.lg_bump
  BY <1>4, <1>5, <1>6, <1>7, <1>8
<1>10. c.mtk_kernel = b.mtk_kernel /\ c.mtk_ramdisk = b.mtk_ramdisk
  BY <1>1, <1>3, <1>8 DEF PiecesOf, ReadBack
<1>11. \A p \in Parts : c.data[p] = [part[p] EXCEPT !.fmt = FmtOf(b, part, skip, p)]
  <2>1. \A p \in Parts : d[p] = [part[p] EXCEPT !.fmt = FmtOf(b, part, skip, p)]
    BY <1>1, StoredFmt
  <2>. QED  BY <1>3, <2>1 DEF ReadBack
<1>. QED  BY <1>9, <1>10, <1>11 DEF SameParts, b, c

\* vbmeta is where the footer says, with verification disabled.
LEMMA MetaSame ==
    ASSUME NEW img \in BootImages, NEW header, NEW part, FilesFit(part, Parse(img)), ~MisplacedIn(Parse(img), part),
           NEW skip, NEW N, NEW d, NEW w, NEW base, NEW hdr, RepackOf(N, img, header, part, skip, d, w, base, hdr),
           Parse(img).avb # Missing, N.room
    PROVE  /\ Parse(N).avb = [Parse(img).avb EXCEPT !.v = 3]
           /\ N.at[N.footer[2]].what = "vbmeta"
<1>. DEFINE b == Parse(img)
            tail == PreSize[N.pre] + BlockOffset(N.hdr)["tail"]
            meta == {o \in DOMAIN N.at : o >= tail /\ N.at[o].what = "vbmeta"}
<1>1. PiecesOf(d, b, img, part, skip)
  BY PieceFacts DEF RepackOf
<1>2. ReadyImage(N, d, w, base)
  BY RepackReady
<1>3. ReadyToRead(N, d, w, base)
  BY <1>2 DEF ReadyImage
<1>4. TailOf(N, d, w, tail)
  BY <1>3, TailRead
<1>5. d.vbmeta = [b.avb EXCEPT !.v = 3] /\ d.vbmeta.what = "vbmeta" /\ d.vbmeta # Missing
  BY <1>1 DEF PiecesOf
<1>6. w.vbmeta \in DOMAIN N.at /\ N.at[w.vbmeta] = d.vbmeta
  BY <1>2, <1>5 DEF ReadyImage
<1>7. N.footer = <<w.total, w.vbmeta>>
  BY DEF RepackOf
<1>8. Parse(N).avb = IF meta # {} /\ N.footer # <<>> THEN N.at[Min(meta)] ELSE Missing
  BY DEF Parse
<1>. HIDE DEF tail, b
<1>9. w.trailer \in Nat /\ w.vbmeta \in Nat /\ w.vbmeta >= w.trailer
  <2>1. "trailer" \in PieceNames /\ "vbmeta" \in PieceNames /\ Place["trailer"] < Place["vbmeta"]
    BY DEF PieceNames, Place
  <2>2. w["trailer"] \in Nat /\ w["vbmeta"] \in Nat /\ After(w, d, "trailer") <= w["vbmeta"]
        /\ SizeOf(d["trailer"]) \in Nat
    BY <1>3, <2>1, SizeFacts DEF ReadyToRead, InOrder, MaybeAll
  <2>. QED  BY <2>2 DEF After
<1>10. meta = {w.vbmeta}
  BY <1>4, <1>5, <1>6, <1>9 DEF TailOf
<1>. HIDE DEF meta
<1>11. Min(meta) = w.vbmeta
  BY <1>9, <1>10, MinFacts
<1>12. N.footer # <<>> /\ N.footer[2] = w.vbmeta
  BY <1>7
<1>. QED  BY <1>5, <1>6, <1>8, <1>10, <1>11, <1>12 DEF b


\* The bytes below vbmeta are those the checksum was computed from.
LEMMA BytesSame ==
    ASSUME NEW C, NEW at, NEW m \in Nat,
           \A o : o < m => (o \in DOMAIN C <=> o \in DOMAIN at) /\ (o \in DOMAIN at => at[o] = C[o]),
           \A o \in DOMAIN C : o \in Nat, \A o \in DOMAIN at : o \in Nat,
           NEW off \in Nat, NEW n \in Nat, off + n <= m
    PROVE  Bytes(C, off, n) = Bytes(at, off, n)
<1>. DEFINE X == {x \in DOMAIN C : x >= off /\ x < off + n}
            Y == {x \in DOMAIN at : x >= off /\ x < off + n}
<1>1. \A x : x \in X <=> x \in Y
  <2>1. \A x \in Nat : x < off + n => x < m
    OBVIOUS
  <2>. QED  BY <2>1
<1>2. X = Y
  BY <1>1
<1>3. \A x \in X : C[x] = at[x]
  <2>. SUFFICES ASSUME NEW x \in X
                PROVE  C[x] = at[x]
    OBVIOUS
  <2>1. x \in Nat /\ x < off + n
    OBVIOUS
  <2>2. x < m
    BY <2>1
  <2>. QED  BY <2>2
<1>. HIDE DEF X, Y
<1>4. {<<o - off, C[o]>> : o \in X} = {<<o - off, at[o]>> : o \in Y}
  BY <1>2, <1>3
<1>. QED  BY <1>4 DEF Bytes, X, Y

\* No bytes are none, wherever they are.
LEMMA NoBytes ==
    ASSUME NEW at, \A o \in DOMAIN at : o \in Nat, NEW off \in Nat
    PROVE  Bytes(at, off, 0) = {}
  BY DEF Bytes

\* The checksum depends on versions, sizes and bytes only.
LEMMA SumOf ==
    ASSUME NEW g, NEW h, NEW C, NEW at, NEW f, NEW e, g.ver = h.ver, g.size = h.size,
           \A p \in Blocks : Bytes(C, f[p], h.size[p]) = Bytes(at, e[p], h.size[p])
    PROVE  Checksum(g, C, f) = Checksum(h, at, e)
<1>. DEFINE P(p) == <<Bytes(C, f[p], g.size[p]), g.size[p]>>
            Q(p) == <<Bytes(at, e[p], h.size[p]), h.size[p]>>
<1>1. /\ P("kernel") = Q("kernel") /\ P("ramdisk") = Q("ramdisk") /\ P("second") = Q("second")
      /\ P("extra") = Q("extra") /\ P("recovery_dtbo") = Q("recovery_dtbo") /\ P("dtb") = Q("dtb")
  BY DEF Blocks
<1>2. Checksum(g, C, f) =
        <<P("kernel"), P("ramdisk"), P("second")>>
        \o (IF g.size["extra"] # 0 THEN <<P("extra")>> ELSE <<>>)
        \o (IF g.ver \in {"v1", "v2"} THEN <<P("recovery_dtbo")>> ELSE <<>>)
        \o (IF g.ver = "v2" THEN <<P("dtb")>> ELSE <<>>)
  BY DEF Checksum
<1>3. Checksum(h, at, e) =
        <<Q("kernel"), Q("ramdisk"), Q("second")>>
        \o (IF h.size["extra"] # 0 THEN <<Q("extra")>> ELSE <<>>)
        \o (IF h.ver \in {"v1", "v2"} THEN <<Q("recovery_dtbo")>> ELSE <<>>)
        \o (IF h.ver = "v2" THEN <<Q("dtb")>> ELSE <<>>)
  BY DEF Checksum
<1>. HIDE DEF P, Q
<1>. QED  BY <1>1, <1>2, <1>3

\* The new checksum is that of the blocks of the new image.
LEMMA SumSame ==
    ASSUME NEW img \in BootImages, NEW header, NEW part, FilesFit(part, Parse(img)), ~MisplacedIn(Parse(img), part),
           NEW skip, NEW N, NEW d, NEW w, NEW base, NEW hdr, RepackOf(N, img, header, part, skip, d, w, base, hdr),
           N.hdr.ver \in HasId
    PROVE  N.hdr.id = Checksum(N.hdr, N.at, [p \in Blocks |-> PreSize[N.pre] + BlockOffset(N.hdr)[p]])
<1>. DEFINE C == Contents(d, w)
            h == img.hdr
            f == [kernel |-> w.mtk_kernel, ramdisk |-> w.mtk_ramdisk, second |-> w.second,
                  extra |-> w.extra, recovery_dtbo |-> hdr.dtbo_offset, dtb |-> w.dtb]
            bo == BlockOffset(N.hdr)
            e == [p \in Blocks |-> PreSize[N.pre] + bo[p]]
            size == N.hdr.size
<1>1. HdrOf(hdr, h, header, d, w) /\ h.dtbo_offset \in Nat
  <2>1. DOMAIN h = HdrFields /\ h.dtbo_offset \in Nat
    BY ImageAssumption DEF IsHdr, HdrFields
  <2>. QED  BY <2>1, NewHdrFacts DEF RepackOf
<1>2. N.hdr.ver = hdr.ver /\ N.hdr.size = hdr.size
  BY <1>1 DEF RepackOf, HdrOf, HdrFields
<1>3. N.hdr.id = Checksum(hdr, C, f)
  <2>1. N.hdr = [hdr EXCEPT !.id = Checksum(hdr, C, f)]
    BY <1>2 DEF RepackOf
  <2>2. "id" \in DOMAIN hdr
    BY <1>1 DEF HdrOf, HdrFields
  <2>. QED  BY <2>1, <2>2
<1>4. ReadyImage(N, d, w, base)
  BY RepackReady
<1>5. ReadyToRead(N, d, w, base)
  BY <1>4 DEF ReadyImage
<1>6. \A o : o < w.vbmeta => (o \in DOMAIN C <=> o \in DOMAIN N.at) /\ (o \in DOMAIN N.at => N.at[o] = C[o])
  BY <1>4 DEF ReadyImage
<1>7. \A p \in PieceNames : /\ w[p] \in Nat /\ SizeOf(d[p]) \in Nat /\ (d[p] = Missing => SizeOf(d[p]) = 0)
                            /\ p # "vbmeta" => w[p] + SizeOf(d[p]) <= w.vbmeta
  <2>1. \A p \in PieceNames : w[p] \in Nat /\ SizeOf(d[p]) \in Nat /\ (d[p] = Missing => SizeOf(d[p]) = 0)
    BY <1>5, SizeFacts DEF ReadyToRead, MaybeAll
  <2>2. \A p \in PieceNames \ {"vbmeta"} : Place[p] < Place["vbmeta"]
    BY DEF PieceNames, Place
  <2>3. "vbmeta" \in PieceNames
    BY DEF PieceNames
  <2>. QED  BY <1>5, <2>1, <2>2, <2>3 DEF ReadyToRead, InOrder, After
<1>8. (\A o \in DOMAIN C : o \in Nat) /\ (\A o \in DOMAIN N.at : o \in Nat)
  <2>1. \A o \in DOMAIN N.at : o \in Nat
    BY <1>5, <1>7 DEF ReadyToRead, Keeps
  <2>2. MaybeAll(d, PieceNames)
    BY <1>5 DEF ReadyToRead
  <2>3. DOMAIN C = {w[p] : p \in {q \in DOMAIN d : d[q] # Missing}}
    BY DEF Contents
  <2>. HIDE DEF C
  <2>. QED  BY <1>7, <2>1, <2>2, <2>3 DEF MaybeAll
<1>. HIDE DEF C
<1>9. /\ e["kernel"] = w.mtk_kernel /\ e["ramdisk"] = w.mtk_ramdisk
      /\ \A p \in {"second", "extra", "recovery_dtbo", "dtb"} : e[p] = w[p]
  BY <1>5 DEF ReadyToRead, Agree, Blocks
<1>10. SizesAgree(size, d)
  BY <1>5 DEF ReadyToRead
<1>11. \A p \in Blocks : e[p] \in Nat /\ size[p] \in Nat /\ e[p] + size[p] <= w.vbmeta
  <2>1. \A p \in {"second", "extra", "recovery_dtbo", "dtb"} :
            e[p] \in Nat /\ size[p] \in Nat /\ e[p] + size[p] <= w.vbmeta
    BY <1>7, <1>9, <1>10 DEF SizesAgree, PieceNames
  <2>2. /\ w.kernel = w.mtk_kernel + SizeOf(d.mtk_kernel) /\ w.kernel_dtb = w.kernel + SizeOf(d.kernel)
        /\ w.ramdisk = w.mtk_ramdisk + SizeOf(d.mtk_ramdisk)
    BY <1>5 DEF ReadyToRead
  <2>3. e["kernel"] \in Nat /\ size["kernel"] \in Nat /\ e["kernel"] + size["kernel"] <= w.vbmeta
    <3>1. /\ SizeOf(d.mtk_kernel) \in Nat /\ SizeOf(d.kernel) \in Nat /\ SizeOf(d.kernel_dtb) \in Nat
          /\ w.mtk_kernel \in Nat /\ w.kernel_dtb + SizeOf(d.kernel_dtb) <= w.vbmeta
      BY <1>7 DEF PieceNames
    <3>2. size["kernel"] = SizeOf(d.mtk_kernel) + SizeOf(d.kernel) + SizeOf(d.kernel_dtb)
      BY <1>10 DEF SizesAgree
    <3>. HIDE DEF e, size
    <3>. QED  BY <1>9, <2>2, <3>1, <3>2
  <2>4. e["ramdisk"] \in Nat /\ size["ramdisk"] \in Nat /\ e["ramdisk"] + size["ramdisk"] <= w.vbmeta
    <3>1. /\ SizeOf(d.mtk_ramdisk) \in Nat /\ SizeOf(d.ramdisk) \in Nat
          /\ w.mtk_ramdisk \in Nat /\ w.ramdisk + SizeOf(d.ramdisk) <= w.vbmeta
      BY <1>7 DEF PieceNames
    <3>2. size["ramdisk"] = SizeOf(d.mtk_ramdisk) + SizeOf(d.ramdisk)
      BY <1>10 DEF SizesAgree
    <3>. HIDE DEF e, size
    <3>. QED  BY <1>9, <2>2, <3>1, <3>2
  <2>. QED  BY <2>1, <2>3, <2>4 DEF Blocks
<1>12. \A p \in Blocks : Bytes(C, e[p], size[p]) = Bytes(N.at, e[p], size[p])
  <2>. HIDE DEF e, size
  <2>1. w.vbmeta \in Nat
    BY <1>7 DEF PieceNames
  <2>. QED  BY <1>6, <1>8, <1>11, <2>1, BytesSame
<1>13. \A p \in Blocks : Bytes(C, f[p], size[p]) = Bytes(C, e[p], size[p])
  <2>1. \A p \in Blocks \ {"recovery_dtbo"} : f[p] = e[p]
    BY <1>9 DEF Blocks
  <2>2. hdr.dtbo_offset = IF d.recovery_dtbo # Missing THEN w.recovery_dtbo ELSE h.dtbo_offset
    BY <1>1 DEF HdrOf, DtboOffset
  <2>3. CASE d.recovery_dtbo # Missing
    BY <1>9, <2>1, <2>2, <2>3
  <2>4. CASE d.recovery_dtbo = Missing
    <3>1. size["recovery_dtbo"] = 0
      BY <1>7, <1>10, <2>4 DEF SizesAgree, PieceNames
    <3>2. f["recovery_dtbo"] \in Nat /\ e["recovery_dtbo"] \in Nat
      BY <1>1, <1>11, <2>2, <2>4 DEF Blocks
    <3>. HIDE DEF e, f, size
    <3>3. Bytes(C, f["recovery_dtbo"], 0) = {} /\ Bytes(C, e["recovery_dtbo"], 0) = {}
      BY <1>8, <3>2, NoBytes
    <3>. QED  BY <2>1, <3>1, <3>3
  <2>. QED  BY <2>3, <2>4
<1>. HIDE DEF e, f
<1>14. Checksum(hdr, C, f) = Checksum(N.hdr, N.at, e)
  BY <1>2, <1>12, <1>13, SumOf
<1>. QED  BY <1>3, <1>14 DEF e


\* Dividing twice is dividing once.
LEMMA DivTwice ==
    ASSUME NEW v \in Nat
    PROVE  /\ v = 16 * (v \div 16) + (v % 16)
           /\ (v \div 16) \div 128 = v \div 2048 /\ (v \div 2048) \div 128 = v \div 262144
           /\ (v \div 262144) \div 128 = v \div 33554432
<1>1. v = 16 * (v \div 16) + (v % 16)
  BY SMT
<1>2. (v \div 16) \div 128 = v \div 2048
  BY SMT
<1>3. (v \div 2048) \div 128 = v \div 262144
  BY SMT
<1>4. (v \div 262144) \div 128 = v \div 33554432
  BY SMT
<1>. QED  BY <1>1, <1>2, <1>3, <1>4, SMT

\* The five fields of a version and patch level give it back.
LEMMA OsRoundTrip ==
    ASSUME NEW v \in Nat, v \div OS_A < 128
    PROVE  PackOs(UnpackOs(v)) = v
<1>. DEFINE q1 == v \div 16
            q2 == v \div OS_C
            q3 == v \div OS_B
            q4 == v \div OS_A
<1>1. v = 16 * q1 + (v % 16) /\ q1 \div 128 = q2 /\ q2 \div 128 = q3 /\ q3 \div 128 = q4
  BY DivTwice, SMT DEF OS_A, OS_B, OS_C
<1>2. q1 \in Nat /\ q2 \in Nat /\ q3 \in Nat /\ q4 \in Nat /\ v % 16 \in Nat
  BY SMT DEF OS_A, OS_B, OS_C
<1>3. PackOs(UnpackOs(v)) = (q4 % 128) * OS_A + (q3 % 128) * OS_B + (q2 % 128) * OS_C
                            + (2000 + (q1 % 128) - 2000) * 16 + (v % 16)
  BY SMT DEF PackOs, UnpackOs
<1>. HIDE DEF q1, q2, q3, q4
<1>4. q1 = 128 * q2 + (q1 % 128) /\ q2 = 128 * q3 + (q2 % 128) /\ q3 = 128 * q4 + (q3 % 128) /\ q4 % 128 = q4
  <2>1. q4 < 128
    BY SMT DEF q4
  <2>. QED  BY <1>1, <1>2, <2>1, SMT
<1>5. q1 % 128 \in Nat /\ q2 % 128 \in Nat /\ q3 % 128 \in Nat
  BY <1>2, SMT
<1>. QED  BY <1>1, <1>2, <1>3, <1>4, <1>5, SMT DEF OS_A, OS_B, OS_C

\* A line cut in two and put together again.
LEMMA CutLine ==
    ASSUME NEW s \in Seq(Nat), NEW cut \in Nat, cut <= Len(s)
    PROVE  SubSeq(s, 1, cut) \o SubSeq(s, cut + 1, Len(s)) = s
<1>1. 1 \in 1 .. Len(s) + 1 /\ cut \in 1 - 1 .. Len(s) /\ Len(s) \in cut .. Len(s)
  OBVIOUS
<1>2. SubSeq(s, 1, cut) \o SubSeq(s, cut + 1, Len(s)) = SubSeq(s, 1, Len(s))
  BY <1>1, ConcatAdjacentSubSeq
<1>3. SubSeq(s, 1, Len(s)) = s
  BY SubSeqFull
<1>. QED  BY <1>2, <1>3

\* Both parts have room for what they get.
LEMMA CutFits ==
    ASSUME NEW n \in Nat, n <= BOOT_ARGS_SIZE + BOOT_EXTRA_ARGS_SIZE
    PROVE  LET cut == Upto(n, BOOT_ARGS_SIZE)
           IN  cut \in Nat /\ cut <= n /\ cut + Upto(n - cut, BOOT_EXTRA_ARGS_SIZE) = n
  BY DEF BOOT_ARGS_SIZE, BOOT_EXTRA_ARGS_SIZE, Upto

\* What is left of a line without the blanks at its end.
LEMMA TrimmedFacts ==
    ASSUME NEW s \in Seq(Nat)
    PROVE  Trimmed(s) \in Seq(Nat) /\ Len(Trimmed(s)) \in Nat /\ Len(Trimmed(s)) <= Len(s)
<1>. DEFINE T == {k \in 0..Len(s) : \A i \in (k + 1)..Len(s) : s[i] = BLANK}
            n == TrimmedLen(s)
<1>1. Len(s) \in T /\ T \in SUBSET Nat
  OBVIOUS
<1>2. n \in 0..Len(s)
  BY <1>1, MinFacts DEF TrimmedLen
<1>. HIDE DEF n
<1>3. 1 \in 1..Len(s) + 1 /\ n \in 1 - 1 .. Len(s)
  BY <1>2
<1>4. SubSeq(s, 1, n) \in Seq(Nat) /\ Len(SubSeq(s, 1, n)) = n
  BY <1>2, <1>3, SubSeqProperties
<1>. QED  BY <1>2, <1>4 DEF Trimmed, n

\* What is kept of a header through the header file.
HdrKept(new, old) ==
    /\ new.cmdline \o new.extra_cmdline = Trimmed(old.cmdline \o old.extra_cmdline)
    /\ Len(old.name) <= NAME_COPIED => new.name = Trimmed(old.name)
    /\ new.os_version = old.os_version

\* Loading the header file that was dumped changes no more than HdrKept allows.
LEMMA HdrRoundTrip ==
    ASSUME NEW h, IsHdr(h)
    PROVE  HdrKept(LoadHdr(h, DumpHdr(h)), h)
<1>. DEFINE s == h.cmdline \o h.extra_cmdline
            line == Trimmed(s)
            name == Trimmed(h.name)
            cut == Upto(Len(line), BOOT_ARGS_SIZE)
            l == LoadHdr(h, DumpHdr(h))
<1>1. s \in Seq(Nat) /\ Len(s) \in Nat /\ Len(s) = Len(h.cmdline) + Len(h.extra_cmdline)
  BY DEF IsHdr
<1>2. /\ DumpHdr(h).cmdline = s /\ DumpHdr(h).name = h.name
      /\ DumpHdr(h).os = UnpackOs(h.os_version)
  BY DEF DumpHdr
<1>3. PackOs(UnpackOs(h.os_version)) = h.os_version
  BY OsRoundTrip DEF IsHdr
<1>4. DOMAIN h = HdrFields
  BY DEF IsHdr, HdrFields
<1>5. /\ l.cmdline = SubSeq(line, 1, cut)
      /\ l.extra_cmdline = SubSeq(line, cut + 1, cut + Upto(Len(line) - cut, BOOT_EXTRA_ARGS_SIZE))
      /\ l.name = SubSeq(name, 1, Upto(Len(name), NAME_COPIED))
      /\ l.os_version = h.os_version
  BY <1>2, <1>3, <1>4 DEF LoadHdr, HdrFields
<1>6. line \in Seq(Nat) /\ Len(line) \in Nat /\ Len(line) <= BOOT_ARGS_SIZE + BOOT_EXTRA_ARGS_SIZE
  <2>1. Len(s) <= BOOT_ARGS_SIZE + BOOT_EXTRA_ARGS_SIZE
    BY <1>1 DEF IsHdr
  <2>2. line \in Seq(Nat) /\ Len(line) \in Nat /\ Len(line) <= Len(s)
    BY <1>1, TrimmedFacts
  <2>3. Len(s) \in Nat
    BY <1>1
  <2>. HIDE DEF line, s, cut, name, l
  <2>. QED  BY <2>1, <2>2, <2>3, SMT DEF BOOT_ARGS_SIZE, BOOT_EXTRA_ARGS_SIZE
<1>7. Len(h.name) <= NAME_COPIED => l.name = name
  <2>1. name \in Seq(Nat) /\ Len(name) \in Nat /\ Len(name) <= Len(h.name) /\ Len(h.name) \in Nat
    BY TrimmedFacts DEF IsHdr
  <2>2. SubSeq(name, 1, Len(name)) = name
    BY <2>1, SubSeqFull
  <2>. HIDE DEF name, l
  <2>3. Len(h.name) <= NAME_COPIED => Upto(Len(name), NAME_COPIED) = Len(name)
    BY <2>1 DEF Upto, NAME_COPIED
  <2>. QED  BY <1>5, <2>2, <2>3
<1>. HIDE DEF line, l, s, name
<1>8. cut \in Nat /\ cut <= Len(line) /\ cut + Upto(Len(line) - cut, BOOT_EXTRA_ARGS_SIZE) = Len(line)
  BY <1>6, CutFits
<1>. HIDE DEF cut
<1>9. SubSeq(line, 1, cut) \o SubSeq(line, cut + 1, Len(line)) = line
  BY <1>6, <1>8, CutLine
<1>. QED  BY <1>5, <1>7, <1>8, <1>9 DEF HdrKept, line, s, l, name


(***************************************************************************)
(* The commands                                                            *)
(***************************************************************************)

\* What holds between the commands: the files are parts of the image that
\* was unpacked, and the new image is made of them.
BootInv ==
    /\ bootStep \in {"idle", "unpacked", "repacked", "clean"}
    /\ bootFlags \in [n : BOOLEAN, h : BOOLEAN, skip : BOOLEAN]
    /\ bootStep = "idle" => bootFiles = NoFiles
    /\ bootStep \in {"unpacked", "repacked"} =>
        /\ bootImg \in BootImages /\ DOMAIN bootFiles = {"part", "header"}
        /\ FilesFit(bootFiles.part, Parse(bootImg))
        /\ bootFlags.h => bootFiles.header = DumpHdr(bootImg.hdr)
    /\ bootStep = "repacked" => bootNew = Repacked(bootImg, bootFiles.header, bootFiles.part, bootFlags.skip)

\* The files unpack writes are parts of the image.
LEMMA UnpackedFits ==
    ASSUME NEW img \in BootImages, NEW n \in BOOLEAN, NEW h \in BOOLEAN
    PROVE  FilesFit(Unpacked(img, n, h, NoFiles).part, Parse(img))
<1>. DEFINE b == Parse(img)
            part == Unpacked(img, n, h, NoFiles).part
            file(p) == IF p \in Recompressed /\ ~n /\ b.data[p].fmt \in COMPRESSED
                       THEN [b.data[p] EXCEPT !.fmt = "raw"] ELSE b.data[p]
<1>1. part = [p \in Parts |-> IF b.data[p] = Missing THEN Missing ELSE file(p)]
  BY DEF Unpacked, NoFiles
<1>2. \A p \in Parts : Maybe(b.data[p])
  BY ParseFacts DEF BlocksOf, MaybeAll
<1>3. \A p \in Parts : b.data[p] # Missing => Suits(p, b.data[p])
  BY ImageAssumption
<1>. HIDE DEF b, part
<1>4. \A p \in Parts : b.data[p] # Missing => IsData(file(p)) /\ file(p).what = b.data[p].what
  <2>. SUFFICES ASSUME NEW p \in Parts, b.data[p] # Missing
                PROVE  IsData(file(p)) /\ file(p).what = b.data[p].what
    OBVIOUS
  <2>. DEFINE x == b.data[p]
  <2>1. IsData(x)
    BY <1>2 DEF Maybe
  <2>. HIDE DEF x
  <2>2. IsData([x EXCEPT !.fmt = "raw"]) /\ [x EXCEPT !.fmt = "raw"].what = x.what
    BY <2>1 DEF IsData
  <2>. QED  BY <2>1, <2>2 DEF x
<1>. HIDE DEF file
<1>5. \A p \in Parts : part[p] = IF b.data[p] = Missing THEN Missing ELSE file(p)
  BY <1>1
<1>6. DOMAIN part = Parts /\ \A p \in Parts : Maybe(part[p])
  BY <1>1, <1>4 DEF Maybe
<1>7. \A p \in Parts : part[p] # Missing => b.data[p] # Missing /\ Suits(p, part[p])
  BY <1>3, <1>4, <1>5 DEF Suits
<1>8. FilesFit(part, b)
  BY <1>6, <1>7 DEF FilesFit, MaybeAll
<1>. QED  BY <1>8 DEF part, b

\* BootInv holds at the beginning.
LEMMA BootInvInit == BootInit => BootInv
  BY DEF BootInit, BootInv

\* Every command keeps it, and so does every edit.
LEMMA BootInvNext == BootInv /\ [BootNext]_bootVars => BootInv'
<1>. SUFFICES ASSUME BootInv, [BootNext]_bootVars
              PROVE  BootInv'
  OBVIOUS
<1>1. CASE Unpack
  <2>1. PICK img \in BootImages, n \in BOOLEAN, h \in BOOLEAN :
            /\ bootImg' = img /\ bootFlags' = [bootFlags EXCEPT !.n = n, !.h = h]
            /\ bootFiles' = Unpacked(img, n, h, bootFiles)
    BY <1>1 DEF Unpack
  <2>2. bootStep' = "unpacked" /\ bootFiles = NoFiles /\ bootFlags \in [n : BOOLEAN, h : BOOLEAN, skip : BOOLEAN]
    BY <1>1 DEF Unpack, BootInv
  <2>3. bootFlags' \in [n : BOOLEAN, h : BOOLEAN, skip : BOOLEAN] /\ bootFlags'.h = h
    BY <2>1, <2>2
  <2>4. FilesFit(bootFiles.part, Parse(bootImg))'
    BY <2>1, <2>2, UnpackedFits
  <2>5. DOMAIN bootFiles' = {"part", "header"} /\ (h => bootFiles'.header = DumpHdr(bootImg'.hdr))
    BY <2>1 DEF Unpacked
  <2>. QED  BY <2>1, <2>2, <2>3, <2>4, <2>5 DEF BootInv
<1>2. CASE EditFile
  <2>1. PICK e \in BootEdits : /\ bootFiles.part[e.part] # Missing
                               /\ bootFiles' = [bootFiles EXCEPT !.part[e.part] = e.data]
    BY <1>2 DEF EditFile
  <2>2. bootStep = "unpacked" /\ bootStep' = bootStep /\ bootImg' = bootImg /\ bootFlags' = bootFlags
    BY <1>2 DEF EditFile
  <2>3. /\ DOMAIN bootFiles = {"part", "header"} /\ FilesFit(bootFiles.part, Parse(bootImg))
    BY <2>2 DEF BootInv
  <2>. DEFINE part == bootFiles.part
              new == [part EXCEPT ![e.part] = e.data]
              b == Parse(bootImg)
  <2>4. bootFiles'.part = new /\ bootFiles'.header = bootFiles.header /\ DOMAIN bootFiles' = {"part", "header"}
    BY <2>1, <2>3
  <2>5. e.part \in Parts /\ Maybe(e.data) /\ (e.data # Missing => Suits(e.part, e.data))
    BY EditAssumption DEF Maybe
  <2>6. FilesFit(new, b)
    <3>. HIDE DEF b
    <3>1. FilesFit(part, b) /\ part[e.part] # Missing
      BY <2>1, <2>3 DEF b
    <3>. HIDE DEF part
    <3>2. DOMAIN new = Parts /\ \A p \in Parts : new[p] = IF p = e.part THEN e.data ELSE part[p]
      BY <3>1 DEF FilesFit, MaybeAll
    <3>. HIDE DEF new
    <3>. QED  BY <2>5, <3>1, <3>2 DEF FilesFit, MaybeAll
  <2>7. FilesFit(bootFiles.part, Parse(bootImg))'
    BY <2>2, <2>4, <2>6
  <2>. QED  BY <2>2, <2>4, <2>7 DEF BootInv
<1>3. CASE Repack
  <2>1. PICK skip \in BOOLEAN : /\ bootFlags' = [bootFlags EXCEPT !.skip = skip]
                                /\ bootNew' = Repacked(bootImg, bootFiles.header, bootFiles.part, skip)
    BY <1>3 DEF Repack
  <2>2. bootStep = "unpacked" /\ bootStep' = "repacked" /\ bootImg' = bootImg /\ bootFiles' = bootFiles
    BY <1>3 DEF Repack
  <2>3. bootFlags' \in [n : BOOLEAN, h : BOOLEAN, skip : BOOLEAN] /\ bootFlags'.skip = skip
        /\ bootFlags'.h = bootFlags.h
    BY <2>1 DEF BootInv
  <2>. QED  BY <2>1, <2>2, <2>3 DEF BootInv
<1>4. CASE Cleanup
  BY <1>4 DEF Cleanup, BootInv
<1>5. CASE UNCHANGED bootVars
  BY <1>5 DEF bootVars, BootInv
<1>. QED  BY <1>1, <1>2, <1>3, <1>4, <1>5 DEF BootNext

\* In every state with BootInv the new image is faithful.
LEMMA BootInvFaithful == BootInv => RepackFaithful
<1>. SUFFICES ASSUME BootInv, bootStep = "repacked"
              PROVE  RepackFaithful
  BY DEF RepackFaithful, PartsKept, ChecksumOfBlocks, VbmetaDisabled, HeaderKept
<1>. DEFINE img == bootImg
            part == bootFiles.part
            header == bootFiles.header
            skip == bootFlags.skip
            N == bootNew
<1>1. /\ img \in BootImages /\ FilesFit(part, Parse(img)) /\ N = Repacked(img, header, part, skip)
      /\ bootFlags.h => header = DumpHdr(img.hdr)
  BY DEF BootInv
<1>2. PICK d, w, base, hdr : RepackOf(N, img, header, part, skip, d, w, base, hdr)
  BY <1>1, RepackedFields
<1>3. Misplaced <=> MisplacedIn(Parse(img), part)
  BY DEF Misplaced, MisplacedIn
<1>4. \A p \in Parts : WantedFmt(p) = FmtOf(Parse(img), part, skip, p)
  BY DEF WantedFmt, FmtOf
<1>. HIDE DEF img, part, header, skip, N
<1>5. PartsKept
  <2>. SUFFICES ASSUME ~Misplaced
                PROVE  SameParts(Parse(img), Parse(N), part, skip)
    BY <1>4 DEF PartsKept, SameParts, img, part, skip, N
  <2>. QED  BY <1>1, <1>2, <1>3, PartsSame
<1>6. ChecksumOfBlocks
  <2>. SUFFICES ASSUME ~Misplaced, N.hdr.ver \in HasId
                PROVE  N.hdr.id = Checksum(N.hdr, N.at, [p \in Blocks |-> PreSize[N.pre] + BlockOffset(N.hdr)[p]])
    BY DEF ChecksumOfBlocks, N
  <2>. QED  BY <1>1, <1>2, <1>3, SumSame
<1>7. VbmetaDisabled
  <2>. SUFFICES ASSUME ~Misplaced, Parse(img).avb # Missing, N.room
                PROVE  /\ Parse(N).avb = [Parse(img).avb EXCEPT !.v = 3]
                       /\ N.at[N.footer[2]].what = "vbmeta"
    BY DEF VbmetaDisabled, img, N
  <2>. QED  BY <1>1, <1>2, <1>3, MetaSame
<1>8. HeaderKept
  <2>. SUFFICES ASSUME bootFlags.h
                PROVE  HdrKept(N.hdr, img.hdr)
    BY DEF HeaderKept, HdrKept, img, N
  <2>1. IsHdr(img.hdr) /\ DOMAIN img.hdr = HdrFields
    BY <1>1, ImageAssumption DEF IsHdr, HdrFields
  <2>2. HdrOf(hdr, img.hdr, header, d, w)
    BY <1>2, <2>1, NewHdrFacts DEF RepackOf
  <2>3. \A f \in {"cmdline", "extra_cmdline", "os_version", "name"} : N.hdr[f] = hdr[f]
    BY <1>2, <2>2 DEF RepackOf, HdrOf, HdrFields
  <2>. DEFINE l == Loaded(img.hdr, header)
  <2>4. \A f \in {"cmdline", "extra_cmdline", "os_version", "name"} : N.hdr[f] = l[f]
    BY <2>2, <2>3 DEF HdrOf
  <2>5. HdrKept(l, img.hdr)
    <3>1. header = DumpHdr(img.hdr)
      BY <1>1
    <3>2. "cmdline" \in DOMAIN DumpHdr(img.hdr) /\ "cmdline" \notin DOMAIN NoHdrFile
      BY DEF DumpHdr, NoHdrFile
    <3>3. l = LoadHdr(img.hdr, DumpHdr(img.hdr))
      BY <3>1, <3>2, Zenon DEF Loaded
    <3>. QED  BY <2>1, <3>3, HdrRoundTrip, Zenon
  <2>. HIDE DEF l
  <2>6. N.hdr.cmdline = l.cmdline /\ N.hdr.extra_cmdline = l.extra_cmdline /\ N.hdr.name = l.name
        /\ N.hdr.os_version = l.os_version
    BY <2>4
  <2>. QED  BY <2>5, <2>6, Zenon DEF HdrKept
<1>. QED  BY <1>5, <1>6, <1>7, <1>8 DEF RepackFaithful

\* repack is faithful to the files and to the old image: for images of any
\* layout a header can describe and for files of any size, content and
\* format, a second unpack, a boot loader's checksum and vbmeta find what was
\* asked for, and the header file brings back the header but for blanks at the
\* end of its texts and for the end of a long name.
THEOREM RepackIsFaithful == BootSpec => []RepackFaithful
<1>1. BootInit => BootInv
  BY BootInvInit
<1>2. BootInv /\ [BootNext]_bootVars => BootInv'
  BY BootInvNext
<1>3. BootInv => RepackFaithful
  BY BootInvFaithful
<1>. QED  BY <1>1, <1>2, <1>3, PTL DEF BootSpec

(***************************************************************************)
(* Ramdisks: what is kept                                                  *)
(***************************************************************************)

\* Where the entry after the one at o begins, for a reader.
NextAt(img, o) == NextHeader(o, img[o].name, img[o].e)

\* The file holds the entries S of the archive a, one after the other, and
\* ends at pos.
FileInv(img, a, S, pos) ==
    /\ pos \in Nat /\ S \subseteq DOMAIN a /\ 0 \in DOMAIN img \cup {pos}
    /\ \A o \in DOMAIN img :
        /\ o \in Nat /\ img[o].name \in S /\ img[o].e = a[img[o].name]
        /\ NextAt(img, o) \in DOMAIN img \cup {pos} /\ NextAt(img, o) <= pos
    /\ \A o, u \in DOMAIN img : o < u => NextAt(img, o) <= u
    /\ \A n \in S : \E o \in DOMAIN img : img[o].name = n

\* The file holds the archive a, and its trailer at end.
Complete(img, a, end) ==
    /\ end \in DOMAIN img /\ end \in Nat /\ 0 \in DOMAIN img /\ img[end].name = Trailer
    /\ \A o \in DOMAIN img \ {end} :
        /\ o \in Nat /\ o < end /\ img[o].name \in DOMAIN a /\ img[o].e = a[img[o].name]
        /\ NextAt(img, o) \in DOMAIN img
    /\ \A o \in DOMAIN img \ {end} : \A u \in DOMAIN img : o < u => NextAt(img, o) <= u
    /\ \A n \in DOMAIN a : \E o \in DOMAIN img \ {end} : img[o].name = n
IsFile(img, a) == \E end \in DOMAIN img : Complete(img, a, end)

\* What lies before pos has been read into b, which is a part of the archive a
\* and has the entries S in any case.
LoadInv(img, a, S, b, pos) ==
    /\ pos \in DOMAIN img /\ S \subseteq DOMAIN b
    /\ b = [p \in DOMAIN b |-> b[p]] /\ \A p \in DOMAIN b : p \in DOMAIN a /\ b[p] = a[p]
    /\ \A o \in DOMAIN img : o < pos => img[o].name \in DOMAIN b

\* What compress puts into one entry, and what the flashed archive is.
Inner(s) == Drop(s, {InitFile})
Outer(s, xz) == IF DOMAIN xz = {} THEN s ELSE Put([p \in DOMAIN s \cap {InitFile} |-> s[p]], RAMDISK_XZ, Reg({"xz"}))

Stock(og) == {p \in DOMAIN og : ~Under(Backup, p)}
Same(c, og, p) == p \in DOMAIN c /\ c[p].data = og[p].data

\* The entry n of .backup is the stock entry of its name.
Saves(c, og, n) == Tail(n) \in Stock(og) /\ n = Backup \o Tail(n) /\ c[n].data = og[Tail(n)].data

\* What the installer has made lets the stock archive be restored.
SavedOK(s, og, rm) ==
    /\ IsArchive(s) /\ MagiskConfig \in DOMAIN s /\ {Trailer, RAMDISK_XZ} \cap DOMAIN s = {}
    /\ rm # {} => Rmlist \in DOMAIN s
    /\ \A n \in rm : ~Under(Backup, n) /\ n \notin DOMAIN og
    /\ \A n \in DOMAIN s : ~Under(Backup, n) => n \in rm \cup Stock(og)
    /\ \A n \in DOMAIN s : Under(Backup, n) => n \in {Backup, MagiskConfig, Rmlist} \/ Saves(s, og, n)
    /\ \A q \in Stock(og) : Same(s, og, q) \/ Backup \o q \in DOMAIN s

\* The same while it is being restored; an entry of .backup has its turn
\* before it.
RestoreOK(c, og, it) ==
    /\ it \subseteq DOMAIN c
    /\ \A n \in DOMAIN c : ~Under(Backup, n) => n \in Stock(og) /\ (Same(c, og, n) \/ Backup \o n \in DOMAIN c)
    /\ \A n \in DOMAIN c : Under(Backup, n) => n \in it /\ (n \in {Backup, MagiskConfig} \/ Saves(c, og, n))
    /\ \A q \in Stock(og) : ~KnownStuff(q) => Same(c, og, q) \/ Backup \o q \in DOMAIN c

Steps == {"idle", "edit", "saved", "packing", "flashing", "flashed", "reading", "read", "unpacking", "unpacked",
          "tested", "restore", "restored"}
Early == cpioStep \in {"idle", "edit"}
Out == Outer(cpioSaved, cpioXz)

StockInv ==
    /\ cpioStep \in Steps
    /\ cpioStep # "idle" => IsArchive(orig) /\ \A p \in DOMAIN orig : Plain(p)
    /\ cpioStep = "edit" => IsArchive(cpio) /\ \A p \in DOMAIN cpio : Plain(p)
    /\ Early => DOMAIN cpioXz = {}
SavedInv == ~Early => SavedOK(cpioSaved, orig, cpioRm)
PackInv ==
    /\ DOMAIN cpioXz # {} => IsFile(cpioXz, Inner(cpioSaved))
    /\ cpioStep = "packing" => /\ DOMAIN cpioXz = {} /\ cpio = cpioSaved /\ cpioIt \subseteq DOMAIN Inner(cpioSaved)
                               /\ FileInv(image, Inner(cpioSaved), DOMAIN Inner(cpioSaved) \ cpioIt, cpioPos)
FlashInv ==
    /\ cpioStep \in {"saved", "flashing", "read"} => cpio = Out
    /\ cpioStep = "flashing" => cpioIt \subseteq DOMAIN Out /\ FileInv(image, Out, DOMAIN Out \ cpioIt, cpioPos)
    /\ cpioStep \in {"flashed", "reading"} => IsFile(image, Out)
    /\ cpioStep = "flashed" => cpio = <<>>
    /\ cpioStep = "reading" => LoadInv(image, Out, {}, cpio, cpioPos)
UnpackInv ==
    /\ cpioStep = "unpacking" => /\ IsFile(image, Inner(cpioSaved))
                                 /\ LoadInv(image, cpioSaved, DOMAIN cpioSaved \cap {InitFile}, cpio, cpioPos)
    /\ cpioStep = "unpacked" => cpio = cpioSaved
    /\ cpioStep = "tested" => {"magisk", "unsupported"} \cap cpioTest # {} /\ ("magisk" \in cpioTest => cpio = cpioSaved)
RestoreInv ==
    /\ cpioStep = "restore" => RestoreOK(cpio, orig, cpioIt)
    /\ RestoresStock

CpioInv == StockInv /\ SavedInv /\ PackInv /\ FlashInv /\ UnpackInv /\ RestoreInv

(***************************************************************************)
(* Ramdisks: names                                                         *)
(***************************************************************************)

\* A name is a sequence of components.
LEMMA PathType ==
    /\ \A p \in Paths : p \in Seq(STRING)
    /\ Backup \in Seq(STRING) /\ MagiskConfig \in Seq(STRING) /\ Rmlist \in Seq(STRING) /\ RAMDISK_XZ \in Seq(STRING)
<1>1. \A p \in Paths : p \in Seq(STRING)
  BY NamesAssumption DEF Paths
<1>. QED  BY <1>1, NamesAssumption DEF Special

\* A name is under .backup if that is its first component.
LEMMA UnderBackup ==
    ASSUME NEW S, NEW p \in Seq(S)
    PROVE  Under(Backup, p) <=> Len(p) >= 1 /\ p[1] = ".backup"
<1>1. Len(Backup) = 1
  BY DEF Backup
<1>2. ASSUME Len(p) >= 1
      PROVE  SubSeq(p, 1, 1) = <<p[1]>>
  <2>. DEFINE t == SubSeq(p, 1, 1)
  <2>1. \A i \in 1 .. 1 : p[i] \in S
    BY <1>2
  <2>2. /\ t \in Seq(S) /\ Len(t) = IF 1 <= 1 THEN 1 - 1 + 1 ELSE 0
        /\ \A i \in 1 .. 1 - 1 + 1 : t[i] = p[1 + i - 1]
    BY <2>1, SubSeqProperties
  <2>3. t \in Seq(S) /\ Len(t) = 1 /\ t[1] = p[1]
    BY <2>2
  <2>. HIDE DEF t
  <2>4. <<p[1]>> \in Seq(S) /\ Len(<<p[1]>>) = 1 /\ <<p[1]>>[1] = p[1]
    BY <2>1
  <2>5. \A i \in 1 .. 1 : t[i] = <<p[1]>>[i]
    BY <2>3, <2>4
  <2>6. t = <<p[1]>>
    BY <2>3, <2>4, <2>5, SeqEqual
  <2>. QED  BY <2>6 DEF t
<1>3. <<p[1]>> = <<".backup">> <=> p[1] = ".backup"
  OBVIOUS
<1>. QED  BY <1>1, <1>2, <1>3 DEF Under, Backup

\* A name put under .backup comes back when the first component is taken off.
LEMMA BackupPath ==
    ASSUME NEW q \in Seq(STRING)
    PROVE  /\ Backup \o q \in Seq(STRING) /\ Under(Backup, Backup \o q)
           /\ Tail(Backup \o q) = q
<1>1. Len(Backup) = 1 /\ Backup[1] = ".backup" /\ Backup \in Seq(STRING)
  BY PathType DEF Backup
<1>2. /\ Backup \o q \in Seq(STRING) /\ Len(Backup \o q) = 1 + Len(q)
      /\ \A i \in 1 .. 1 + Len(q) : (Backup \o q)[i] = IF i <= 1 THEN Backup[i] ELSE q[i - 1]
  <2>. DEFINE b == Backup
  <2>. HIDE DEF b
  <2>1. b \in Seq(STRING) /\ Len(b) = 1
    BY <1>1 DEF b
  <2>2. /\ b \o q \in Seq(STRING) /\ Len(b \o q) = Len(b) + Len(q)
        /\ \A i \in 1 .. Len(b) + Len(q) : (b \o q)[i] = IF i <= Len(b) THEN b[i] ELSE q[i - Len(b)]
    BY <2>1, ConcatProperties
  <2>. QED  BY <2>1, <2>2 DEF b
<1>3. Len(q) \in Nat
  OBVIOUS
<1>4. (Backup \o q)[1] = ".backup" /\ Len(Backup \o q) >= 1 /\ Backup \o q # <<>>
  BY <1>1, <1>2, <1>3
<1>5. Under(Backup, Backup \o q)
  BY <1>2, <1>4, UnderBackup
<1>6. /\ Tail(Backup \o q) \in Seq(STRING) /\ Len(Tail(Backup \o q)) = Len(q)
      /\ \A i \in 1 .. Len(q) : Tail(Backup \o q)[i] = (Backup \o q)[i + 1]
  <2>1. /\ Tail(Backup \o q) \in Seq(STRING) /\ Len(Tail(Backup \o q)) = Len(Backup \o q) - 1
        /\ \A i \in 1 .. Len(Tail(Backup \o q)) : Tail(Backup \o q)[i] = (Backup \o q)[i + 1]
    BY <1>2, <1>4, HeadTailProperties
  <2>. QED  BY <2>1, <1>2, <1>3
<1>7. \A i \in 1 .. Len(q) : (Backup \o q)[i + 1] = q[i]
  <2>. SUFFICES ASSUME NEW i \in 1 .. Len(q)
                PROVE  (Backup \o q)[i + 1] = q[i]
    OBVIOUS
  <2>1. i + 1 \in 1 .. 1 + Len(q) /\ ~(i + 1 <= 1) /\ (i + 1) - 1 = i
    BY <1>3
  <2>. QED  BY <2>1, <1>2
<1>8. \A i \in 1 .. Len(q) : Tail(Backup \o q)[i] = q[i]
  BY <1>6, <1>7
<1>9. Tail(Backup \o q) = q
  <2>. DEFINE t == Tail(Backup \o q)
  <2>1. t \in Seq(STRING) /\ Len(t) = Len(q) /\ \A i \in 1 .. Len(q) : t[i] = q[i]
    BY <1>6, <1>8
  <2>. HIDE DEF t
  <2>2. t = q
    BY <2>1, SeqEqual
  <2>. QED  BY <2>2 DEF t
<1>. QED  BY <1>2, <1>5, <1>9

\* The names the tool takes for itself.
LEMMA OwnNames ==
    /\ Under(Backup, Backup) /\ Under(Backup, MagiskConfig) /\ Under(Backup, Rmlist)
    /\ ~Under(Backup, RAMDISK_XZ) /\ ~Under(Backup, Trailer) /\ ~Under(Backup, InitFile)
    /\ Backup # MagiskConfig /\ Backup # Rmlist /\ MagiskConfig # Rmlist /\ RAMDISK_XZ # InitFile /\ RAMDISK_XZ # Trailer
    /\ Tail(Backup) = <<>> /\ Tail(MagiskConfig) = <<".magisk">> /\ Tail(Rmlist) = <<".rmlist">>
<1>1. Under(Backup, Backup) /\ Under(Backup, MagiskConfig) /\ Under(Backup, Rmlist) /\ ~Under(Backup, RAMDISK_XZ)
  <2>1. /\ Len(Backup) >= 1 /\ Backup[1] = ".backup" /\ Len(MagiskConfig) >= 1 /\ MagiskConfig[1] = ".backup"
        /\ Len(Rmlist) >= 1 /\ Rmlist[1] = ".backup" /\ RAMDISK_XZ[1] # ".backup"
    BY DEF Backup, MagiskConfig, Rmlist, RAMDISK_XZ
  <2>. QED  BY <2>1, PathType, UnderBackup
<1>2. ~Under(Backup, Trailer) /\ ~Under(Backup, InitFile)
  <2>1. Trailer \in Seq({"TRAILER!!!"}) /\ Trailer[1] # ".backup"
    BY DEF Trailer
  <2>2. InitFile \in Seq({"init"}) /\ InitFile[1] # ".backup"
    BY DEF InitFile
  <2>. QED  BY <2>1, <2>2, UnderBackup
<1>3. Backup # MagiskConfig /\ Backup # Rmlist /\ MagiskConfig # Rmlist /\ RAMDISK_XZ # InitFile /\ RAMDISK_XZ # Trailer
  BY DEF Backup, MagiskConfig, Rmlist, RAMDISK_XZ, InitFile, Trailer
<1>4. Tail(Backup) = <<>> /\ Tail(MagiskConfig) = <<".magisk">> /\ Tail(Rmlist) = <<".rmlist">>
  BY DEF Backup, MagiskConfig, Rmlist
<1>. QED  BY <1>1, <1>2, <1>3, <1>4

\* A plain name has a place of its own under .backup.
LEMMA PlainBackup ==
    ASSUME NEW q, Plain(q)
    PROVE  /\ q \in Paths /\ q \notin {Trailer, RAMDISK_XZ} /\ Backup \o q \notin {Backup, MagiskConfig, Rmlist}
           /\ Under(Backup, Backup \o q) /\ Tail(Backup \o q) = q
           /\ ~Under(Backup, q) => Backup \o q \in Paths
<1>1. q \in Paths /\ q \in Seq(STRING) /\ q \notin {<<>>, RAMDISK_XZ, Trailer, <<".magisk">>, <<".rmlist">>}
  BY PathType DEF Plain
<1>2. Under(Backup, Backup \o q) /\ Tail(Backup \o q) = q
  BY <1>1, BackupPath
<1>3. Backup \o q \notin {Backup, MagiskConfig, Rmlist}
  BY <1>1, <1>2, OwnNames
<1>. QED  BY <1>1, <1>2, <1>3 DEF Plain

\* The iterator is at one of the entries it has before it.
LEMMA FirstIn ==
    ASSUME NEW S \in SUBSET Paths, S # {}
    PROVE  First(S) \in S
<1>. DEFINE T == {i \in DOMAIN Names : Names[i] \in S}
<1>1. T \in SUBSET Nat /\ T # {}
  BY NamesAssumption DEF Paths
<1>. HIDE DEF T
<1>2. Min(T) \in T
  BY <1>1, MinFacts
<1>. QED  BY <1>2 DEF First, T

(***************************************************************************)
(* Ramdisks: files                                                         *)
(***************************************************************************)

\* Rounding up to a multiple of four.
LEMMA FourFacts ==
    ASSUME NEW x \in Nat
    PROVE  Align(x) \in Nat /\ Align(x) >= x /\ Align(Align(x)) = Align(x)
  BY DEF Align

\* dump and load agree on where the next entry begins.
LEMMA NextFacts ==
    ASSUME NEW o \in Nat, NEW name \in Paths, NEW e, IsEntry(e)
    PROVE  /\ NextHeader(o, name, e) \in Nat /\ NextHeader(o, name, e) > o
           /\ AfterData(DataAt(o, name), e) = NextHeader(o, name, e)
<1>. DEFINE n == NameSize(name)
            f == FileSize(e.data)
            d == Align(o + HEADER + n)
<1>1. n \in Nat /\ f \in Nat
  BY NamesAssumption DEF IsEntry
<1>. HIDE DEF n, f
<1>2. o + HEADER + n \in Nat /\ o + HEADER + n > o
  BY <1>1 DEF HEADER
<1>3. d \in Nat /\ d > o /\ Align(d) = d
  BY <1>2, FourFacts
<1>. HIDE DEF d
<1>4. d + f \in Nat /\ d + f >= d
  BY <1>1, <1>3
<1>5. Align(d + f) \in Nat /\ Align(d + f) >= d + f
  BY <1>4, FourFacts
<1>6. Align(d + f) > o
  BY <1>1, <1>3, <1>5
<1>7. f = 0 => Align(d + f) = d
  BY <1>3
<1>8. NextHeader(o, name, e) = Align(d + f) /\ AfterData(DataAt(o, name), e) = IF f = 0 THEN d ELSE Align(d + f)
  BY DEF NextHeader, AfterData, DataAt, d, f, n
<1>. QED  BY <1>5, <1>6, <1>7, <1>8

\* The entries of a file are those of an archive.
LEMMA FileNext ==
    ASSUME NEW img, NEW a, IsArchive(a), NEW S, NEW pos, FileInv(img, a, S, pos), NEW o \in DOMAIN img
    PROVE  /\ o \in Nat /\ pos \in Nat /\ NextAt(img, o) \in Nat /\ o < NextAt(img, o) /\ NextAt(img, o) <= pos
           /\ o < pos
<1>1. o \in Nat /\ img[o].name \in Paths /\ IsEntry(img[o].e) /\ pos \in Nat /\ NextAt(img, o) <= pos
  BY DEF FileInv, IsArchive
<1>2. NextAt(img, o) \in Nat /\ NextAt(img, o) > o
  BY <1>1, NextFacts DEF NextAt
<1>. QED  BY <1>1, <1>2

\* The next entry is written.
LEMMA FileGrows ==
    ASSUME NEW img, NEW a, IsArchive(a), NEW S, NEW pos, FileInv(img, a, S, pos), NEW p \in DOMAIN a
    PROVE  FileInv(Put(img, pos, [name |-> p, e |-> a[p]]), a, S \cup {p}, AfterData(DataAt(pos, p), a[p]))
<1>. DEFINE new == Put(img, pos, [name |-> p, e |-> a[p]])
            next == AfterData(DataAt(pos, p), a[p])
<1>1. pos \in Nat /\ S \subseteq DOMAIN a /\ pos \notin DOMAIN img
  <2>1. pos \in Nat /\ S \subseteq DOMAIN a
    BY DEF FileInv
  <2>2. \A o \in DOMAIN img : o < pos /\ o \in Nat
    BY FileNext
  <2>. QED  BY <2>1, <2>2
<1>2. /\ DOMAIN new = DOMAIN img \cup {pos} /\ new[pos].name = p /\ new[pos].e = a[p]
      /\ \A o \in DOMAIN img : new[o] = img[o]
  BY <1>1 DEF Put
<1>. HIDE DEF new
<1>3. p \in Paths /\ IsEntry(a[p])
  BY DEF IsArchive
<1>4. next \in Nat /\ next > pos /\ next = NextAt(new, pos)
  BY <1>1, <1>2, <1>3, NextFacts DEF NextAt
<1>. HIDE DEF next
<1>5. \A o \in DOMAIN img : NextAt(new, o) = NextAt(img, o)
  BY <1>2 DEF NextAt
<1>6. 0 \in DOMAIN new \cup {next}
  BY <1>2 DEF FileInv
<1>7. ASSUME NEW o \in DOMAIN new
      PROVE  /\ o \in Nat /\ new[o].name \in S \cup {p} /\ new[o].e = a[new[o].name]
             /\ NextAt(new, o) \in DOMAIN new \cup {next} /\ NextAt(new, o) <= next
  <2>1. CASE o = pos
    BY <2>1, <1>1, <1>2, <1>4
  <2>2. CASE o \in DOMAIN img
    <3>1. o \in Nat /\ NextAt(img, o) \in Nat /\ NextAt(img, o) <= pos
      BY <2>2, FileNext
    <3>2. img[o].name \in S /\ img[o].e = a[img[o].name] /\ NextAt(img, o) \in DOMAIN img \cup {pos}
      BY <2>2 DEF FileInv
    <3>. QED  BY <2>2, <3>1, <3>2, <1>1, <1>2, <1>4, <1>5
  <2>. QED  BY <2>1, <2>2, <1>2
<1>8. ASSUME NEW o \in DOMAIN new, NEW u \in DOMAIN new, o < u
      PROVE  NextAt(new, o) <= u
  <2>1. CASE o \in DOMAIN img /\ u \in DOMAIN img
    BY <2>1, <1>5, <1>8 DEF FileInv
  <2>2. CASE o \in DOMAIN img /\ u = pos
    BY <2>2, <1>5, FileNext
  <2>3. CASE o = pos
    <3>1. u # pos
      BY <2>3, <1>8, <1>1
    <3>2. u \in DOMAIN img
      BY <3>1, <1>2
    <3>3. u < pos /\ u \in Nat
      BY <3>2, FileNext
    <3>. QED  BY <3>3, <2>3, <1>8, <1>1
  <2>. QED  BY <2>1, <2>2, <2>3, <1>2
<1>9. ASSUME NEW n \in S \cup {p}
      PROVE  \E o \in DOMAIN new : new[o].name = n
  BY <1>2 DEF FileInv
<1>10. FileInv(new, a, S \cup {p}, next)
  BY <1>1, <1>4, <1>6, <1>7, <1>8, <1>9 DEF FileInv
<1>. QED  BY <1>10 DEF new, next

\* With the trailer the file is complete.
LEMMA FileEnds ==
    ASSUME NEW img, NEW a, IsArchive(a), NEW pos, FileInv(img, a, DOMAIN a, pos)
    PROVE  IsFile(WithTrailer(img, pos), a)
<1>. DEFINE new == WithTrailer(img, pos)
<1>1. pos \in Nat /\ pos \notin DOMAIN img
  <2>1. pos \in Nat
    BY DEF FileInv
  <2>2. \A o \in DOMAIN img : o < pos /\ o \in Nat
    BY FileNext
  <2>. QED  BY <2>1, <2>2
<1>2. /\ DOMAIN new = DOMAIN img \cup {pos} /\ new[pos].name = Trailer
      /\ \A o \in DOMAIN img : new[o] = img[o]
  BY <1>1 DEF Put, WithTrailer
<1>. HIDE DEF new
<1>3. DOMAIN new \ {pos} = DOMAIN img
  BY <1>1, <1>2
<1>4. \A o \in DOMAIN img : NextAt(new, o) = NextAt(img, o)
  BY <1>2 DEF NextAt
<1>5. ASSUME NEW o \in DOMAIN img
      PROVE  /\ o \in Nat /\ o < pos /\ new[o].name \in DOMAIN a /\ new[o].e = a[new[o].name]
             /\ NextAt(new, o) \in DOMAIN new
  <2>1. o \in Nat /\ o < pos
    BY FileNext
  <2>2. img[o].name \in DOMAIN a /\ img[o].e = a[img[o].name] /\ NextAt(img, o) \in DOMAIN img \cup {pos}
    BY DEF FileInv
  <2>. QED  BY <2>1, <2>2, <1>2, <1>4
<1>6. ASSUME NEW o \in DOMAIN img, NEW u \in DOMAIN new, o < u
      PROVE  NextAt(new, o) <= u
  <2>1. CASE u = pos
    BY <2>1, <1>4, FileNext
  <2>2. CASE u \in DOMAIN img
    BY <2>2, <1>4, <1>6 DEF FileInv
  <2>. QED  BY <2>1, <2>2, <1>2
<1>7. ASSUME NEW n \in DOMAIN a
      PROVE  \E o \in DOMAIN img : new[o].name = n
  BY <1>2 DEF FileInv
<1>8. 0 \in DOMAIN new
  BY <1>2 DEF FileInv
<1>9. Complete(new, a, pos)
  BY <1>1, <1>2, <1>3, <1>5, <1>6, <1>7, <1>8 DEF Complete
<1>. QED  BY <1>2, <1>9 DEF IsFile, new

\* An entry is read: what lies before the next one has been read.
LEMMA LoadGrows ==
    ASSUME NEW img, NEW a, NEW full, NEW S, NEW b, NEW pos, IsArchive(full),
           IsFile(img, a), LoadInv(img, full, S, b, pos), img[pos].name # Trailer,
           \A n \in DOMAIN a : n \in DOMAIN full /\ a[n] = full[n]
    PROVE  LoadInv(img, full, S, Put(b, img[pos].name, img[pos].e), NextAt(img, pos))
<1>. DEFINE name == img[pos].name
            e == img[pos].e
            next == NextAt(img, pos)
            new == Put(b, name, e)
<1>1. PICK end \in DOMAIN img : Complete(img, a, end)
  BY DEF IsFile
<1>2. pos \in DOMAIN img \ {end}
  BY <1>1 DEF Complete, LoadInv
<1>3. /\ pos \in Nat /\ name \in DOMAIN full /\ e = full[name] /\ next \in DOMAIN img
      /\ \A u \in DOMAIN img : u \in Nat /\ (pos < u => next <= u)
  BY <1>1, <1>2 DEF Complete
<1>4. next \in Nat
  BY <1>3
<1>. HIDE DEF next
<1>5. /\ DOMAIN new = DOMAIN b \cup {name} /\ new[name] = e /\ \A n \in DOMAIN b \ {name} : new[n] = b[n]
      /\ new = [n \in DOMAIN new |-> new[n]]
  BY DEF Put
<1>. HIDE DEF new, name, e
<1>6. \A n \in DOMAIN new : n \in DOMAIN full /\ new[n] = full[n]
  BY <1>3, <1>5 DEF LoadInv
<1>7. ASSUME NEW o \in DOMAIN img, o < next
      PROVE  img[o].name \in DOMAIN new
  <2>1. ~(pos < o)
    BY <1>3, <1>4, <1>7
  <2>2. o < pos \/ o = pos
    BY <2>1, <1>3
  <2>3. CASE o < pos
    BY <2>3, <1>5 DEF LoadInv
  <2>4. CASE o = pos
    BY <2>4, <1>5 DEF name
  <2>. QED  BY <2>2, <2>3, <2>4
<1>8. S \subseteq DOMAIN new
  BY <1>5 DEF LoadInv
<1>9. LoadInv(img, full, S, new, next)
  BY <1>3, <1>5, <1>6, <1>7, <1>8 DEF LoadInv
<1>. QED  BY <1>9 DEF new, name, e, next

\* At the trailer everything has been read.
LEMMA LoadEnds ==
    ASSUME NEW img, NEW a, NEW full, NEW S, NEW b, NEW pos, IsArchive(full), Trailer \notin DOMAIN a,
           IsFile(img, a), LoadInv(img, full, S, b, pos), img[pos].name = Trailer,
           DOMAIN full \subseteq S \cup DOMAIN a
    PROVE  b = full
<1>1. PICK end \in DOMAIN img : Complete(img, a, end)
  BY DEF IsFile
<1>2. pos = end
  BY <1>1 DEF Complete, LoadInv
<1>3. ASSUME NEW n \in DOMAIN full
      PROVE  n \in DOMAIN b
  <2>1. CASE n \in S
    BY <2>1 DEF LoadInv
  <2>2. CASE n \in DOMAIN a
    <3>1. PICK o \in DOMAIN img \ {end} : img[o].name = n
      BY <2>2, <1>1 DEF Complete
    <3>2. o < pos
      BY <1>1, <1>2, <3>1 DEF Complete
    <3>. QED  BY <3>1, <3>2 DEF LoadInv
  <2>. QED  BY <1>3, <2>1, <2>2
<1>4. DOMAIN b = DOMAIN full
  BY <1>3 DEF LoadInv
<1>5. b = [p \in DOMAIN b |-> b[p]] /\ full = [p \in DOMAIN full |-> full[p]] /\ \A p \in DOMAIN b : b[p] = full[p]
  BY DEF LoadInv, IsArchive
<1>. QED  BY <1>4, <1>5

\* Loading begins with what is there.
LEMMA LoadBegins ==
    ASSUME NEW img, NEW a, NEW full, NEW S, NEW b, IsFile(img, a),
           S \subseteq DOMAIN b, b = [p \in DOMAIN b |-> b[p]], \A p \in DOMAIN b : p \in DOMAIN full /\ b[p] = full[p]
    PROVE  LoadInv(img, full, S, b, 0)
<1>1. PICK end \in DOMAIN img : Complete(img, a, end)
  BY DEF IsFile
<1>2. 0 \in DOMAIN img /\ \A o \in DOMAIN img : o \in Nat
  BY <1>1 DEF Complete
<1>. QED  BY <1>2 DEF LoadInv

(***************************************************************************)
(* Ramdisks: the backup                                                    *)
(***************************************************************************)

\* Entries are dropped; an entry is put.
IsDrop(b, a, S) == DOMAIN b = DOMAIN a \ S /\ \A p \in DOMAIN a \ S : b[p] = a[p]
IsPut(b, a, p, e) == DOMAIN b = DOMAIN a \cup {p} /\ b[p] = e /\ \A q \in DOMAIN a \ {p} : b[q] = a[q]

\* What Drop and Put return.
LEMMA DropFacts ==
    ASSUME NEW a, NEW S
    PROVE  IsDrop(Drop(a, S), a, S) /\ (IsArchive(a) => IsArchive(Drop(a, S)))
<1>1. DOMAIN Drop(a, S) = DOMAIN a \ S /\ \A p \in DOMAIN a \ S : Drop(a, S)[p] = a[p]
  BY DEF Drop
<1>2. Drop(a, S) = [p \in DOMAIN Drop(a, S) |-> Drop(a, S)[p]]
  BY DEF Drop
<1>. QED  BY <1>1, <1>2 DEF IsArchive, IsDrop

\* The same for Put.
LEMMA PutFacts ==
    ASSUME NEW a, NEW p, NEW e
    PROVE  /\ IsPut(Put(a, p, e), a, p, e)
           /\ IsArchive(a) /\ p \in Paths /\ IsEntry(e) => IsArchive(Put(a, p, e))
<1>1. /\ DOMAIN Put(a, p, e) = DOMAIN a \cup {p} /\ Put(a, p, e)[p] = e
      /\ \A q \in DOMAIN a \ {p} : Put(a, p, e)[q] = a[q]
  BY DEF Put
<1>2. Put(a, p, e) = [q \in DOMAIN Put(a, p, e) |-> Put(a, p, e)[q]]
  BY DEF Put
<1>. QED  BY <1>1, <1>2 DEF IsArchive, IsPut

\* The entries of the installer's own files.
LEMMA OwnEntries == IsEntry(Dir) /\ IsEntry(Reg({})) /\ IsEntry(Reg({"config"})) /\ IsEntry(Reg({"xz"}))
  BY NamesAssumption DEF IsEntry, Dir, Reg

\* What backup keeps of the stock entries o, for an archive a that has no
\* .backup: the entry under .backup of what is not the same.
BackOK(s, a, o) ==
    /\ IsArchive(s) /\ DOMAIN a \subseteq DOMAIN s
    /\ \A n \in DOMAIN s : ~Under(Backup, n) => n \in DOMAIN a /\ s[n] = a[n]
    /\ ~(DOMAIN a \subseteq DOMAIN o) => Rmlist \in DOMAIN s
    /\ \A n \in DOMAIN s : Under(Backup, n) => n \in {Backup, Rmlist} \/ (/\ Tail(n) \in DOMAIN o /\ n = Backup \o Tail(n)
                                                                         /\ s[n] = o[Tail(n)])
    /\ \A q \in Different(a, o) : Backup \o q \in DOMAIN s

\* bkup_entries by entry.
LEMMA BkupFacts ==
    ASSUME NEW a, NEW o, IsArchive(o), \A p \in DOMAIN o : Plain(p) /\ ~Under(Backup, p)
    PROVE  LET b == BkupEntries(a, o)
           IN  /\ IsArchive(b) /\ Backup \in DOMAIN b
               /\ \A n \in DOMAIN b : Under(Backup, n)
               /\ \A n \in DOMAIN b : n \in {Backup, Rmlist} \/ (/\ Tail(n) \in DOMAIN o /\ n = Backup \o Tail(n)
                                                                 /\ b[n] = o[Tail(n)])
               /\ ~(DOMAIN a \subseteq DOMAIN o) => Rmlist \in DOMAIN b
               /\ \A q \in Different(a, o) : Backup \o q \in DOMAIN b
<1>. DEFINE b == BkupEntries(a, o)
            old == {Backup \o q : q \in Different(a, o)}
            list == IF DOMAIN a \subseteq DOMAIN o THEN {} ELSE {Rmlist}
<1>1. Different(a, o) \subseteq DOMAIN o
  BY DEF Different
<1>2. \A q \in DOMAIN o : /\ Backup \o q \in Paths \ {Backup, Rmlist} /\ Under(Backup, Backup \o q) /\ Tail(Backup \o q) = q
  BY PlainBackup
<1>3. ASSUME NEW n \in old
      PROVE  /\ n \in Paths \ {Backup, Rmlist} /\ Under(Backup, n)
             /\ Tail(n) \in DOMAIN o /\ n = Backup \o Tail(n)
  <2>1. PICK q \in Different(a, o) : n = Backup \o q
    BY <1>3
  <2>. QED  BY <2>1, <1>1, <1>2
<1>4. /\ DOMAIN b = {Backup} \cup old \cup list /\ b = [n \in DOMAIN b |-> b[n]] /\ b[Backup] = Dir
      /\ \A n \in old : n # Backup => b[n] = o[Tail(n)]
      /\ \A n \in list : n # Backup /\ n \notin old => b[n] = Reg({})
  BY DEF BkupEntries
<1>5. \A q \in Different(a, o) : Backup \o q \in old
  OBVIOUS
<1>6. list \subseteq {Rmlist} /\ (~(DOMAIN a \subseteq DOMAIN o) => Rmlist \in list)
  OBVIOUS
<1>. HIDE DEF b, old, list
<1>7. Backup \in Paths /\ Rmlist \in Paths /\ Under(Backup, Backup) /\ Under(Backup, Rmlist)
  BY NamesAssumption, OwnNames DEF Special
<1>8. \A n \in DOMAIN b : Under(Backup, n) /\ n \in Paths
  BY <1>3, <1>4, <1>6, <1>7
<1>9. ASSUME NEW n \in DOMAIN b
      PROVE  /\ n \in {Backup, Rmlist} \/ (Tail(n) \in DOMAIN o /\ n = Backup \o Tail(n) /\ b[n] = o[Tail(n)])
             /\ IsEntry(b[n])
  <2>1. CASE n = Backup
    BY <2>1, <1>4, OwnEntries
  <2>2. CASE n \in old
    BY <2>2, <1>3, <1>4 DEF IsArchive
  <2>3. CASE n \in list /\ n # Backup /\ n \notin old
    BY <2>3, <1>4, <1>6, OwnEntries
  <2>. QED  BY <2>1, <2>2, <2>3, <1>4
<1>10. IsArchive(b)
  BY <1>4, <1>8, <1>9 DEF IsArchive
<1>11. Backup \in DOMAIN b
  BY <1>4
<1>12. \A q \in Different(a, o) : Backup \o q \in DOMAIN b
  BY <1>4, <1>5
<1>13. ~(DOMAIN a \subseteq DOMAIN o) => Rmlist \in DOMAIN b
  BY <1>4, <1>6
<1>. QED  BY <1>8, <1>9, <1>10, <1>11, <1>12, <1>13 DEF b

\* magisk_cpio::backup keeps what differs.
LEMMA BackedUpOK ==
    ASSUME NEW a, NEW o, IsArchive(a), IsArchive(o), \A p \in DOMAIN o : Plain(p) /\ ~Under(Backup, p),
           \A p \in DOMAIN a : ~Under(Backup, p)
    PROVE  BackOK(BackedUp(a, o), a, o)
<1>. DEFINE b == BkupEntries(a, o)
            s == BackedUp(a, o)
<1>1. /\ IsArchive(b) /\ \A n \in DOMAIN b : Under(Backup, n)
      /\ \A n \in DOMAIN b : n \in {Backup, Rmlist} \/ (/\ Tail(n) \in DOMAIN o /\ n = Backup \o Tail(n)
                                                        /\ b[n] = o[Tail(n)])
      /\ ~(DOMAIN a \subseteq DOMAIN o) => Rmlist \in DOMAIN b
      /\ \A q \in Different(a, o) : Backup \o q \in DOMAIN b
  BY BkupFacts
<1>2. s = IF DOMAIN b = {Backup} THEN a ELSE Merge(a, b)
  BY DEF BackedUp
<1>. HIDE DEF b, s
<1>3. ASSUME DOMAIN b = {Backup}
      PROVE  BackOK(s, a, o)
  <2>1. DOMAIN a \subseteq DOMAIN o
    BY <1>1, <1>3, OwnNames
  <2>2. Different(a, o) = {}
    <3>1. \A q \in Different(a, o) : Plain(q)
      BY DEF Different
    <3>2. \A q \in Different(a, o) : Backup \o q # Backup
      BY <3>1, PlainBackup
    <3>. QED  BY <1>1, <1>3, <3>2
  <2>3. s = a
    BY <1>2, <1>3
  <2>. QED  BY <2>1, <2>2, <2>3 DEF BackOK
<1>4. ASSUME DOMAIN b # {Backup}
      PROVE  BackOK(s, a, o)
  <2>1. /\ DOMAIN s = DOMAIN a \cup DOMAIN b /\ s = [n \in DOMAIN s |-> s[n]]
        /\ \A n \in DOMAIN a : s[n] = a[n]
        /\ \A n \in DOMAIN b \ DOMAIN a : s[n] = b[n]
    BY <1>2, <1>4 DEF Merge
  <2>2. \A n \in DOMAIN b : n \notin DOMAIN a /\ s[n] = b[n]
    BY <1>1, <2>1
  <2>3. IsArchive(s)
    BY <1>1, <2>1, <2>2 DEF IsArchive
  <2>4. \A n \in DOMAIN s : Under(Backup, n) => n \in DOMAIN b
    BY <2>1
  <2>. QED  BY <1>1, <2>1, <2>2, <2>3, <2>4 DEF BackOK
<1>. QED  BY <1>3, <1>4 DEF s

\* What MakeBackup leaves can be restored.
LEMMA SavedIsOK ==
    ASSUME NEW c, NEW og, IsArchive(c), IsArchive(og), \A p \in DOMAIN c : Plain(p), \A p \in DOMAIN og : Plain(p),
           NEW o, o = Drop(og, {p \in DOMAIN og : Under(Backup, p)}),
           NEW a, a = Drop(c, {p \in DOMAIN c : Under(Backup, p)})
    PROVE  SavedOK(Put(Put(BackedUp(a, o), Backup, Dir), MagiskConfig, Reg({"config"})), og, DOMAIN a \ DOMAIN o)
<1>. DEFINE b == BackedUp(a, o)
            d == Put(b, Backup, Dir)
            s == Put(d, MagiskConfig, Reg({"config"}))
<1>1. /\ DOMAIN o = Stock(og) /\ IsArchive(o) /\ \A p \in DOMAIN o : o[p] = og[p]
  <2>1. PICK S : S = {p \in DOMAIN og : Under(Backup, p)}
    OBVIOUS
  <2>2. o = Drop(og, S) /\ DOMAIN og \ S = Stock(og)
    BY <2>1 DEF Stock
  <2>3. IsDrop(o, og, S) /\ IsArchive(o)
    BY <2>2, DropFacts
  <2>. QED  BY <2>2, <2>3 DEF IsDrop
<1>2. /\ IsArchive(a) /\ DOMAIN a = {p \in DOMAIN c : ~Under(Backup, p)}
  <2>1. PICK S : S = {p \in DOMAIN c : Under(Backup, p)}
    OBVIOUS
  <2>2. a = Drop(c, S) /\ DOMAIN c \ S = {p \in DOMAIN c : ~Under(Backup, p)}
    BY <2>1
  <2>3. IsDrop(a, c, S) /\ IsArchive(a)
    BY <2>2, DropFacts
  <2>. QED  BY <2>2, <2>3 DEF IsDrop
<1>3. /\ \A p \in DOMAIN o : p \in DOMAIN og /\ Plain(p) /\ ~Under(Backup, p)
      /\ \A p \in DOMAIN a : Plain(p) /\ ~Under(Backup, p)
  BY <1>1, <1>2 DEF Stock
<1>4. BackOK(b, a, o)
  BY <1>1, <1>2, <1>3, BackedUpOK
<1>. HIDE DEF b
<1>5. Backup \in Paths /\ MagiskConfig \in Paths /\ IsArchive(b)
  BY <1>4, NamesAssumption DEF Special, BackOK
<1>6. /\ DOMAIN d = DOMAIN b \cup {Backup} /\ \A q \in DOMAIN b \ {Backup} : d[q] = b[q]
      /\ IsArchive(d)
  <2>1. IsPut(d, b, Backup, Dir) /\ IsArchive(d)
    BY <1>5, PutFacts, OwnEntries
  <2>. QED  BY <2>1 DEF IsPut
<1>. HIDE DEF d
<1>7. /\ DOMAIN s = DOMAIN d \cup {MagiskConfig} /\ \A q \in DOMAIN d \ {MagiskConfig} : s[q] = d[q]
      /\ IsArchive(s)
  <2>1. IsPut(s, d, MagiskConfig, Reg({"config"})) /\ IsArchive(s)
    BY <1>5, <1>6, PutFacts, OwnEntries
  <2>. QED  BY <2>1 DEF IsPut
<1>. HIDE DEF s
<1>8. /\ DOMAIN s = DOMAIN b \cup {Backup, MagiskConfig}
      /\ \A q \in DOMAIN b \ {Backup, MagiskConfig} : s[q] = b[q]
  BY <1>6, <1>7
<1>9. \A n \in DOMAIN s : ~Under(Backup, n) => n \in DOMAIN a /\ s[n] = a[n]
  BY <1>4, <1>8, OwnNames DEF BackOK
<1>10. {Trailer, RAMDISK_XZ} \cap DOMAIN s = {}
  <2>1. \A p \in DOMAIN a : p \notin {Trailer, RAMDISK_XZ}
    BY <1>3, PlainBackup
  <2>. QED  BY <2>1, <1>9, OwnNames
<1>11. DOMAIN a \ DOMAIN o # {} => Rmlist \in DOMAIN s
  BY <1>4, <1>8 DEF BackOK
<1>12. \A n \in DOMAIN a \ DOMAIN o : ~Under(Backup, n) /\ n \notin DOMAIN og
  BY <1>1, <1>3 DEF Stock
<1>13. \A n \in DOMAIN s : ~Under(Backup, n) => n \in (DOMAIN a \ DOMAIN o) \cup Stock(og)
  BY <1>1, <1>9
<1>14. ASSUME NEW n \in DOMAIN s, Under(Backup, n), n \notin {Backup, MagiskConfig, Rmlist}
       PROVE  Saves(s, og, n)
  <2>1. n \in DOMAIN b /\ s[n] = b[n]
    BY <1>8, <1>14
  <2>2. Tail(n) \in DOMAIN o /\ n = Backup \o Tail(n) /\ b[n] = o[Tail(n)]
    BY <1>4, <1>14, <2>1 DEF BackOK
  <2>. QED  BY <2>1, <2>2, <1>1 DEF Saves
<1>15. ASSUME NEW q \in Stock(og)
       PROVE  Same(s, og, q) \/ Backup \o q \in DOMAIN s
  <2>1. q \in DOMAIN o /\ o[q] = og[q] /\ ~Under(Backup, q)
    BY <1>1, <1>15 DEF Stock
  <2>2. CASE q \in Different(a, o)
    BY <2>2, <1>4, <1>8 DEF BackOK
  <2>3. CASE q \notin Different(a, o)
    <3>1. q \in DOMAIN a /\ a[q].data = o[q].data
      BY <2>1, <2>3 DEF Different
    <3>2. q \in DOMAIN s
      BY <3>1, <1>4, <1>8 DEF BackOK
    <3>3. s[q] = a[q]
      BY <3>2, <2>1, <1>9
    <3>. QED  BY <2>1, <3>1, <3>2, <3>3 DEF Same
  <2>. QED  BY <2>2, <2>3
<1>16. MagiskConfig \in DOMAIN s
  BY <1>8
<1>17. SavedOK(s, og, DOMAIN a \ DOMAIN o)
  BY <1>7, <1>10, <1>11, <1>12, <1>13, <1>14, <1>15, <1>16 DEF SavedOK
<1>. QED  BY <1>17 DEF s, d, b

\* Edits keep an archive one.
LEMMA EditedOK ==
    ASSUME NEW a, IsArchive(a), \A p \in DOMAIN a : Plain(p), NEW c \in Edits
    PROVE  IsArchive(Edited(a, c)) /\ \A p \in DOMAIN Edited(a, c) : Plain(p)
<1>1. CASE c.cmd = "add"
  <2>1. Plain(c.name) /\ IsEntry(c.entry) /\ c.name \in Paths
    BY <1>1, EditsAssumption DEF Plain
  <2>2. Edited(a, c) = Put(a, c.name, c.entry)
    BY <1>1 DEF Edited
  <2>3. IsPut(Edited(a, c), a, c.name, c.entry) /\ IsArchive(Edited(a, c))
    BY <2>1, <2>2, PutFacts
  <2>. QED  BY <2>1, <2>3 DEF IsPut
<1>2. CASE c.cmd = "rm"
  <2>. DEFINE S == {p \in DOMAIN a : p = c.name \/ (c.r /\ Under(c.name, p))}
  <2>1. Edited(a, c) = Drop(a, S)
    BY <1>2 DEF Edited
  <2>. HIDE DEF S
  <2>2. IsDrop(Edited(a, c), a, S) /\ IsArchive(Edited(a, c))
    BY <2>1, DropFacts
  <2>. QED  BY <2>2 DEF IsDrop
<1>3. CASE c.cmd = "mv"
  <2>1. Plain(c.to) /\ c.to \in Paths
    BY <1>3, EditsAssumption DEF Plain
  <2>. DEFINE d == Drop(a, {c.name})
  <2>2. Edited(a, c) = IF c.name \in DOMAIN a THEN Put(d, c.to, a[c.name]) ELSE a
    BY <1>3 DEF Edited
  <2>3. IsArchive(d) /\ DOMAIN d \subseteq DOMAIN a
    <3>1. IsArchive(d) /\ IsDrop(d, a, {c.name})
      BY DropFacts
    <3>. QED  BY <3>1 DEF IsDrop
  <2>. HIDE DEF d
  <2>4. CASE c.name \in DOMAIN a
    <3>1. IsEntry(a[c.name])
      BY <2>4 DEF IsArchive
    <3>2. IsPut(Edited(a, c), d, c.to, a[c.name]) /\ IsArchive(Edited(a, c))
      BY <2>1, <2>2, <2>3, <2>4, <3>1, PutFacts
    <3>. QED  BY <2>1, <2>3, <3>2 DEF IsPut
  <2>. QED  BY <2>2, <2>4
<1>4. CASE c.cmd \notin {"add", "rm", "mv"}
  <2>1. Edited(a, c) = Patch(a, c.keepverity, c.keepforceencrypt)
    BY <1>4 DEF Edited
  <2>. DEFINE n == Patch(a, c.keepverity, c.keepforceencrypt)
              gone == (IF c.keepverity THEN {} ELSE Verity) \cup (IF c.keepforceencrypt THEN {} ELSE Encryption)
              removed == IF c.keepverity THEN {} ELSE {<<"verity_key">>}
  <2>0. n = [p \in DOMAIN a \ removed |->
                IF a[p].mode = "reg" /\ IsFstab(p) THEN [a[p] EXCEPT !.data = @ \ gone] ELSE a[p]]
    BY Zenon DEF Patch
  <2>. HIDE DEF n, gone, removed
  <2>2. /\ DOMAIN n \subseteq DOMAIN a /\ n = [p \in DOMAIN n |-> n[p]]
        /\ \A p \in DOMAIN n : n[p] = a[p] \/ n[p] = [a[p] EXCEPT !.data = @ \ gone]
    BY <2>0
  <2>3. \A e : IsEntry(e) => IsEntry([e EXCEPT !.data = @ \ gone])
    BY DEF IsEntry
  <2>4. IsArchive(n)
    BY <2>2, <2>3 DEF IsArchive
  <2>. QED  BY <2>1, <2>2, <2>4 DEF n
<1>. QED  BY <1>1, <1>2, <1>3, <1>4

(***************************************************************************)
(* Ramdisks: restore                                                       *)
(***************************************************************************)

\* What .rmlist names is not stock, so nothing that is needed goes.
LEMMA RestoreBegins ==
    ASSUME NEW s, NEW og, NEW rm, SavedOK(s, og, rm), \A p \in DOMAIN og : Plain(p),
           NEW c, c = IF Rmlist \in DOMAIN s THEN Drop(s, rm \cup {Rmlist}) ELSE s
    PROVE  RestoreOK(c, og, DOMAIN c)
<1>1. IsDrop(c, s, rm \cup {Rmlist})
  <2>1. CASE Rmlist \in DOMAIN s
    BY <2>1, DropFacts
  <2>2. CASE Rmlist \notin DOMAIN s
    <3>1. rm = {} /\ c = s
      BY <2>2 DEF SavedOK
    <3>. QED  BY <2>2, <3>1 DEF IsDrop
  <2>. QED  BY <2>1, <2>2
<1>2. /\ DOMAIN c = DOMAIN s \ (rm \cup {Rmlist}) /\ \A n \in DOMAIN c : c[n] = s[n]
  BY <1>1 DEF IsDrop
<1>3. \A q \in Stock(og) : /\ q \notin rm /\ ~Under(Backup, q) /\ q # Rmlist
                           /\ Under(Backup, Backup \o q) /\ Backup \o q # Rmlist
  BY PlainBackup, OwnNames DEF Stock, SavedOK
<1>4. \A q \in Stock(og) : Backup \o q \in DOMAIN s => Backup \o q \in DOMAIN c
  BY <1>2, <1>3 DEF SavedOK
<1>5. \A q \in Stock(og) : Same(s, og, q) => Same(c, og, q)
  BY <1>2, <1>3 DEF Same
<1>6. \A q \in Stock(og) : Same(c, og, q) \/ Backup \o q \in DOMAIN c
  BY <1>4, <1>5 DEF SavedOK
<1>7. \A n \in DOMAIN c : ~Under(Backup, n) => n \in Stock(og)
  BY <1>2 DEF SavedOK
<1>8. ASSUME NEW n \in DOMAIN c, Under(Backup, n)
      PROVE  n \in {Backup, MagiskConfig} \/ Saves(c, og, n)
  <2>1. n \in {Backup, MagiskConfig} \/ Saves(s, og, n)
    BY <1>2, <1>8 DEF SavedOK
  <2>. QED  BY <2>1, <1>2 DEF Saves
<1>. QED  BY <1>6, <1>7, <1>8 DEF RestoreOK

\* One iteration of the loop.
LEMMA RestoreGoesOn ==
    ASSUME NEW c, NEW og, NEW it, RestoreOK(c, og, it), \A p \in DOMAIN og : Plain(p),
           NEW p \in it, NEW jt, it \ {p} \subseteq jt,
           jt \subseteq (it \ {p}) \cup (IF Moved(p) THEN {Tail(p)} ELSE {})
    PROVE  RestoreOK(Restored(c, p), og, jt)
<1>. DEFINE d == Restored(c, p)
<1>1. p \in DOMAIN c /\ it \subseteq DOMAIN c
  BY DEF RestoreOK
<1>2. \A q \in Stock(og) : /\ ~Under(Backup, q) /\ Under(Backup, Backup \o q) /\ Tail(Backup \o q) = q
                           /\ Backup \o q \notin {Backup, MagiskConfig}
  BY PlainBackup DEF Stock
<1>3. ASSUME Moved(p)
      PROVE  RestoreOK(d, og, jt)
  <2>. DEFINE t == Tail(p)
              m == Drop(c, {p})
  <2>1. Saves(c, og, p) /\ Under(Backup, p)
    BY <1>1, <1>3 DEF Moved, RestoreOK
  <2>2. t \in Stock(og) /\ p = Backup \o t /\ c[p].data = og[t].data
    BY <2>1 DEF Saves
  <2>3. d = Put(m, t, c[p])
    BY <1>3 DEF Restored
  <2>. HIDE DEF t, m
  <2>4. IsDrop(m, c, {p}) /\ IsPut(d, m, t, c[p])
    BY <2>3, DropFacts, PutFacts DEF m
  <2>. HIDE DEF d
  <2>5. /\ DOMAIN d = (DOMAIN c \ {p}) \cup {t} /\ d[t] = c[p]
        /\ \A n \in DOMAIN c \ {p, t} : d[n] = c[n]
    BY <2>4 DEF IsDrop, IsPut
  <2>6. Same(d, og, t)
    BY <2>2, <2>5 DEF Same
  <2>7. ASSUME NEW q \in Stock(og), Same(c, og, q) \/ Backup \o q \in DOMAIN c
        PROVE  Same(d, og, q) \/ Backup \o q \in DOMAIN d
    <3>1. CASE q = t
      BY <3>1, <2>6
    <3>2. CASE q # t
      <4>1. q # p /\ Backup \o q # p
        BY <3>2, <2>1, <2>2, <1>2
      <4>. QED  BY <2>5, <2>7, <3>2, <4>1 DEF Same
    <3>. QED  BY <3>1, <3>2
  <2>8. ASSUME NEW n \in DOMAIN d, ~Under(Backup, n)
        PROVE  n \in Stock(og) /\ (Same(d, og, n) \/ Backup \o n \in DOMAIN d)
    <3>1. CASE n = t
      BY <3>1, <2>2, <2>6
    <3>2. CASE n # t
      <4>1. n \in DOMAIN c
        BY <3>2, <2>5
      <4>2. n \in Stock(og) /\ (Same(c, og, n) \/ Backup \o n \in DOMAIN c)
        BY <4>1, <2>8 DEF RestoreOK
      <4>. QED  BY <4>2, <2>7
    <3>. QED  BY <3>1, <3>2
  <2>9. ASSUME NEW n \in DOMAIN d, Under(Backup, n)
        PROVE  n \in jt /\ (n \in {Backup, MagiskConfig} \/ Saves(d, og, n))
    <3>1. n # t
      BY <2>2, <2>9, <1>2
    <3>2. n \in DOMAIN c /\ n # p /\ d[n] = c[n]
      BY <3>1, <2>5, <2>2, <1>2
    <3>3. n \in it /\ (n \in {Backup, MagiskConfig} \/ Saves(c, og, n))
      BY <3>2, <2>9 DEF RestoreOK
    <3>. QED  BY <3>2, <3>3 DEF Saves
  <2>10. jt \subseteq DOMAIN d
    BY <1>1, <2>5 DEF t
  <2>11. \A q \in Stock(og) : ~KnownStuff(q) => Same(d, og, q) \/ Backup \o q \in DOMAIN d
    BY <2>7 DEF RestoreOK
  <2>. QED  BY <2>8, <2>9, <2>10, <2>11 DEF RestoreOK
<1>4. ASSUME ~Moved(p), Under(Backup, p) \/ KnownStuff(p)
      PROVE  RestoreOK(d, og, jt)
  <2>1. IsDrop(d, c, {p})
    BY <1>4, DropFacts DEF Restored
  <2>. HIDE DEF d
  <2>2. DOMAIN d = DOMAIN c \ {p} /\ \A n \in DOMAIN d : d[n] = c[n]
    BY <2>1 DEF IsDrop
  <2>3. \A q \in Stock(og) : Backup \o q # p
    BY <1>2, <1>4 DEF Moved
  <2>4. \A q \in Stock(og) : q # p => (Same(c, og, q) \/ Backup \o q \in DOMAIN c
                                      => Same(d, og, q) \/ Backup \o q \in DOMAIN d)
    BY <2>2, <2>3 DEF Same
  <2>5. \A n \in DOMAIN d : ~Under(Backup, n) => n \in Stock(og) /\ (Same(d, og, n) \/ Backup \o n \in DOMAIN d)
    BY <2>2, <2>4 DEF RestoreOK
  <2>6. ASSUME NEW n \in DOMAIN d, Under(Backup, n)
        PROVE  n \in jt /\ (n \in {Backup, MagiskConfig} \/ Saves(d, og, n))
    BY <2>2, <2>6 DEF RestoreOK, Saves
  <2>7. jt \subseteq DOMAIN d
    BY <1>1, <1>4, <2>2
  <2>8. \A q \in Stock(og) : ~KnownStuff(q) => Same(d, og, q) \/ Backup \o q \in DOMAIN d
    BY <1>2, <1>4, <2>4 DEF RestoreOK
  <2>. QED  BY <2>5, <2>6, <2>7, <2>8 DEF RestoreOK
<1>5. ASSUME ~Moved(p), ~Under(Backup, p), ~KnownStuff(p)
      PROVE  RestoreOK(d, og, jt)
  <2>1. d = c
    BY <1>5 DEF Restored
  <2>2. jt \subseteq DOMAIN c /\ \A n \in it : Under(Backup, n) => n \in jt
    BY <1>1, <1>5
  <2>. QED  BY <2>1, <2>2 DEF RestoreOK
<1>. QED  BY <1>3, <1>4, <1>5

\* The end of the loop.
LEMMA RestoreEnds ==
    ASSUME NEW c, NEW og, RestoreOK(c, og, {}), \A p \in DOMAIN og : Plain(p)
    PROVE  /\ {p \in Stock(og) : ~KnownStuff(p)} \subseteq DOMAIN c /\ DOMAIN c \subseteq Stock(og)
           /\ \A p \in DOMAIN c : c[p].data = og[p].data
<1>1. \A n \in DOMAIN c : ~Under(Backup, n)
  BY DEF RestoreOK
<1>2. \A n \in DOMAIN c : n \in Stock(og) /\ (Same(c, og, n) \/ Backup \o n \in DOMAIN c)
  BY <1>1 DEF RestoreOK
<1>3. \A q \in Stock(og) : Under(Backup, Backup \o q)
  BY PlainBackup DEF Stock
<1>4. \A q \in Stock(og) : Backup \o q \notin DOMAIN c
  BY <1>1, <1>3
<1>5. \A q \in Stock(og) : ~KnownStuff(q) => q \in DOMAIN c
  BY <1>4 DEF RestoreOK, Same
<1>. QED  BY <1>2, <1>4, <1>5 DEF Same

(***************************************************************************)
(* Ramdisks: the steps                                                     *)
(***************************************************************************)

\* What compress packs.
LEMMA InnerFacts ==
    ASSUME NEW s, IsArchive(s), Trailer \notin DOMAIN s
    PROVE  /\ IsArchive(Inner(s)) /\ Trailer \notin DOMAIN Inner(s) /\ DOMAIN Inner(s) = DOMAIN s \ {InitFile}
           /\ \A n \in DOMAIN Inner(s) : n \in DOMAIN s /\ Inner(s)[n] = s[n]
<1>1. IsDrop(Inner(s), s, {InitFile}) /\ IsArchive(Inner(s))
  BY DropFacts DEF Inner
<1>. QED  BY <1>1 DEF IsDrop

\* b holds init, and nothing that s does not hold.
IsPart(b, s) ==
    /\ b = [p \in DOMAIN b |-> b[p]]
    /\ DOMAIN s \cap {InitFile} \subseteq DOMAIN b
    /\ \A p \in DOMAIN b : p \in DOMAIN s /\ b[p] = s[p]

\* What is flashed.
LEMMA OuterFacts ==
    ASSUME NEW s, IsArchive(s), {Trailer, RAMDISK_XZ} \cap DOMAIN s = {}, NEW xz
    PROVE  /\ IsArchive(Outer(s, xz)) /\ Trailer \notin DOMAIN Outer(s, xz)
           /\ RAMDISK_XZ \in DOMAIN Outer(s, xz) <=> DOMAIN xz # {}
           /\ DOMAIN xz = {} => Outer(s, xz) = s
           /\ DOMAIN xz # {} => IsPart(Drop(Outer(s, xz), {RAMDISK_XZ}), s)
<1>1. CASE DOMAIN xz = {}
  BY <1>1 DEF Outer
<1>2. CASE DOMAIN xz # {}
  <2>. DEFINE i == [p \in DOMAIN s \cap {InitFile} |-> s[p]]
              u == Outer(s, xz)
              b == Drop(u, {RAMDISK_XZ})
  <2>1. u = Put(i, RAMDISK_XZ, Reg({"xz"}))
    BY <1>2 DEF Outer
  <2>2. DOMAIN i = DOMAIN s \cap {InitFile} /\ \A p \in DOMAIN i : i[p] = s[p]
    OBVIOUS
  <2>3. i = [p \in DOMAIN i |-> i[p]]
    OBVIOUS
  <2>. HIDE DEF i
  <2>4. IsArchive(i)
    BY <2>2, <2>3 DEF IsArchive
  <2>5. RAMDISK_XZ \in Paths
    BY NamesAssumption DEF Special
  <2>6. IsPut(u, i, RAMDISK_XZ, Reg({"xz"})) /\ IsArchive(u)
    BY <2>1, <2>4, <2>5, PutFacts, OwnEntries
  <2>. HIDE DEF u
  <2>7. DOMAIN u = DOMAIN i \cup {RAMDISK_XZ} /\ \A p \in DOMAIN i \ {RAMDISK_XZ} : u[p] = i[p]
    BY <2>6 DEF IsPut
  <2>8. IsDrop(b, u, {RAMDISK_XZ}) /\ IsArchive(b)
    BY <2>6, DropFacts
  <2>. HIDE DEF b
  <2>9. DOMAIN b = DOMAIN u \ {RAMDISK_XZ} /\ \A p \in DOMAIN b : b[p] = u[p]
    BY <2>8 DEF IsDrop
  <2>10. b = [p \in DOMAIN b |-> b[p]]
    BY <2>8 DEF IsArchive
  <2>11. DOMAIN s \cap {InitFile} \subseteq DOMAIN b
    BY <2>2, <2>7, <2>9, OwnNames
  <2>12. \A p \in DOMAIN b : p \in DOMAIN s /\ b[p] = s[p]
    BY <2>2, <2>7, <2>9
  <2>13. Trailer \notin DOMAIN u /\ RAMDISK_XZ \in DOMAIN u
    BY <2>2, <2>7, OwnNames
  <2>14. IsPart(b, s)
    BY <2>10, <2>11, <2>12 DEF IsPart
  <2>. QED  BY <1>2, <2>6, <2>13, <2>14 DEF b, u
<1>. QED  BY <1>1, <1>2

\* What the installer has made is an archive.
LEMMA SavedFacts ==
    ASSUME NEW s, NEW og, NEW rm, SavedOK(s, og, rm)
    PROVE  IsArchive(s) /\ {Trailer, RAMDISK_XZ} \cap DOMAIN s = {} /\ Trailer \notin DOMAIN s /\ MagiskConfig \in DOMAIN s
  BY DEF SavedOK

\* An empty file.
LEMMA EmptyFile ==
    ASSUME NEW a, NEW S, S = {}
    PROVE  FileInv(<<>>, a, S, 0)
  BY DEF FileInv

\* The invariant holds at first.
LEMMA CpioInitInv == CpioInit => CpioInv
<1>. SUFFICES ASSUME CpioInit
              PROVE  CpioInv
  OBVIOUS
<1>1. cpioStep = "idle" /\ DOMAIN cpioXz = {}
  BY DEF CpioInit
<1>2. StockInv /\ SavedInv
  BY <1>1 DEF StockInv, SavedInv, Early, Steps
<1>3. PackInv /\ FlashInv /\ UnpackInv /\ RestoreInv
  BY <1>1 DEF PackInv, FlashInv, UnpackInv, RestoreInv, RestoresStock
<1>. QED  BY <1>2, <1>3 DEF CpioInv

\* The installer: up to the backup.
LEMMA EditStep == CpioInv /\ (LoadStock \/ Edit \/ MakeBackup) => CpioInv'
<1>. SUFFICES ASSUME CpioInv, LoadStock \/ Edit \/ MakeBackup
              PROVE  CpioInv'
  OBVIOUS
<1>. USE DEF CpioInv
<1>1. CASE LoadStock
  <2>1. /\ cpioStep' = "edit" /\ DOMAIN cpioXz' = {} /\ IsArchive(orig') /\ cpio' = orig'
        /\ \A p \in DOMAIN orig' : Plain(p)
    BY <1>1, StocksAssumption DEF LoadStock, StockInv, Early
  <2>2. StockInv' /\ SavedInv'
    BY <2>1 DEF StockInv, SavedInv, Early, Steps
  <2>3. PackInv' /\ FlashInv' /\ UnpackInv' /\ RestoreInv'
    BY <2>1 DEF PackInv, FlashInv, UnpackInv, RestoreInv, RestoresStock
  <2>. QED  BY <2>2, <2>3
<1>2. CASE Edit
  <2>1. PICK c \in Edits : cpio' = Edited(cpio, c)
    BY <1>2 DEF Edit
  <2>2. /\ cpioStep = "edit" /\ cpioStep' = "edit" /\ cpioXz' = cpioXz /\ orig' = orig
        /\ DOMAIN cpioXz = {} /\ IsArchive(cpio) /\ \A p \in DOMAIN cpio : Plain(p)
    BY <1>2 DEF Edit, StockInv, Early
  <2>3. IsArchive(cpio') /\ \A p \in DOMAIN cpio' : Plain(p)
    BY <2>1, <2>2, EditedOK
  <2>4. StockInv' /\ SavedInv'
    BY <2>2, <2>3 DEF StockInv, SavedInv, Early, Steps
  <2>5. PackInv' /\ FlashInv' /\ UnpackInv' /\ RestoreInv'
    BY <2>2 DEF PackInv, FlashInv, UnpackInv, RestoreInv, RestoresStock
  <2>. QED  BY <2>4, <2>5
<1>3. CASE MakeBackup
  <2>1. /\ cpioStep = "edit" /\ cpioStep' = "saved" /\ cpioXz' = cpioXz /\ orig' = orig /\ cpioSaved' = cpio'
        /\ DOMAIN cpioXz = {} /\ IsArchive(cpio) /\ \A p \in DOMAIN cpio : Plain(p)
        /\ IsArchive(orig) /\ \A p \in DOMAIN orig : Plain(p)
    BY <1>3 DEF MakeBackup, StockInv, Early
  <2>2. SavedOK(cpioSaved', orig', cpioRm')
    <3>1. PICK o : o = Drop(orig, {p \in DOMAIN orig : Under(Backup, p)})
      OBVIOUS
    <3>2. PICK a : a = Drop(cpio, {p \in DOMAIN cpio : Under(Backup, p)})
      OBVIOUS
    <3>3. /\ cpio' = Put(Put(BackedUp(a, o), Backup, Dir), MagiskConfig, Reg({"config"}))
          /\ cpioRm' = DOMAIN a \ DOMAIN o
      BY <1>3, <3>1, <3>2 DEF MakeBackup
    <3>4. SavedOK(Put(Put(BackedUp(a, o), Backup, Dir), MagiskConfig, Reg({"config"})), orig, DOMAIN a \ DOMAIN o)
      BY <2>1, <3>1, <3>2, SavedIsOK
    <3>. QED  BY <2>1, <3>3, <3>4
  <2>3. StockInv' /\ SavedInv'
    BY <2>1, <2>2 DEF StockInv, SavedInv, Early, Steps
  <2>4. cpio' = Out'
    BY <2>1 DEF Out, Outer
  <2>5. PackInv' /\ FlashInv' /\ UnpackInv' /\ RestoreInv'
    BY <2>1, <2>4 DEF PackInv, FlashInv, UnpackInv, RestoreInv, RestoresStock
  <2>. QED  BY <2>3, <2>5
<1>. QED  BY <1>1, <1>2, <1>3

\* After the backup its parts do not change.
LEMMA SavedStays ==
    ASSUME StockInv, SavedInv, ~Early, cpioStep' \in Steps \ {"idle", "edit"}, UNCHANGED <<orig, cpioRm, cpioSaved>>
    PROVE  StockInv' /\ SavedInv'
  BY DEF StockInv, SavedInv, Early

\* dump, of what is to be compressed and of the whole archive.
LEMMA DumpStep == CpioInv /\ (Compress \/ WriteImage \/ WriteEntry \/ EndPacking \/ EndFlashing) => CpioInv'
<1>. SUFFICES ASSUME CpioInv, Compress \/ WriteImage \/ WriteEntry \/ EndPacking \/ EndFlashing
              PROVE  CpioInv'
  OBVIOUS
<1>. USE DEF CpioInv
<1>. DEFINE in == Inner(cpioSaved)
<1>1. /\ cpioStep \in {"saved", "packing", "flashing"} /\ ~Early
      /\ cpioStep' \in {"saved", "packing", "flashing", "flashed"}
      /\ UNCHANGED <<orig, cpioRm, cpioSaved>>
  BY DEF Compress, WriteImage, WriteEntry, EndPacking, EndFlashing, Early, Dumping
<1>2. StockInv' /\ SavedInv'
  BY <1>1, SavedStays DEF Steps
<1>3. SavedOK(cpioSaved, orig, cpioRm)
  BY <1>1 DEF SavedInv
<1>4. IsArchive(cpioSaved) /\ {Trailer, RAMDISK_XZ} \cap DOMAIN cpioSaved = {} /\ Trailer \notin DOMAIN cpioSaved
  BY <1>3, SavedFacts
<1>5. /\ IsArchive(in) /\ Trailer \notin DOMAIN in /\ DOMAIN in = DOMAIN cpioSaved \ {InitFile}
      /\ \A n \in DOMAIN in : n \in DOMAIN cpioSaved /\ in[n] = cpioSaved[n]
  BY <1>4, InnerFacts
<1>6. /\ IsArchive(Out) /\ Trailer \notin DOMAIN Out /\ (RAMDISK_XZ \in DOMAIN Out <=> DOMAIN cpioXz # {})
      /\ (DOMAIN cpioXz = {} => Out = cpioSaved)
  BY <1>4, OuterFacts DEF Out
<1>7. UnpackInv' /\ RestoreInv'
  BY <1>1 DEF UnpackInv, RestoreInv, RestoresStock
<1>8. in' = in
  BY <1>1
<1>. HIDE DEF in
<1>9. CASE Compress
  <2>1. /\ cpioStep = "saved" /\ cpioStep' = "packing" /\ cpio' = cpio /\ cpioXz' = cpioXz
        /\ image' = <<>> /\ cpioPos' = 0 /\ cpioIt' = DOMAIN cpio \ {InitFile} /\ RAMDISK_XZ \notin DOMAIN cpio
    BY <1>9 DEF Compress
  <2>2. cpio = Out
    BY <2>1 DEF FlashInv
  <2>3. DOMAIN cpioXz = {} /\ cpio = cpioSaved
    BY <2>1, <2>2, <1>6
  <2>4. cpioIt' = DOMAIN in /\ DOMAIN in \ cpioIt' = {}
    BY <2>1, <2>3, <1>5
  <2>5. FileInv(<<>>, in, DOMAIN in \ cpioIt', 0)
    BY <2>4, EmptyFile
  <2>6. PackInv'
    BY <2>1, <2>3, <2>4, <2>5, <1>1, <1>8 DEF PackInv, in
  <2>7. FlashInv'
    BY <2>1 DEF FlashInv
  <2>. QED  BY <1>2, <1>7, <2>6, <2>7
<1>10. CASE WriteImage
  <2>1. /\ cpioStep = "saved" /\ cpioStep' = "flashing" /\ cpio' = cpio /\ cpioXz' = cpioXz
        /\ image' = <<>> /\ cpioPos' = 0 /\ cpioIt' = DOMAIN cpio
    BY <1>10 DEF WriteImage
  <2>2. cpio = Out /\ Out' = Out
    BY <2>1, <1>1 DEF FlashInv, Out
  <2>3. FileInv(<<>>, Out, DOMAIN Out \ cpioIt', 0)
    BY <2>1, <2>2, EmptyFile
  <2>4. PackInv'
    BY <2>1, <1>1 DEF PackInv
  <2>5. FlashInv'
    BY <2>1, <2>2, <2>3 DEF FlashInv
  <2>. QED  BY <1>2, <1>7, <2>4, <2>5
<1>11. CASE WriteEntry
  <2>. DEFINE p == First(cpioIt)
  <2>1. /\ cpioStep \in {"packing", "flashing"} /\ cpioStep' = cpioStep /\ cpio' = cpio /\ cpioXz' = cpioXz
        /\ cpioIt # {} /\ image' = Put(image, cpioPos, [name |-> p, e |-> cpio[p]])
        /\ cpioPos' = AfterData(DataAt(cpioPos, p), cpio[p]) /\ cpioIt' = cpioIt \ {p} /\ Out' = Out
    BY <1>11, <1>1 DEF WriteEntry, Dumping, Out
  <2>2. cpioIt \subseteq DOMAIN cpio /\ IsArchive(cpio)
    BY <2>1, <1>4, <1>5, <1>6 DEF PackInv, FlashInv, in
  <2>3. cpioIt \in SUBSET Paths
    BY <2>2 DEF IsArchive
  <2>4. p \in cpioIt
    BY <2>1, <2>3, FirstIn
  <2>. HIDE DEF p
  <2>5. CASE cpioStep = "packing"
    <3>1. /\ DOMAIN cpioXz = {} /\ cpio = cpioSaved /\ cpioIt \subseteq DOMAIN in
          /\ FileInv(image, in, DOMAIN in \ cpioIt, cpioPos)
      BY <2>5 DEF PackInv, in
    <3>2. p \in DOMAIN in /\ in[p] = cpio[p] /\ (DOMAIN in \ cpioIt) \cup {p} = DOMAIN in \ cpioIt'
      BY <2>1, <2>4, <3>1, <1>5
    <3>3. PICK S : S = DOMAIN in \ cpioIt
      OBVIOUS
    <3>4. FileInv(Put(image, cpioPos, [name |-> p, e |-> in[p]]), in, S \cup {p}, AfterData(DataAt(cpioPos, p), in[p]))
      BY <3>1, <3>2, <3>3, <1>5, FileGrows
    <3>5. FileInv(image', in, DOMAIN in \ cpioIt', cpioPos')
      BY <2>1, <3>2, <3>3, <3>4
    <3>6. PackInv'
      BY <1>1, <1>8, <2>1, <2>5, <3>1, <3>5 DEF PackInv, in
    <3>7. FlashInv'
      BY <2>1, <2>5 DEF FlashInv
    <3>. QED  BY <1>2, <1>7, <3>6, <3>7
  <2>6. CASE cpioStep = "flashing"
    <3>1. cpio = Out /\ cpioIt \subseteq DOMAIN Out /\ FileInv(image, Out, DOMAIN Out \ cpioIt, cpioPos)
      BY <2>6 DEF FlashInv
    <3>2. p \in DOMAIN Out /\ (DOMAIN Out \ cpioIt) \cup {p} = DOMAIN Out \ cpioIt'
      BY <2>1, <2>4, <3>1
    <3>3. PICK S : S = DOMAIN Out \ cpioIt
      OBVIOUS
    <3>4. PICK a : a = Out
      OBVIOUS
    <3>5. FileInv(Put(image, cpioPos, [name |-> p, e |-> a[p]]), a, S \cup {p}, AfterData(DataAt(cpioPos, p), a[p]))
      BY <3>1, <3>2, <3>3, <3>4, <1>6, FileGrows
    <3>6. FileInv(image', Out, DOMAIN Out \ cpioIt', cpioPos')
      BY <2>1, <3>1, <3>2, <3>3, <3>4, <3>5
    <3>7. PackInv'
      BY <1>1, <2>1, <2>6 DEF PackInv
    <3>8. FlashInv'
      BY <2>1, <2>6, <3>1, <3>6 DEF FlashInv
    <3>. QED  BY <1>2, <1>7, <3>7, <3>8
  <2>. QED  BY <2>1, <2>5, <2>6
<1>12. CASE EndPacking
  <2>1. /\ cpioStep = "packing" /\ cpioStep' = "saved" /\ cpioIt = {} /\ cpioXz' = WithTrailer(image, cpioPos)
        /\ cpio' = Put([p \in DOMAIN cpio \cap {InitFile} |-> cpio[p]], RAMDISK_XZ, Reg({"xz"}))
    BY <1>12 DEF EndPacking
  <2>2. cpio = cpioSaved /\ FileInv(image, in, DOMAIN in, cpioPos)
    BY <2>1 DEF PackInv, in
  <2>3. IsFile(cpioXz', in)
    BY <2>1, <2>2, <1>5, FileEnds
  <2>4. DOMAIN cpioXz' # {}
    BY <2>3 DEF IsFile
  <2>5. cpio' = Out'
    BY <1>1, <2>1, <2>2, <2>4 DEF Out, Outer
  <2>6. PackInv'
    BY <1>1, <2>1, <2>3 DEF PackInv, in
  <2>7. FlashInv'
    BY <2>1, <2>5 DEF FlashInv
  <2>. QED  BY <1>2, <1>7, <2>6, <2>7
<1>13. CASE EndFlashing
  <2>1. /\ cpioStep = "flashing" /\ cpioStep' = "flashed" /\ cpioIt = {} /\ image' = WithTrailer(image, cpioPos)
        /\ cpio' = <<>> /\ cpioXz' = cpioXz
    BY <1>13 DEF EndFlashing
  <2>2. FileInv(image, Out, DOMAIN Out, cpioPos) /\ Out' = Out
    BY <2>1, <1>1 DEF FlashInv, Out
  <2>3. IsFile(image', Out)
    BY <2>1, <2>2, <1>6, FileEnds
  <2>4. PackInv'
    BY <1>1, <2>1 DEF PackInv
  <2>5. FlashInv'
    BY <2>1, <2>2, <2>3 DEF FlashInv
  <2>. QED  BY <1>2, <1>7, <2>4, <2>5
<1>. QED  BY <1>9, <1>10, <1>11, <1>12, <1>13

\* load_cpio, of the flashed file and of what decompress finds in it; test.
LEMMA LoadStep ==
    CpioInv /\ (ReadImage \/ ReadEntry \/ EndLoad \/ TestUnsupported \/ Decompress \/ TestMagisk) => CpioInv'
<1>. SUFFICES ASSUME CpioInv, ReadImage \/ ReadEntry \/ EndLoad \/ TestUnsupported \/ Decompress \/ TestMagisk
              PROVE  CpioInv'
  OBVIOUS
<1>. USE DEF CpioInv
<1>. DEFINE in == Inner(cpioSaved)
            init == DOMAIN cpioSaved \cap {InitFile}
<1>1. /\ cpioStep \in {"flashed", "reading", "read", "unpacking", "unpacked"} /\ ~Early
      /\ cpioStep' \in {"reading", "read", "unpacking", "unpacked", "tested"}
      /\ UNCHANGED <<orig, cpioRm, cpioSaved, cpioXz>> /\ Out' = Out
  BY DEF ReadImage, ReadEntry, EndLoad, TestUnsupported, Decompress, TestMagisk, Early, Loading, Out
<1>2. StockInv' /\ SavedInv'
  BY <1>1, SavedStays DEF Steps
<1>3. SavedOK(cpioSaved, orig, cpioRm)
  BY <1>1 DEF SavedInv
<1>4. /\ IsArchive(cpioSaved) /\ {Trailer, RAMDISK_XZ} \cap DOMAIN cpioSaved = {} /\ Trailer \notin DOMAIN cpioSaved
      /\ MagiskConfig \in DOMAIN cpioSaved
  BY <1>3, SavedFacts
<1>5. /\ IsArchive(in) /\ Trailer \notin DOMAIN in /\ DOMAIN in = DOMAIN cpioSaved \ {InitFile}
      /\ \A n \in DOMAIN in : n \in DOMAIN cpioSaved /\ in[n] = cpioSaved[n]
  BY <1>4, InnerFacts
<1>6. /\ IsArchive(Out) /\ Trailer \notin DOMAIN Out /\ (RAMDISK_XZ \in DOMAIN Out <=> DOMAIN cpioXz # {})
      /\ (DOMAIN cpioXz = {} => Out = cpioSaved)
  BY <1>4, OuterFacts DEF Out
<1>7. PackInv' /\ RestoreInv'
  BY <1>1 DEF PackInv, RestoreInv, RestoresStock
<1>. HIDE DEF in, init
<1>8. CASE ReadImage
  <2>1. cpioStep = "flashed" /\ cpioStep' = "reading" /\ cpioPos' = 0 /\ cpio' = cpio /\ image' = image
    BY <1>8 DEF ReadImage
  <2>2. IsFile(image, Out) /\ cpio = <<>>
    BY <2>1 DEF FlashInv
  <2>3. DOMAIN cpio = {} /\ cpio = [p \in DOMAIN cpio |-> cpio[p]]
    BY <2>2
  <2>4. LoadInv(image, Out, {}, cpio, 0)
    BY <2>2, <2>3, LoadBegins
  <2>5. FlashInv' /\ UnpackInv'
    BY <1>1, <2>1, <2>2, <2>4 DEF FlashInv, UnpackInv
  <2>. QED  BY <1>2, <1>7, <2>5
<1>9. CASE ReadEntry
  <2>1. /\ cpioStep \in {"reading", "unpacking"} /\ cpioStep' = cpioStep /\ image' = image
        /\ image[cpioPos].name # Trailer /\ cpioPos' = NextAt(image, cpioPos)
        /\ cpio' = Put(cpio, image[cpioPos].name, image[cpioPos].e)
    BY <1>9 DEF ReadEntry, Loading, MoreEntries, NextAt
  <2>2. CASE cpioStep = "reading"
    <3>1. IsFile(image, Out) /\ LoadInv(image, Out, {}, cpio, cpioPos)
      BY <2>2 DEF FlashInv
    <3>2. LoadInv(image, Out, {}, cpio', cpioPos')
      BY <3>1, <2>1, <1>6, LoadGrows
    <3>3. FlashInv' /\ UnpackInv'
      BY <1>1, <2>1, <2>2, <3>1, <3>2 DEF FlashInv, UnpackInv
    <3>. QED  BY <1>2, <1>7, <3>3
  <2>3. CASE cpioStep = "unpacking"
    <3>1. IsFile(image, in) /\ LoadInv(image, cpioSaved, init, cpio, cpioPos)
      BY <2>3 DEF UnpackInv, in, init
    <3>2. LoadInv(image, cpioSaved, init, cpio', cpioPos')
      BY <3>1, <2>1, <1>4, <1>5, LoadGrows
    <3>3. FlashInv' /\ UnpackInv'
      BY <1>1, <2>1, <2>3, <3>1, <3>2 DEF FlashInv, UnpackInv, in, init
    <3>. QED  BY <1>2, <1>7, <3>3
  <2>. QED  BY <2>1, <2>2, <2>3
<1>10. CASE EndLoad
  <2>1. /\ cpioStep \in {"reading", "unpacking"} /\ cpioStep' = (IF cpioStep = "reading" THEN "read" ELSE "unpacked")
        /\ cpio' = cpio /\ (cpioPos \in DOMAIN image => image[cpioPos].name = Trailer)
    BY <1>10 DEF EndLoad, Loading, MoreEntries
  <2>2. CASE cpioStep = "reading"
    <3>1. IsFile(image, Out) /\ LoadInv(image, Out, {}, cpio, cpioPos)
      BY <2>2 DEF FlashInv
    <3>2. image[cpioPos].name = Trailer
      BY <2>1, <3>1 DEF LoadInv
    <3>3. cpio = Out
      BY <3>1, <3>2, <1>6, LoadEnds
    <3>4. FlashInv' /\ UnpackInv'
      BY <1>1, <2>1, <2>2, <3>3 DEF FlashInv, UnpackInv
    <3>. QED  BY <1>2, <1>7, <3>4
  <2>3. CASE cpioStep = "unpacking"
    <3>1. IsFile(image, in) /\ LoadInv(image, cpioSaved, init, cpio, cpioPos)
      BY <2>3 DEF UnpackInv, in, init
    <3>2. image[cpioPos].name = Trailer
      BY <2>1, <3>1 DEF LoadInv
    <3>3. DOMAIN cpioSaved \subseteq init \cup DOMAIN in
      BY <1>5 DEF init
    <3>4. cpio = cpioSaved
      BY <3>1, <3>2, <3>3, <1>4, <1>5, LoadEnds
    <3>5. FlashInv' /\ UnpackInv'
      BY <1>1, <2>1, <2>3, <3>4 DEF FlashInv, UnpackInv
    <3>. QED  BY <1>2, <1>7, <3>5
  <2>. QED  BY <2>1, <2>2, <2>3
<1>11. CASE TestUnsupported
  <2>1. cpioStep' = "tested" /\ cpioTest' = {"unsupported"}
    BY <1>11 DEF TestUnsupported
  <2>2. FlashInv' /\ UnpackInv'
    BY <2>1 DEF FlashInv, UnpackInv
  <2>. QED  BY <1>2, <1>7, <2>2
<1>12. CASE Decompress
  <2>1. cpioStep = "read" /\ cpio = Out
    BY <1>12 DEF Decompress, FlashInv
  <2>2. CASE RAMDISK_XZ \in DOMAIN cpio
    <3>1. cpioStep' = "unpacking" /\ cpio' = Drop(Out, {RAMDISK_XZ}) /\ image' = cpioXz /\ cpioPos' = 0
      BY <1>12, <2>1, <2>2 DEF Decompress
    <3>2. DOMAIN cpioXz # {}
      BY <2>1, <2>2, <1>6
    <3>3. IsFile(image', in)
      BY <3>1, <3>2 DEF PackInv, in
    <3>4. /\ cpio' = [p \in DOMAIN cpio' |-> cpio'[p]] /\ init \subseteq DOMAIN cpio'
          /\ \A p \in DOMAIN cpio' : p \in DOMAIN cpioSaved /\ cpio'[p] = cpioSaved[p]
      <4>1. IsPart(Drop(Outer(cpioSaved, cpioXz), {RAMDISK_XZ}), cpioSaved)
        BY <3>2, <1>4, OuterFacts
      <4>2. IsPart(cpio', cpioSaved)
        BY <3>1, <4>1 DEF Out
      <4>. QED  BY <4>2, <3>1, <3>2 DEF IsPart, init
    <3>5. LoadInv(image', cpioSaved, init, cpio', 0)
      BY <3>3, <3>4, LoadBegins
    <3>6. FlashInv' /\ UnpackInv'
      BY <1>1, <3>1, <3>3, <3>5 DEF FlashInv, UnpackInv, in, init
    <3>. QED  BY <1>2, <1>7, <3>6
  <2>3. CASE RAMDISK_XZ \notin DOMAIN cpio
    <3>1. cpioStep' = "unpacked" /\ cpio' = cpio
      BY <1>12, <2>3 DEF Decompress
    <3>2. cpio = cpioSaved
      BY <2>1, <2>3, <1>6
    <3>3. FlashInv' /\ UnpackInv'
      BY <1>1, <3>1, <3>2 DEF FlashInv, UnpackInv
    <3>. QED  BY <1>2, <1>7, <3>3
  <2>. QED  BY <2>2, <2>3
<1>13. CASE TestMagisk
  <2>1. /\ cpioStep = "unpacked" /\ cpioStep' = "tested" /\ cpio' = cpio
        /\ cpioTest' = cpioTest \cup (IF MagiskFiles \cap DOMAIN cpio # {} THEN {"magisk"} ELSE {})
    BY <1>13 DEF TestMagisk
  <2>2. cpio = cpioSaved
    BY <2>1 DEF UnpackInv
  <2>3. "magisk" \in cpioTest'
    BY <2>1, <2>2, <1>4 DEF MagiskFiles
  <2>4. FlashInv' /\ UnpackInv'
    BY <1>1, <2>1, <2>2, <2>3 DEF FlashInv, UnpackInv
  <2>. QED  BY <1>2, <1>7, <2>4
<1>. QED  BY <1>8, <1>9, <1>10, <1>11, <1>12, <1>13

\* restore.
LEMMA RestoreStep == CpioInv /\ (BeginRestore \/ RestoreEntry \/ EndRestore) => CpioInv'
<1>. SUFFICES ASSUME CpioInv, BeginRestore \/ RestoreEntry \/ EndRestore
              PROVE  CpioInv'
  OBVIOUS
<1>. USE DEF CpioInv
<1>1. /\ cpioStep \in {"tested", "restore"} /\ ~Early /\ cpioStep' \in {"restore", "restored"}
      /\ UNCHANGED <<orig, cpioRm, cpioSaved, cpioXz>>
  BY DEF BeginRestore, RestoreEntry, EndRestore, Early
<1>2. StockInv' /\ SavedInv'
  BY <1>1, SavedStays DEF Steps
<1>3. SavedOK(cpioSaved, orig, cpioRm) /\ IsArchive(orig) /\ \A p \in DOMAIN orig : Plain(p)
  BY <1>1 DEF SavedInv, StockInv, Early
<1>4. PackInv' /\ FlashInv' /\ UnpackInv'
  BY <1>1 DEF PackInv, FlashInv, UnpackInv
<1>5. CASE BeginRestore
  <2>1. /\ cpioStep = "tested" /\ "magisk" \in cpioTest /\ cpioStep' = "restore" /\ cpioIt' = DOMAIN cpio'
        /\ cpio' = IF Rmlist \in DOMAIN cpio THEN Drop(cpio, cpioRm \cup {Rmlist}) ELSE cpio
    BY <1>5 DEF BeginRestore
  <2>2. cpio = cpioSaved
    BY <2>1 DEF UnpackInv
  <2>3. RestoreOK(cpio', orig, DOMAIN cpio')
    BY <1>3, <2>1, <2>2, RestoreBegins
  <2>4. RestoreInv'
    BY <1>1, <2>1, <2>3 DEF RestoreInv, RestoresStock
  <2>. QED  BY <1>2, <1>4, <2>4
<1>6. CASE RestoreEntry
  <2>. DEFINE p == First(cpioIt)
  <2>1. /\ cpioStep = "restore" /\ cpioStep' = "restore" /\ cpioIt # {} /\ cpio' = Restored(cpio, p)
        /\ cpioIt \ {p} \subseteq cpioIt'
        /\ cpioIt' \subseteq (cpioIt \ {p}) \cup (IF Moved(p) THEN {Tail(p)} ELSE {})
    BY <1>6 DEF RestoreEntry
  <2>2. RestoreOK(cpio, orig, cpioIt)
    BY <2>1 DEF RestoreInv
  <2>3. cpioIt \in SUBSET Paths
    <3>1. ASSUME NEW n \in DOMAIN cpio
          PROVE  n \in Paths
      <4>1. CASE ~Under(Backup, n)
        BY <2>2, <4>1, <1>3 DEF RestoreOK, Stock, Plain
      <4>2. CASE n \in {Backup, MagiskConfig}
        BY <4>2, NamesAssumption DEF Special
      <4>3. CASE Saves(cpio, orig, n)
        <5>1. Tail(n) \in DOMAIN orig /\ ~Under(Backup, Tail(n)) /\ n = Backup \o Tail(n)
          BY <4>3 DEF Saves, Stock
        <5>. QED  BY <5>1, <1>3 DEF Plain
      <4>. QED  BY <2>2, <4>1, <4>2, <4>3 DEF RestoreOK
    <3>. QED  BY <2>2, <3>1 DEF RestoreOK
  <2>4. p \in cpioIt
    BY <2>1, <2>3, FirstIn
  <2>. HIDE DEF p
  <2>5. RestoreOK(cpio', orig, cpioIt')
    BY <1>3, <2>1, <2>2, <2>4, RestoreGoesOn
  <2>6. RestoreInv'
    BY <1>1, <2>1, <2>5 DEF RestoreInv, RestoresStock
  <2>. QED  BY <1>2, <1>4, <2>6
<1>7. CASE EndRestore
  <2>1. /\ cpioStep = "restore" /\ cpioStep' = "restored" /\ (cpioIt = {} \/ dangling)
        /\ cpio' = cpio /\ dangling' = dangling
    BY <1>7 DEF EndRestore
  <2>2. RestoreOK(cpio, orig, cpioIt)
    BY <2>1 DEF RestoreInv
  <2>3. CASE dangling
    BY <2>1, <2>3, <1>2, <1>4 DEF RestoreInv, RestoresStock
  <2>4. CASE cpioIt = {}
    <3>1. /\ {p \in Stock(orig) : ~KnownStuff(p)} \subseteq DOMAIN cpio /\ DOMAIN cpio \subseteq Stock(orig)
          /\ \A p \in DOMAIN cpio : cpio[p].data = orig[p].data
      BY <2>2, <2>4, <1>3, RestoreEnds
    <3>2. RestoresStock'
      BY <3>1, <2>1, <1>1 DEF RestoresStock, Stock
    <3>. QED  BY <2>1, <3>2, <1>2, <1>4 DEF RestoreInv
  <2>. QED  BY <2>1, <2>3, <2>4
<1>. QED  BY <1>5, <1>6, <1>7

\* What an installer saves is what an uninstaller reads back and recognises,
\* and from it the stock ramdisk is restored: magisk_cpio::backup and restore,
\* cpio::dump and load_cpio, for all archives, edits and lengths.
THEOREM RamdiskSurvives == CpioSpec => []RamdiskKept
<1>1. CpioInv /\ [CpioNext]_cpioVars => CpioInv'
  <2>. SUFFICES ASSUME CpioInv, [CpioNext]_cpioVars
                PROVE  CpioInv'
    OBVIOUS
  <2>1. CASE UNCHANGED cpioVars
    BY <2>1 DEF cpioVars, CpioInv, StockInv, SavedInv, PackInv, FlashInv, UnpackInv, RestoreInv, RestoresStock, Early, Out
  <2>. QED  BY <2>1, EditStep, DumpStep, LoadStep, RestoreStep DEF CpioNext
<1>2. CpioInv => RamdiskKept
  BY DEF CpioInv, UnpackInv, RestoreInv, RamdiskKept, ImageReadBack, PatchRecognised
<1>. QED  BY <1>1, <1>2, CpioInitInv, PTL DEF CpioSpec
=============================================================================
