----------------------------- MODULE BootImage -----------------------------
(* magiskboot unpack and repack (magiskboot/bootimg.cpp, bootimg.hpp): an   *)
(* image is taken apart into files, the files are edited, and a new image   *)
(* is written from them and from the old image.                             *)
(*                                                                          *)
(* Sizes are in units of 512 bytes, the size of an MTK header; an image     *)
(* maps offsets to what begins there.  A piece of data has the name of its  *)
(* content, its format, its uncompressed size, and a value (the size an MTK *)
(* header states, the flags of vbmeta).                                     *)
EXTENDS Integers, Sequences, FiniteSetsExt

CONSTANTS
    BootImages,     \* the images of devices
    BootEdits,      \* what a user may do with the files
    MaxBootEdits    \* bound

VARIABLES
    bootImg,      \* the image given to unpack and to repack
    bootFiles,    \* the current directory
    bootEdits,    \* number of edits
    bootFlags,    \* the options of the two commands
    bootNew,      \* the image written
    bootStep

bootVars == <<bootImg, bootFiles, bootEdits, bootFlags, bootNew, bootStep>>

Data(what, fmt, n) == [what |-> what, fmt |-> fmt, n |-> n, v |-> 0]
Missing == Data("missing", "raw", 0)
Garbage == Data("garbage", "raw", 1)
MtkHdr(size) == [what |-> "mtk", fmt |-> "mtk", n |-> 1, v |-> size]

COMPRESSED == {"gzip", "xz", "lz4_legacy", "lz4_lg"}
COMPRESSED_ANY == COMPRESSED \cup {"lzop"}
Size(d) == IF d.fmt \in COMPRESSED_ANY THEN (d.n + 1) \div 2 ELSE d.n

PAGE == 4
PageAlign(off) == ((off + PAGE - 1) \div PAGE) * PAGE

\* The size fields of a header; those a version lacks read as zero.
Blocks == {"kernel", "ramdisk", "second", "extra", "recovery_dtbo", "dtb"}
FieldsOf == [v0 |-> {"kernel", "ramdisk", "second", "extra"},
             v1 |-> {"kernel", "ramdisk", "second", "recovery_dtbo"},
             v2 |-> {"kernel", "ramdisk", "second", "recovery_dtbo", "dtb"},
             v3 |-> {"kernel", "ramdisk"},
             vnd_v3 |-> {"ramdisk", "dtb"},
             pxa |-> {"kernel", "ramdisk", "second", "extra"}]
HasId == {"v0", "v1", "v2", "pxa"}
HasOsVersion == {"v0", "v1", "v2", "v3"}

\* hdr_space: the header of a vendor image is larger than a page.
HdrSpace(ver) == IF ver = "vnd_v3" THEN PageAlign(5) ELSE PAGE

\* What precedes the header; CHROMEOS is left out of the new image.
PreSize == [none |-> 0, dhtb |-> 1, blob |-> 1, nookhd |-> 3, acclaim |-> 2, chromeos |-> 6]

(***************************************************************************)
(* boot_img: where the blocks of an image are                              *)
(***************************************************************************)

\* get_block: where the blocks begin, from the header, and where they end.
BlockOffset(h) ==
    LET next(off, p) == PageAlign(off + h.size[p])
        kernel == HdrSpace(h.ver)
        ramdisk == next(kernel, "kernel")
        second == next(ramdisk, "ramdisk")
        extra == next(second, "second")
        recovery_dtbo == next(extra, "extra")
        dtb == next(recovery_dtbo, "recovery_dtbo")
    IN  [kernel |-> kernel, ramdisk |-> ramdisk, second |-> second, extra |-> extra,
         recovery_dtbo |-> recovery_dtbo, dtb |-> dtb, tail |-> next(dtb, "dtb")]

\* The data in the bytes off .. off + n - 1.
ReadAt(img, off, n) ==
    IF n = 0 THEN Missing
    ELSE IF off \in DOMAIN img.at /\ Size(img.at[off]) = n THEN img.at[off] ELSE Garbage

\* find_dtb_offset: a tree appended to the kernel; a blob that only begins
\* with the magic is passed over.
FindDtb(img, off, n) ==
    LET S == {o \in DOMAIN img.at : /\ o > off /\ o < off + n
                                     /\ img.at[o].what = "kernel_dtb" /\ o + Size(img.at[o]) <= off + n}
    IN  IF S = {} THEN 0 ELSE Min(S) - off

\* An MTK header before the data is taken off.
Stripped(img, off, n) ==
    LET mtk == n > 0 /\ off \in DOMAIN img.at /\ img.at[off].what = "mtk"
    IN  [mtk |-> mtk, data |-> IF mtk THEN ReadAt(img, off + 1, n - 1) ELSE ReadAt(img, off, n)]

\* parse_image
Parse(img) ==
    LET base == PreSize[img.pre]
        h == img.hdr
        off(p) == base + BlockOffset(h)[p]
        ksz == h.size["kernel"]
        dt == FindDtb(img, off("kernel"), ksz)
        k == Stripped(img, off("kernel"), IF dt > 0 THEN dt ELSE ksz)
        r == Stripped(img, off("ramdisk"), h.size["ramdisk"])
        block(p) == ReadAt(img, off(p), h.size[p])
        tail == off("tail")
        meta == {o \in DOMAIN img.at : o >= tail /\ img.at[o].what = "vbmeta"}
        is(w) == tail \in DOMAIN img.at /\ img.at[tail].what = w
    IN  [data |-> [kernel |-> k.data, kernel_dtb |-> IF dt > 0 THEN ReadAt(img, off("kernel") + dt, ksz - dt) ELSE Missing,
                   ramdisk |-> r.data, second |-> block("second"), extra |-> block("extra"),
                   recovery_dtbo |-> block("recovery_dtbo"), dtb |-> block("dtb")],
         mtk_kernel |-> k.mtk, mtk_ramdisk |-> r.mtk,
         seandroid |-> img.pre = "dhtb" \/ is("seandroid"),
         lg_bump |-> ~is("seandroid") /\ is("bump"),
         avb |-> IF meta # {} /\ img.footer # <<>> THEN img.at[Min(meta)] ELSE Missing]

Parts == {"kernel", "kernel_dtb", "ramdisk", "second", "extra", "recovery_dtbo", "dtb"}
Recompressed == {"kernel", "ramdisk", "extra"}

BOOT_ARGS_SIZE == 2
BOOT_EXTRA_ARGS_SIZE == 3

\* Characters of a name: what a header has room for, and what load_hdr_file
\* copies at most (15 of 15, or of 23); a version 3 header has no name.
NameRoom == [v0 |-> 2, v1 |-> 2, v2 |-> 2, v3 |-> 0, vnd_v3 |-> 2, pxa |-> 3]
NAME_COPIED == 2

\* Text is a sequence of characters; this one is a blank.
BLANK == 0

\* os_version = A[31:25] B[24:18] C[17:11] (Y-2000)[10:4] M[3:0]
OS_A == 33554432
OS_B == 262144
OS_C == 2048

(***************************************************************************)
(* What is assumed of images and of files                                  *)
(***************************************************************************)

\* Data as it lies in a file.
IsData(d) == d = [what |-> d.what, fmt |-> d.fmt, n |-> d.n, v |-> d.v] /\ d.n \in Nat \ {0} /\ d.v \in Nat

\* No part begins with the magic of another one.
Suits(p, d) ==
    /\ p = "kernel_dtb" => d.what = "kernel_dtb"
    /\ p \in {"kernel", "ramdisk"} => d.what \notin {"mtk", "kernel_dtb"}

IsHdr(h) ==
    /\ DOMAIN h = {"ver", "size", "cmdline", "extra_cmdline", "os_version", "id", "dtbo_offset", "name"}
    /\ h.ver \in DOMAIN FieldsOf /\ h.size \in [Blocks -> Nat]
    /\ \A p \in Blocks \ FieldsOf[h.ver] : h.size[p] = 0
    /\ h.cmdline \in Seq(Nat) /\ h.extra_cmdline \in Seq(Nat)
    /\ Len(h.cmdline) + Len(h.extra_cmdline) <= BOOT_ARGS_SIZE + BOOT_EXTRA_ARGS_SIZE
    /\ h.name \in Seq(Nat) /\ Len(h.name) <= NameRoom[h.ver]
    /\ h.os_version \in Nat /\ h.os_version \div OS_A < 128 /\ h.dtbo_offset \in Nat

ASSUME ImageAssumption ==
    \A img \in BootImages :
        /\ img.pre \in DOMAIN PreSize /\ img.size \in Nat /\ IsHdr(img.hdr)
        /\ \A o \in DOMAIN img.at : o \in Nat /\ IsData(img.at[o])
        /\ \A p \in Parts : Parse(img).data[p] # Missing => Suits(p, Parse(img).data[p])
        /\ img.pre = "dhtb" => ~Parse(img).lg_bump
ASSUME EditAssumption ==
    \A e \in BootEdits : e.part \in Parts /\ (e.data # Missing => IsData(e.data) /\ Suits(e.part, e.data))

(***************************************************************************)
(* The header file: dump_hdr_file and load_hdr_file                        *)
(***************************************************************************)

\* print_os_version, and the two keys of the file.
UnpackOs(v) == [a |-> (v \div OS_A) % 128, b |-> (v \div OS_B) % 128, c |-> (v \div OS_C) % 128,
                y |-> 2000 + ((v \div 16) % 128), m |-> v % 16]
PackOs(o) == o.a * OS_A + o.b * OS_B + o.c * OS_C + (o.y - 2000) * 16 + o.m

\* cmdline and extra_cmdline are written as one line; the version only if it
\* is not zero.
DumpHdr(h) == [cmdline |-> h.cmdline \o h.extra_cmdline, name |-> h.name, os |-> UnpackOs(h.os_version)]

\* parse_prop_file takes the blanks at the end of a line away.
TrimmedLen(s) == Min({k \in 0..Len(s) : \A i \in (k + 1)..Len(s) : s[i] = BLANK})
Trimmed(s) == SubSeq(s, 1, TrimmedLen(s))

Upto(n, max) == IF n > max THEN max ELSE n

\* What does not fit into cmdline is dropped.
LoadHdrCut(h, f) ==
    [h EXCEPT !.cmdline = SubSeq(f.cmdline, 1, Upto(TrimmedLen(f.cmdline), BOOT_ARGS_SIZE)), !.extra_cmdline = <<>>,
              !.os_version = PackOs(f.os)]

\* load_hdr_file: a line may fill cmdline and go on in extra_cmdline.
LoadHdr(h, f) ==
    LET line == Trimmed(f.cmdline)
        name == Trimmed(f.name)
        cut == Upto(Len(line), BOOT_ARGS_SIZE)
    IN  [h EXCEPT !.cmdline = SubSeq(line, 1, cut),
                  !.extra_cmdline = SubSeq(line, cut + 1, cut + Upto(Len(line) - cut, BOOT_EXTRA_ARGS_SIZE)),
                  !.name = SubSeq(name, 1, Upto(Len(name), NAME_COPIED)),
                  !.os_version = IF h.ver \in HasOsVersion /\ PackOs(f.os) # 0 THEN PackOs(f.os) ELSE @]

(***************************************************************************)
(* unpack, and what a user does with the files                             *)
(***************************************************************************)

NoHdrFile == [file |-> "none"]
NoFiles == [part |-> [p \in Parts |-> Missing], header |-> NoHdrFile]

BootInit ==
    /\ bootImg = <<>> /\ bootFiles = NoFiles /\ bootEdits = 0 /\ bootNew = <<>>
    /\ bootFlags = [n |-> FALSE, h |-> FALSE, skip |-> FALSE] /\ bootStep = "idle"

\* What unpack leaves in the directory: a block of size 0 writes no file.
Unpacked(img, n, h, old) ==
    LET b == Parse(img)
        file(p) == IF p \in Recompressed /\ ~n /\ b.data[p].fmt \in COMPRESSED
                   THEN [b.data[p] EXCEPT !.fmt = "raw"] ELSE b.data[p]
    IN  [part |-> [p \in Parts |-> IF b.data[p] = Missing THEN old.part[p] ELSE file(p)],
         header |-> IF h THEN DumpHdr(img.hdr) ELSE old.header]

Unpack ==
    /\ bootStep = "idle" /\ bootStep' = "unpacked"
    /\ \E img \in BootImages, n \in BOOLEAN, h \in BOOLEAN :
        /\ bootImg' = img /\ bootFlags' = [bootFlags EXCEPT !.n = n, !.h = h]
        /\ bootFiles' = Unpacked(img, n, h, bootFiles)
    /\ UNCHANGED <<bootEdits, bootNew>>

\* A file is replaced or removed.
EditFile ==
    /\ bootStep = "unpacked" /\ bootEdits < MaxBootEdits /\ bootEdits' = bootEdits + 1
    /\ \E e \in BootEdits : /\ bootFiles.part[e.part] # Missing
                            /\ bootFiles' = [bootFiles EXCEPT !.part[e.part] = e.data]
    /\ UNCHANGED <<bootImg, bootFlags, bootNew, bootStep>>

(***************************************************************************)
(* repack                                                                  *)
(***************************************************************************)

\* The pages are counted from the beginning of the file.
AlignInFile(pos, base) == PageAlign(pos)

\* file_align: from the beginning of the header.
FileAlign(pos, base) == base + PageAlign(pos - base)

\* compress, or xwrite of what is there.
NewData(b, p, f, skip) ==
    IF ~skip /\ f # Missing /\ f.fmt \notin COMPRESSED_ANY /\ b.data[p].fmt \in COMPRESSED
    THEN [f EXCEPT !.fmt = b.data[p].fmt] ELSE f

SizeOf(d) == IF d = Missing THEN 0 ELSE Size(d)

\* new_addr + off, n bytes: what HASH_update sees.
Bytes(at, off, n) == {<<o - off, at[o]>> : o \in {x \in DOMAIN at : x >= off /\ x < off + n}}

\* The checksum: the blocks and their sizes, at the offsets off.
Checksum(h, at, off) ==
    LET part(p) == <<Bytes(at, off[p], h.size[p]), h.size[p]>>
    IN  <<part("kernel"), part("ramdisk"), part("second")>>
        \o (IF h.size["extra"] # 0 THEN <<part("extra")>> ELSE <<>>)
        \o (IF h.ver \in {"v1", "v2"} THEN <<part("recovery_dtbo")>> ELSE <<>>)
        \o (IF h.ver = "v2" THEN <<part("dtb")>> ELSE <<>>)

FOOTER == 1

\* The AVB footer takes the end of the image, whatever was there.
WithFooter(at, size) == [o \in {x \in DOMAIN at : x + Size(at[x]) <= size - FOOTER} |-> at[o]]

\* The offset of the old header is kept.
DtboOffsetKept(h, d, pos) == h.dtbo_offset

\* recovery_dtbo_offset is set only with a file.
DtboOffset(h, d, pos) == IF d # Missing THEN pos ELSE h.dtbo_offset

\* Verification stays as it was.
FlagsKept(meta) == meta

\* vbmeta->flags = 3: no verification, no hashtrees.
DisableVerification(meta) == [meta EXCEPT !.v = 3]

\* The pieces of the new file.
Pieces(b, img, part, skip) ==
    LET kd == NewData(b, "kernel", part["kernel"], FALSE)
        rd == NewData(b, "ramdisk", part["ramdisk"], skip)
        optional(there, d) == IF there THEN d ELSE Missing
    IN  [mtk_kernel |-> optional(b.mtk_kernel, MtkHdr(SizeOf(kd) + SizeOf(part["kernel_dtb"]))),
         kernel |-> kd, kernel_dtb |-> part["kernel_dtb"],
         mtk_ramdisk |-> optional(b.mtk_ramdisk, MtkHdr(SizeOf(rd))),
         ramdisk |-> rd, second |-> part["second"], extra |-> NewData(b, "extra", part["extra"], skip),
         recovery_dtbo |-> part["recovery_dtbo"], dtb |-> part["dtb"],
         trailer |-> IF b.seandroid THEN Data("seandroid", "raw", 1)
                     ELSE optional(b.lg_bump, Data("bump", "raw", 1)),
         dhtb |-> optional(img.pre = "dhtb", Data("ffff", "raw", 1)),
         vbmeta |-> optional(b.avb # Missing, DisableVerification(b.avb))]

\* First half: the pieces are written one after the other, with padding
\* after a block that is there; this is where each begins.
Written(d, base, space) ==
    LET past(o, p) == o + SizeOf(d[p])
        padded(o, p) == IF d[p] = Missing THEN o ELSE FileAlign(past(o, p), base)
        mtk_kernel == base + space
        kernel == past(mtk_kernel, "mtk_kernel")
        kernel_dtb == past(kernel, "kernel")
        mtk_ramdisk == FileAlign(past(kernel_dtb, "kernel_dtb"), base)
        ramdisk == past(mtk_ramdisk, "mtk_ramdisk")
        second == padded(ramdisk, "ramdisk")
        extra == padded(second, "second")
        recovery_dtbo == padded(extra, "extra")
        dtb == padded(recovery_dtbo, "recovery_dtbo")
        trailer == padded(dtb, "dtb")
        dhtb == past(trailer, "trailer")
        total == past(dhtb, "dhtb")
        vbmeta == FileAlign(total, base)
    IN  [mtk_kernel |-> mtk_kernel, kernel |-> kernel, kernel_dtb |-> kernel_dtb, mtk_ramdisk |-> mtk_ramdisk,
         ramdisk |-> ramdisk, second |-> second, extra |-> extra, recovery_dtbo |-> recovery_dtbo, dtb |-> dtb,
         trailer |-> trailer, dhtb |-> dhtb, total |-> total, vbmeta |-> vbmeta, end |-> past(vbmeta, "vbmeta")]

\* The file that gives.
Contents(d, off) ==
    LET there == {p \in DOMAIN d : d[p] # Missing}
    IN  [o \in {off[p] : p \in there} |-> d[CHOOSE p \in there : off[p] = o]]

\* The sizes in the new header; extra_size and recovery_dtbo_size are only
\* set when there is a file.
NewSizes(h, d) ==
    LET kept(p) == IF d[p] = Missing THEN h.size[p] ELSE Size(d[p])
        size == [kernel |-> SizeOf(d.mtk_kernel) + SizeOf(d.kernel) + SizeOf(d.kernel_dtb),
                 ramdisk |-> SizeOf(d.mtk_ramdisk) + SizeOf(d.ramdisk), second |-> SizeOf(d.second),
                 extra |-> kept("extra"), recovery_dtbo |-> kept("recovery_dtbo"), dtb |-> SizeOf(d.dtb)]
    IN  [p \in Blocks |-> IF p \in FieldsOf[h.ver] THEN size[p] ELSE 0]

NewHdr(h, header, d, off) ==
    [(IF header = NoHdrFile THEN h ELSE LoadHdr(h, header)) EXCEPT
        !.size = NewSizes(h, d), !.dtbo_offset = DtboOffset(h, d.recovery_dtbo, off.recovery_dtbo)]

\* Second half: the header, its checksum, the footer and the prefix.
Finished(img, avb, hdr, d, off, size) ==
    [pre |-> IF img.pre = "chromeos" THEN "none" ELSE img.pre,
     hdr |-> IF hdr.ver \notin HasId THEN hdr
             ELSE [hdr EXCEPT !.id = Checksum(hdr, Contents(d, off),
                    [kernel |-> off.mtk_kernel, ramdisk |-> off.mtk_ramdisk, second |-> off.second,
                     extra |-> off.extra, recovery_dtbo |-> hdr.dtbo_offset, dtb |-> off.dtb])],
     at |-> IF avb THEN WithFooter(Contents(d, off), size) ELSE Contents(d, off),
     size |-> size,
     footer |-> IF avb THEN <<off.total, off.vbmeta>> ELSE <<>>,
     room |-> off.end <= size - FOOTER,
     payload |-> off.total - PreSize[img.pre]]

Repacked(img, header, part, skip) ==
    LET b == Parse(img)
        d == Pieces(b, img, part, skip)
        off == Written(d, IF img.pre = "chromeos" THEN 0 ELSE PreSize[img.pre], HdrSpace(img.hdr.ver))
    IN  Finished(img, b.avb # Missing, NewHdr(img.hdr, header, d, off), d, off,
                 IF img.pre # "chromeos" /\ off.end < img.size THEN img.size ELSE off.end)

Repack ==
    /\ bootStep = "unpacked" /\ bootStep' = "repacked"
    /\ \E skip \in BOOLEAN : /\ bootFlags' = [bootFlags EXCEPT !.skip = skip]
                             /\ bootNew' = Repacked(bootImg, bootFiles.header, bootFiles.part, skip)
    /\ UNCHANGED <<bootImg, bootFiles, bootEdits>>

\* magiskboot cleanup
Cleanup ==
    /\ bootStep = "repacked" /\ bootStep' = "clean" /\ bootFiles' = NoFiles
    /\ UNCHANGED <<bootImg, bootEdits, bootFlags, bootNew>>

BootNext == Unpack \/ EditFile \/ Repack \/ Cleanup

BootSpec == BootInit /\ [][BootNext]_bootVars

(***************************************************************************)
(* Properties                                                              *)
(***************************************************************************)

\* extra_size and recovery_dtbo_size keep their values when the file is
\* removed, an MTK header without a ramdisk is not padded, and a device tree
\* without a kernel before it is taken for one.
Misplaced ==
    LET b == Parse(bootImg)
    IN  \/ \E p \in {"extra", "recovery_dtbo"} : b.data[p] # Missing /\ bootFiles.part[p] = Missing
        \/ b.mtk_ramdisk /\ bootFiles.part["ramdisk"] = Missing
        \/ bootFiles.part["kernel"] = Missing /\ bootFiles.part["kernel_dtb"] # Missing

\* The format in which a part of the new image is stored.
WantedFmt(p) ==
    LET f == bootFiles.part[p].fmt
        o == Parse(bootImg).data[p].fmt
        again == p = "kernel" \/ (p \in {"ramdisk", "extra"} /\ ~bootFlags.skip)
    IN  IF again /\ bootFiles.part[p] # Missing /\ f \notin COMPRESSED_ANY /\ o \in COMPRESSED THEN o ELSE f

\* The new image, taken apart again, holds every file, in the format of the
\* old image unless the file was compressed already, and the trailer of its
\* vendor: sizes, offsets and alignment in the header agree with what was
\* written, for every version of the header and every edit.
PartsKept ==
    bootStep = "repacked" /\ ~Misplaced =>
        LET b == Parse(bootImg)
            c == Parse(bootNew)
        IN  /\ \A p \in Parts : c.data[p] = [bootFiles.part[p] EXCEPT !.fmt = WantedFmt(p)]
            /\ c.mtk_kernel = b.mtk_kernel /\ c.mtk_ramdisk = b.mtk_ramdisk
            /\ c.seandroid = b.seandroid /\ c.lg_bump = b.lg_bump

\* The checksum in the new header is the one a reader of the image computes
\* from the blocks as the header places them.
ChecksumOfBlocks ==
    bootStep = "repacked" /\ ~Misplaced /\ bootNew.hdr.ver \in HasId =>
        LET off == BlockOffset(bootNew.hdr)
        IN  bootNew.hdr.id = Checksum(bootNew.hdr, bootNew.at, [p \in Blocks |-> PreSize[bootNew.pre] + off[p]])

\* An image verified at boot keeps its metadata, told to verify nothing, where
\* the footer says it is, as long as the footer has room of its own.
VbmetaDisabled ==
    bootStep = "repacked" /\ ~Misplaced /\ Parse(bootImg).avb # Missing /\ bootNew.room =>
        /\ Parse(bootNew).avb = [Parse(bootImg).avb EXCEPT !.v = 3]
        /\ bootNew.at[bootNew.footer[2]].what = "vbmeta"

\* Unpacking the header to a file and loading it again keeps the version, the
\* command line and the name, but for blanks at the end and for the end of a
\* name longer than load_hdr_file copies.
HeaderKept ==
    bootStep = "repacked" /\ bootFlags.h =>
        LET old == bootImg.hdr
            new == bootNew.hdr
        IN  /\ new.cmdline \o new.extra_cmdline = Trimmed(old.cmdline \o old.extra_cmdline)
            /\ Len(old.name) <= NAME_COPIED => new.name = Trimmed(old.name)
            /\ new.os_version = old.os_version

\* repack changes nothing but what the files ask for, as far as a header file
\* can say it, and what it writes is what a boot loader or a second unpack
\* reads.
RepackFaithful == PartsKept /\ ChecksumOfBlocks /\ VbmetaDisabled /\ HeaderKept
=============================================================================
