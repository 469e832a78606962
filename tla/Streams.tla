------------------------------ MODULE Streams ------------------------------
(* magiskboot compress and decompress (magiskboot/compress.cpp): a file is  *)
(* read in pieces, every piece is written to an encoder or a decoder, and   *)
(* the file is removed when its replacement is complete.                    *)
(*                                                                          *)
(* The plain data are the bytes 1..n.  A compressed byte has a kind: of the *)
(* magic, of a size (4 bytes), of a block of LZ4 (one byte longer than its  *)
(* data), a byte a library has encoded, or its end mark.                    *)
EXTENDS Integers, Sequences, SequencesExt

CONSTANTS
    MaxPlain,     \* bound: size of the file
    PieceSizes,   \* how much one fread may deliver
    LZ4_UNCOMPRESSED,   \* size of a block
    CHUNK         \* size of the output buffer of a library stream

VARIABLES
    zStep,      \* idle, encode, encoded, decode, decoded, failed, refused, undefined
    zFmt, zPlain,    \* format and size of the plain data
    zIn,        \* what is still to be read
    zFile,      \* the compressed file
    zOut,       \* the decompressed file
    zBuf, zOff, zBlock,   \* buf, buf_off, block_sz of an LZ4 stream
    zLib,       \* what a library has taken and not produced
    zSplit,     \* a size was cut by the end of a piece
    zFull,      \* the disk was full once
    zLeft       \* the files there are

zVars == <<zStep, zFmt, zPlain, zIn, zFile, zOut, zBuf, zOff, zBlock, zLib, zSplit, zFull, zLeft>>

LZ4_LEGACY == "lz4_legacy"
LZ4_LG == "lz4_lg"
LZ4F == "lz4"     \* frames
Libraries == {"gzip", "bzip2", "xz", LZ4F}

Byte(kind, v, i) == [kind |-> kind, v |-> v, i |-> i]
Magic == [i \in 1..4 |-> Byte("magic", 0, i)]
SizeBytes(n) == [i \in 1..4 |-> Byte("size", n, i)]

\* LZ4_compress_HC: the block of the bytes s, which are consecutive.
BlockBytes(s) == [i \in 1..(Len(s) + 1) |-> Byte("block", s[1] * 100 + Len(s), i)]

ZInit ==
    /\ zStep = "idle" /\ zFmt = LZ4_LEGACY /\ zPlain = 0 /\ zIn = <<>> /\ zFile = <<>> /\ zOut = <<>>
    /\ zBuf = <<>> /\ zOff = 0 /\ zBlock = 0 /\ zLib = <<>> /\ zSplit = FALSE /\ zFull = FALSE
    /\ zLeft = {"plain"}

\* compress: the method is known, the input is open.
BeginEncode ==
    /\ zStep = "idle" /\ zStep' = "encode"
    /\ \E f \in Libraries \cup {LZ4_LEGACY, LZ4_LG}, n \in 0..MaxPlain :
        zFmt' = f /\ zPlain' = n /\ zIn' = [i \in 1..n |-> i]
    /\ UNCHANGED <<zFile, zOut, zBuf, zOff, zBlock, zLib, zSplit, zFull, zLeft>>

(***************************************************************************)
(* LZ4_encoder                                                             *)
(***************************************************************************)

\* write_block
WriteBlock(s) == SizeBytes(Len(s) + 1) \o BlockBytes(s)

\* All full blocks of s.
FullBlocks(s) ==
    FlattenSeq([i \in 1..(Len(s) \div LZ4_UNCOMPRESSED) |->
        WriteBlock(SubSeq(s, (i - 1) * LZ4_UNCOMPRESSED + 1, i * LZ4_UNCOMPRESSED))])

Piece == {k \in PieceSizes : k <= Len(zIn)} \cup (IF Len(zIn) < 4 THEN {Len(zIn)} ELSE {})

Lz4Encode ==
    /\ zStep = "encode" /\ zFmt \notin Libraries /\ zIn # <<>>
    /\ \E k \in Piece \ {0} :
        LET s == zBuf \o SubSeq(zIn, 1, k)
        IN  /\ zFile' = (IF Len(zIn) = zPlain THEN Magic ELSE zFile) \o FullBlocks(s)
            /\ zBuf' = SubSeq(s, (Len(s) \div LZ4_UNCOMPRESSED) * LZ4_UNCOMPRESSED + 1, Len(s))
            /\ zIn' = SubSeq(zIn, k + 1, Len(zIn))
    /\ UNCHANGED <<zStep, zFmt, zPlain, zOut, zOff, zBlock, zLib, zSplit, zFull, zLeft>>

\* The size of the whole is written for both formats.
FinishWithTotal(file) ==
    file \o (IF zBuf # <<>> THEN WriteBlock(zBuf) ELSE <<>>) \o SizeBytes(zPlain)

\* ~LZ4_encoder: the last block, and for LG the size of the whole.
Lz4Finish(file) ==
    file \o (IF zBuf # <<>> THEN WriteBlock(zBuf) ELSE <<>>)
         \o (IF zFmt = LZ4_LG THEN SizeBytes(zPlain) ELSE <<>>)

(***************************************************************************)
(* LZ4_decoder                                                             *)
(***************************************************************************)

Overlay(buf, off, s) == SubSeq(buf, 1, off) \o s \o SubSeq(buf, off + Len(s) + 1, Len(buf))

\* The block size in the first 4 bytes of the buffer; other bytes than the
\* four of one size give a number that is none of the file's.
Garbled == 1000
SizeIn(buf) ==
    IF \A i \in 1..4 : buf[i] = Byte("size", buf[1].v, i) THEN buf[1].v ELSE Garbled

\* LZ4_decompress_safe; <<0>> when it fails.
Decompressed4(s) ==
    IF /\ \A i \in DOMAIN s : s[i] = Byte("block", s[1].v, i)
       /\ Len(s) = (s[1].v % 100) + 1
    THEN [i \in 1..(s[1].v % 100) |-> (s[1].v \div 100) + i - 1] ELSE <<0>>

\* The loop of write: buf_off is not moved when a size is incomplete.
RECURSIVE DecodeLoop(_, _)
DecodeLoop(d, in) ==
    IF in = <<>> \/ d.bad THEN d
    ELSE IF d.block = 0
    THEN IF d.off + Len(in) >= 4
         THEN LET n == 4 - d.off
                  buf == Overlay(d.buf, d.off, SubSeq(in, 1, n))
              IN  DecodeLoop([d EXCEPT !.buf = buf, !.block = SizeIn(buf), !.off = 0],
                             SubSeq(in, n + 1, Len(in)))
         ELSE [d EXCEPT !.buf = Overlay(d.buf, d.off, in), !.split = TRUE]
    ELSE IF d.off + Len(in) >= d.block
    THEN LET n == d.block - d.off
             out == Decompressed4(SubSeq(Overlay(d.buf, d.off, SubSeq(in, 1, n)), 1, d.block))
         IN  IF out = <<0>> THEN [d EXCEPT !.bad = TRUE]
             ELSE DecodeLoop([d EXCEPT !.out = @ \o out, !.off = 0, !.block = 0, !.buf = <<>>],
                             SubSeq(in, n + 1, Len(in)))
    ELSE [d EXCEPT !.buf = Overlay(d.buf, d.off, in), !.off = @ + Len(in)]

Lz4Decode ==
    /\ zStep = "decode" /\ zFmt \notin Libraries /\ zIn # <<>>
    /\ \E k \in Piece \ {0} :
        LET first == Len(zIn) = Len(zFile)
            d == DecodeLoop([buf |-> zBuf, off |-> zOff, block |-> zBlock, out |-> zOut,
                             split |-> zSplit, bad |-> FALSE],
                            SubSeq(zIn, IF first THEN 5 ELSE 1, k))
        IN  /\ first => k >= 4
            /\ zBuf' = d.buf /\ zOff' = d.off /\ zBlock' = d.block /\ zOut' = d.out /\ zSplit' = d.split
            /\ zStep' = IF d.bad THEN "failed" ELSE zStep
            /\ zIn' = SubSeq(zIn, k + 1, Len(zIn))
    /\ UNCHANGED <<zFmt, zPlain, zFile, zLib, zFull, zLeft>>

\* check_fmt
IsLz4(file) == Len(file) >= 4 /\ SubSeq(file, 1, 4) = Magic

\* check_fmt_lg: a block that goes beyond the end is the size of the whole.
IsLg(file) ==
    LET ends[off \in 0..Len(file)] ==
            IF off + 4 > Len(file) THEN FALSE
            ELSE LET n == file[off + 1].v
                 IN  IF off + 4 + n > Len(file) THEN TRUE ELSE ends[off + 4 + n]
    IN  IsLz4(file) /\ ends[4]

(***************************************************************************)
(* gz_strm, bz_strm, lzma_strm, LZ4F_encoder and LZ4F_decoder              *)
(***************************************************************************)

EndMark == Byte("end", 0, 0)

\* One turn only: what does not fit into the buffer stays in the library.
WriteOnce(lib, k) ==
    LET n == IF k > CHUNK THEN CHUNK ELSE k
    IN  [given |-> SubSeq(lib, 1, n), left |-> SubSeq(lib, n + 1, Len(lib)), error |-> FALSE]

\* The do loop: the library produces k bytes, a buffer at a time, and is
\* called once more when the last one was full; bzip2 calls a call without
\* progress an error.  (The LZ4F decoder is called until it has neither input
\* nor output left; the encoder has room for all a call gives.)
WriteLoop(lib, k) ==
    [given |-> SubSeq(lib, 1, k), left |-> SubSeq(lib, k + 1, Len(lib)),
     error |-> zFmt = "bzip2" /\ k > 0 /\ k % CHUNK = 0]

\* While data come in an encoder produces what it likes; LZ4F has autoFlush.
LibEncode ==
    /\ zStep = "encode" /\ zFmt \in Libraries /\ zIn # <<>>
    /\ \E k \in Piece \ {0} :
        LET lib == zLib \o SubSeq(zIn, 1, k)
        IN  \E n \in (IF zFmt = LZ4F THEN {Len(lib)} ELSE 0..Len(lib)) :
                LET w == WriteLoop(lib, n)
                IN  /\ zFile' = zFile \o [i \in DOMAIN w.given |-> Byte("coded", w.given[i], 0)]
                    /\ zLib' = w.left
                    /\ zStep' = IF w.error THEN "failed" ELSE zStep
        /\ zIn' = SubSeq(zIn, k + 1, Len(zIn))
    /\ UNCHANGED <<zFmt, zPlain, zOut, zBuf, zOff, zBlock, zSplit, zFull, zLeft>>

\* A decoder produces what the bytes it has got encode, at the latest with
\* the end mark; the destructors of bzip2 and LZ4F decoders flush nothing.
\* The header of a frame is in the first piece.
LibDecode ==
    /\ zStep = "decode" /\ zFmt \in Libraries /\ zIn # <<>>
    /\ \E k \in Piece \ {0} :
        LET got == SelectSeq(SubSeq(zIn, 1, k), LAMBDA b : b.kind = "coded")
            lib == zLib \o [i \in DOMAIN got |-> got[i].v]
            last == zIn[k] = EndMark
        IN  \E n \in (IF last THEN {Len(lib)} ELSE 0..Len(lib)) :
                LET w == WriteLoop(lib, n)
                IN  /\ zOut' = zOut \o w.given /\ zLib' = w.left
                    /\ zStep' = IF w.error /\ last THEN "failed" ELSE zStep
        /\ zIn' = SubSeq(zIn, k + 1, Len(zIn))
    /\ UNCHANGED <<zFmt, zPlain, zFile, zBuf, zOff, zBlock, zSplit, zFull, zLeft>>

(***************************************************************************)
(* The end of the two commands                                             *)
(***************************************************************************)

\* strm.reset and unlink.  A write to a full disk is not noticed.  Without
\* input an LZ4 file gets no magic, and ~LZ4F_encoder has no buffer.
EndEncode ==
    /\ zStep = "encode" /\ zIn = <<>>
    /\ zStep' = IF zFmt = LZ4F /\ zPlain = 0 THEN "undefined" ELSE "encoded"
    /\ \E full \in BOOLEAN :
        LET file == IF zFmt \notin Libraries THEN Lz4Finish(zFile)
                    ELSE zFile \o [i \in DOMAIN zLib |-> Byte("coded", zLib[i], 0)] \o <<EndMark>>
        IN  /\ zFull' = full
            /\ zFile' = IF full THEN SubSeq(file, 1, Len(file) - 1) ELSE file
    /\ zLeft' = {"compressed"} /\ zBuf' = <<>> /\ zLib' = <<>>
    /\ UNCHANGED <<zFmt, zPlain, zIn, zOut, zOff, zBlock, zSplit>>

\* check_fmt does not know a file without its magic, and an empty one is not
\* read at all.
Refused(file) == file = <<>> \/ (zFmt \notin Libraries /\ ~IsLz4(file))

BeginDecode ==
    /\ zStep = "encoded" /\ zStep' = (IF Refused(zFile) THEN "refused" ELSE "decode") /\ zIn' = zFile
    /\ UNCHANGED <<zFmt, zPlain, zFile, zOut, zBuf, zOff, zBlock, zLib, zSplit, zFull, zLeft>>

\* The destructors call the library once more, but for those two decoders.
FlushedAtEnd == Libraries \ {"bzip2", LZ4F}

EndDecode ==
    /\ zStep = "decode" /\ zIn = <<>> /\ zStep' = "decoded" /\ zLeft' = {"plain"}
    /\ zOut' = IF zFmt \in FlushedAtEnd THEN zOut \o zLib ELSE zOut
    /\ UNCHANGED <<zFmt, zPlain, zIn, zFile, zBuf, zOff, zBlock, zLib, zSplit, zFull>>

ZNext ==
    \/ BeginEncode \/ Lz4Encode \/ LibEncode \/ EndEncode \/ BeginDecode \/ Lz4Decode \/ LibDecode
    \/ EndDecode

(***************************************************************************)
(* Properties                                                              *)
(***************************************************************************)

\* What decompress leaves is what compress was given, however the two files
\* were cut into pieces, unless the disk was full or the size of a block lay
\* across two pieces; and it refuses no file but an LZ4 one of no data.
PlainBack ==
    /\ zStep = "decoded" /\ ~zSplit /\ ~zFull => zOut = [i \in 1..zPlain |-> i]
    /\ zStep = "refused" /\ ~zFull => zPlain = 0

\* The size of a block is read right wherever a piece ends.
RoundTripAnyPieces ==
    zStep = "decoded" /\ ~zFull => zOut = [i \in 1..zPlain |-> i]

\* The format that was asked for is the one found again when the image is
\* unpacked: only an LG file ends with the size of the whole.  (One of no data
\* has no magic and is found to be nothing.)
LgFound ==
    zStep = "encoded" /\ zFmt \notin Libraries /\ ~zFull /\ zPlain > 0 => (IsLg(zFile) <=> zFmt = LZ4_LG)

\* Compressing loses neither the data nor the format.
RoundTrip == PlainBack /\ LgFound
=============================================================================
