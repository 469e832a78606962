------------------------------ MODULE Ramdisk ------------------------------
(* The ramdisk of a boot image (utils/cpio.cpp, magiskboot/ramdisk.cpp): an *)
(* installer edits a copy of the stock archive, has the difference kept in  *)
(* .backup, and may compress it; an uninstaller restores the stock archive  *)
(* from it much later.                                                      *)
(*                                                                          *)
(* The name of an entry is a sequence of path components; the data of a     *)
(* file is a set of tokens (the options of an fstab, or just one).  The     *)
(* data of .rmlist and of the compressed archive are kept in variables of   *)
(* their own.                                                               *)
EXTENDS Integers, Sequences, FiniteSetsExt

CONSTANTS
    Names,           \* sequence: every path, in the order of the map
    Tokens,          \* what data consist of
    NameSize(_),     \* the length of a path, with its zero
    FileSize(_),     \* the length of data
    Stocks,          \* the archives an installer may find
    Edits,           \* the commands an installer may give
    MaxCpioEdits     \* bound

VARIABLES
    orig, cpio,        \* the stock archive, and entries
    cpioRm, cpioXz,    \* what .rmlist and ramdisk.cpio.xz hold
    image, cpioPos,    \* the file that dump writes or load_cpio reads, and pos
    cpioIt,            \* the entries the iterator of dump or of restore has before it
    cpioStep, cpioEdits,
    cpioTest,          \* what test has returned
    cpioSaved,         \* history: the archive the installer has made
    dangling           \* the iterator of restore points to an erased entry

cpioVars == <<orig, cpio, cpioRm, cpioXz, image, cpioPos, cpioIt, cpioStep, cpioEdits, cpioTest, cpioSaved, dangling>>

Backup == <<".backup">>
MagiskConfig == <<".backup", ".magisk">>
Rmlist == <<".backup", ".rmlist">>
RAMDISK_XZ == <<"ramdisk.cpio.xz">>
InitFile == <<"init">>
Trailer == <<"TRAILER!!!">>

Reg(data) == [mode |-> "reg", data |-> data]
Dir == [mode |-> "dir", data |-> {}]

\* entry_map: the order of std::map<string_view, ...>.
First(S) == Names[Min({i \in DOMAIN Names : Names[i] \in S})]
Under(dir, p) == Len(p) >= Len(dir) /\ SubSeq(p, 1, Len(dir)) = dir
Drop(a, S) == [p \in DOMAIN a \ S |-> a[p]]
Put(a, p, e) == [q \in DOMAIN a \cup {p} |-> IF q = p THEN e ELSE a[q]]
Merge(a, b) == [p \in DOMAIN a \cup DOMAIN b |-> IF p \in DOMAIN a THEN a[p] ELSE b[p]]

(***************************************************************************)
(* What is assumed of names and archives                                   *)
(***************************************************************************)

Paths == {Names[i] : i \in DOMAIN Names}
Special == {RAMDISK_XZ, Backup, MagiskConfig, Rmlist}

\* Names that the tool does not take for itself (load_cpio skips . and ..).  A
\* component that only begins with .backup or magisk stands for no file: restore
\* compares prefixes.
Plain(p) ==
    /\ p \in Paths \ {<<>>, <<".">>, <<"..">>, RAMDISK_XZ, Trailer, <<".magisk">>, <<".rmlist">>}
    /\ ~Under(Backup, p) => Backup \o p \in Paths

IsEntry(e) == e = [mode |-> e.mode, data |-> e.data] /\ e.data \subseteq Tokens
IsArchive(a) == a = [p \in DOMAIN a |-> a[p]] /\ \A p \in DOMAIN a : p \in Paths /\ IsEntry(a[p])

ASSUME NamesAssumption ==
    /\ Names \in Seq(Seq(STRING)) /\ Special \subseteq Paths
    /\ \A p \in Paths \cup {Trailer} : NameSize(p) \in Nat
    /\ \A d \in SUBSET Tokens : FileSize(d) \in Nat
    /\ FileSize({}) = 0 /\ {"config", "xz"} \subseteq Tokens
ASSUME StocksAssumption == \A a \in Stocks : IsArchive(a) /\ \A p \in DOMAIN a : Plain(p)
ASSUME EditsAssumption ==
    \A c \in Edits : /\ c.cmd = "add" => Plain(c.name) /\ IsEntry(c.entry)
                     /\ c.cmd = "mv" => Plain(c.to)

(***************************************************************************)
(* The commands of an installer                                            *)
(***************************************************************************)

CpioInit ==
    /\ orig = <<>> /\ cpio = <<>> /\ cpioRm = {} /\ cpioXz = <<>> /\ image = <<>> /\ cpioPos = 0 /\ cpioIt = {}
    /\ cpioStep = "idle" /\ cpioEdits = 0 /\ cpioTest = {} /\ cpioSaved = <<>> /\ dangling = FALSE

LoadStock ==
    /\ cpioStep = "idle" /\ cpioStep' = "edit"
    /\ \E a \in Stocks : orig' = a /\ cpio' = a
    /\ UNCHANGED <<cpioRm, cpioXz, image, cpioPos, cpioIt, cpioEdits, cpioTest, cpioSaved, dangling>>

Verity == {"verify", "avb"}
Encryption == {"forceencrypt", "fileencryption"}

\* The name of an fstab; those of a recovery are left alone.
Mentions(p, word) == \E i \in DOMAIN p : p[i] = word
IsFstab(p) ==
    ~Under(Backup, p) /\ ~Mentions(p, "twrp") /\ ~Mentions(p, "recovery") /\ Mentions(p, "fstab")

\* magisk_cpio::patch with KEEPVERITY and KEEPFORCEENCRYPT.
Patch(a, keepverity, keepforceencrypt) ==
    LET gone == (IF keepverity THEN {} ELSE Verity) \cup (IF keepforceencrypt THEN {} ELSE Encryption)
        removed == IF keepverity THEN {} ELSE {<<"verity_key">>}
    IN  [p \in DOMAIN a \ removed |->
            IF a[p].mode = "reg" /\ IsFstab(p) THEN [a[p] EXCEPT !.data = @ \ gone] ELSE a[p]]

\* add, mkdir and ln; rm and rm -r; mv; patch.
Edited(a, c) ==
    CASE c.cmd = "add" -> Put(a, c.name, c.entry)
      [] c.cmd = "rm" -> Drop(a, {p \in DOMAIN a : p = c.name \/ (c.r /\ Under(c.name, p))})
      [] c.cmd = "mv" -> IF c.name \in DOMAIN a THEN Put(Drop(a, {c.name}), c.to, a[c.name]) ELSE a
      [] OTHER -> Patch(a, c.keepverity, c.keepforceencrypt)

Edit ==
    /\ cpioStep = "edit" /\ cpioEdits < MaxCpioEdits /\ cpioEdits' = cpioEdits + 1
    /\ \E c \in Edits : cpio' = Edited(cpio, c)
    /\ UNCHANGED <<orig, cpioRm, cpioXz, image, cpioPos, cpioIt, cpioStep, cpioTest, cpioSaved, dangling>>

\* Only what the new archive lacks is kept.
MissingOnly(a, o) == DOMAIN o \ DOMAIN a

\* What the new archive lacks, or has with other data.
Different(a, o) == {p \in DOMAIN o : p \notin DOMAIN a \/ a[p].data # o[p].data}

\* bkup_entries: the directory, the old entries, the list of the new ones.
BkupEntries(a, o) ==
    LET old == {Backup \o q : q \in Different(a, o)}
        list == IF DOMAIN a \subseteq DOMAIN o THEN {} ELSE {Rmlist}
    IN  [p \in {Backup} \cup old \cup list |-> IF p = Backup THEN Dir ELSE IF p \in old THEN o[Tail(p)] ELSE Reg({})]

\* What backup makes of the archive a and of the stock archive o; a backup of
\* the directory alone is none.
BackedUp(a, o) == IF DOMAIN BkupEntries(a, o) = {Backup} THEN a ELSE Merge(a, BkupEntries(a, o))

\* The backup, and the directory and the config the installer adds.
MakeBackup ==
    /\ cpioStep = "edit" /\ cpioStep' = "saved"
    /\ LET o == Drop(orig, {p \in DOMAIN orig : Under(Backup, p)})
           a == Drop(cpio, {p \in DOMAIN cpio : Under(Backup, p)})
       IN  /\ cpio' = Put(Put(BackedUp(a, o), Backup, Dir), MagiskConfig, Reg({"config"}))
           /\ cpioRm' = DOMAIN a \ DOMAIN o
    /\ cpioSaved' = cpio'
    /\ UNCHANGED <<orig, cpioXz, image, cpioPos, cpioIt, cpioEdits, cpioTest, dangling>>

(***************************************************************************)
(* cpio::dump                                                              *)
(***************************************************************************)

HEADER == 110
Align(pos) == ((pos + 3) \div 4) * 4
DataAt(pos, name) == Align(pos + HEADER + NameSize(name))

\* An entry with nothing in it ends without padding of its own.
AfterData(pos, e) == IF FileSize(e.data) = 0 THEN pos ELSE Align(pos + FileSize(e.data))

\* magisk_cpio::compress: everything but init goes into one entry.
Compress ==
    /\ cpioStep = "saved" /\ RAMDISK_XZ \notin DOMAIN cpio /\ cpioStep' = "packing"
    /\ image' = <<>> /\ cpioPos' = 0 /\ cpioIt' = DOMAIN cpio \ {InitFile}
    /\ UNCHANGED <<orig, cpio, cpioRm, cpioXz, cpioEdits, cpioTest, cpioSaved, dangling>>

\* The end of cpio_commands.
WriteImage ==
    /\ cpioStep = "saved" /\ cpioStep' = "flashing"
    /\ image' = <<>> /\ cpioPos' = 0 /\ cpioIt' = DOMAIN cpio
    /\ UNCHANGED <<orig, cpio, cpioRm, cpioXz, cpioEdits, cpioTest, cpioSaved, dangling>>

Dumping == cpioStep \in {"packing", "flashing"}

WriteEntry ==
    /\ Dumping /\ cpioIt # {}
    /\ LET p == First(cpioIt)
       IN  /\ image' = Put(image, cpioPos, [name |-> p, e |-> cpio[p]])
           /\ cpioPos' = AfterData(DataAt(cpioPos, p), cpio[p])
           /\ cpioIt' = cpioIt \ {p}
    /\ UNCHANGED <<orig, cpio, cpioRm, cpioXz, cpioStep, cpioEdits, cpioTest, cpioSaved, dangling>>

WithTrailer(img, pos) == Put(img, pos, [name |-> Trailer, e |-> Reg({})])

EndPacking ==
    /\ cpioStep = "packing" /\ cpioIt = {} /\ cpioStep' = "saved"
    /\ cpioXz' = WithTrailer(image, cpioPos)
    /\ cpio' = Put([p \in DOMAIN cpio \cap {InitFile} |-> cpio[p]], RAMDISK_XZ, Reg({"xz"}))
    /\ UNCHANGED <<orig, cpioRm, image, cpioPos, cpioIt, cpioEdits, cpioTest, cpioSaved, dangling>>

EndFlashing ==
    /\ cpioStep = "flashing" /\ cpioIt = {} /\ cpioStep' = "flashed"
    /\ image' = WithTrailer(image, cpioPos) /\ cpio' = <<>>
    /\ UNCHANGED <<orig, cpioRm, cpioXz, cpioPos, cpioIt, cpioEdits, cpioTest, cpioSaved, dangling>>

(***************************************************************************)
(* cpio_rw::load_cpio, and test                                            *)
(***************************************************************************)

ReadImage ==
    /\ cpioStep = "flashed" /\ cpioStep' = "reading" /\ cpioPos' = 0
    /\ UNCHANGED <<orig, cpio, cpioRm, cpioXz, image, cpioIt, cpioEdits, cpioTest, cpioSaved, dangling>>

\* The data are not padded.
NextUnaligned(pos, name, e) == DataAt(pos, name) + FileSize(e.data)

NextHeader(pos, name, e) == Align(DataAt(pos, name) + FileSize(e.data))

Loading == cpioStep \in {"reading", "unpacking"}

\* There is an entry, and it is not the trailer.
MoreEntries == cpioPos \in DOMAIN image /\ image[cpioPos].name # Trailer

ReadEntry ==
    /\ Loading /\ MoreEntries
    /\ LET h == image[cpioPos]
       IN  /\ cpio' = Put(cpio, h.name, h.e) /\ cpioPos' = NextHeader(cpioPos, h.name, h.e)
    /\ UNCHANGED <<orig, cpioRm, cpioXz, image, cpioIt, cpioStep, cpioEdits, cpioTest, cpioSaved, dangling>>

EndLoad ==
    /\ Loading /\ ~MoreEntries
    /\ cpioStep' = IF cpioStep = "reading" THEN "read" ELSE "unpacked"
    /\ UNCHANGED <<orig, cpio, cpioRm, cpioXz, image, cpioPos, cpioIt, cpioEdits, cpioTest, cpioSaved, dangling>>

Unsupported == {<<"sbin", "launch_daemonsu.sh">>, <<"sbin", "su">>, <<"init.xposed.rc">>,
                <<"boot", "sbin", "launch_daemonsu.sh">>}

\* The list of the first versions.
OldMagiskFiles == {<<"init.magisk.rc">>, <<"overlay", "init.magisk.rc">>}

MagiskFiles == {MagiskConfig, <<"init.magisk.rc">>, <<"overlay", "init.magisk.rc">>}

\* magisk_cpio::test, first part.
TestUnsupported ==
    /\ cpioStep = "read" /\ Unsupported \cap DOMAIN cpio # {}
    /\ cpioStep' = "tested" /\ cpioTest' = {"unsupported"}
    /\ UNCHANGED <<orig, cpio, cpioRm, cpioXz, image, cpioPos, cpioIt, cpioEdits, cpioSaved, dangling>>

\* decompress: the entries of the inner archive join init.
Decompress ==
    /\ cpioStep = "read" /\ Unsupported \cap DOMAIN cpio = {}
    /\ IF RAMDISK_XZ \in DOMAIN cpio
       THEN /\ cpioStep' = "unpacking" /\ cpioTest' = {"compressed", "magisk"}
            /\ cpio' = Drop(cpio, {RAMDISK_XZ}) /\ image' = cpioXz /\ cpioPos' = 0
       ELSE cpioStep' = "unpacked" /\ UNCHANGED <<cpio, image, cpioPos, cpioTest>>
    /\ UNCHANGED <<orig, cpioRm, cpioXz, cpioIt, cpioEdits, cpioSaved, dangling>>

\* test, second part.
TestMagisk ==
    /\ cpioStep = "unpacked" /\ cpioStep' = "tested"
    /\ cpioTest' = cpioTest \cup (IF MagiskFiles \cap DOMAIN cpio # {} THEN {"magisk"} ELSE {})
    /\ UNCHANGED <<orig, cpio, cpioRm, cpioXz, image, cpioPos, cpioIt, cpioEdits, cpioSaved, dangling>>

(***************************************************************************)
(* restore                                                                 *)
(***************************************************************************)

\* The scripts restore what test has found to be patched. The process that
\* does loads and decompresses the same file again; then the entries listed
\* in .rmlist go.
BeginRestore ==
    /\ cpioStep = "tested" /\ "magisk" \in cpioTest /\ cpioStep' = "restore"
    /\ cpio' = IF Rmlist \in DOMAIN cpio THEN Drop(cpio, cpioRm \cup {Rmlist}) ELSE cpio
    /\ cpioIt' = DOMAIN cpio'
    /\ UNCHANGED <<orig, cpioRm, cpioXz, image, cpioPos, cpioEdits, cpioTest, cpioSaved, dangling>>

KnownStuff(p) == p[1] = "magisk" \/ p \in {<<"init.magisk.rc">>, <<"overlay", "init.magisk.rc">>, <<"sbin", "magic_mask.sh">>}

\* Entries that go back to where they were.
Moved(p) == Under(Backup, p) /\ p \notin {Backup, MagiskConfig}

\* What an iteration of the loop does with an entry: the archive after it.
Restored(a, p) ==
    IF Moved(p) THEN Put(Drop(a, {p}), Tail(p), a[p])
    ELSE IF Under(Backup, p) \/ KnownStuff(p) THEN Drop(a, {p}) ELSE a

\* The loop has moved its iterator on before the entry is moved: it meets the
\* entry again if that comes later; if it is at the entry to be replaced, mv
\* erases it under the iterator.
RestoreEntry ==
    /\ cpioStep = "restore" /\ cpioIt # {} /\ ~dangling
    /\ LET p == First(cpioIt)
           rest == cpioIt \ {p}
           again == IF Moved(p) /\ rest # {} /\ First(rest \cup {Tail(p)}) = First(rest) THEN {Tail(p)} ELSE {}
       IN  /\ cpio' = Restored(cpio, p)
           /\ dangling' = (Moved(p) /\ rest # {} /\ First(rest) = Tail(p))
           /\ cpioIt' = rest \cup again
    /\ UNCHANGED <<orig, cpioRm, cpioXz, image, cpioPos, cpioStep, cpioEdits, cpioTest, cpioSaved>>

EndRestore ==
    /\ cpioStep = "restore" /\ (cpioIt = {} \/ dangling) /\ cpioStep' = "restored"
    /\ UNCHANGED <<orig, cpio, cpioRm, cpioXz, image, cpioPos, cpioIt, cpioEdits, cpioTest, cpioSaved, dangling>>

CpioNext ==
    \/ LoadStock \/ Edit \/ MakeBackup \/ Compress \/ WriteImage \/ WriteEntry \/ EndPacking \/ EndFlashing
    \/ ReadImage \/ ReadEntry \/ EndLoad \/ TestUnsupported \/ Decompress \/ TestMagisk
    \/ BeginRestore \/ RestoreEntry \/ EndRestore

CpioSpec == CpioInit /\ [][CpioNext]_cpioVars

(***************************************************************************)
(* Properties                                                              *)
(***************************************************************************)

\* What was saved is what is read back, compressed or not: the offsets of dump
\* and of load agree for every combination of name and data sizes.
ImageReadBack == cpioStep = "unpacked" => cpio = cpioSaved

\* A patched ramdisk is recognised, compressed or not: it is not taken for a
\* stock one, whose backup would be overwritten.
PatchRecognised == cpioStep = "tested" => {"magisk", "unsupported"} \cap cpioTest # {}

\* After restore every entry of the stock archive is there and no other entry
\* is, with its data, unless the iterator was left dangling.  (A mode that
\* was changed alone is not restored: backup compares the data.  What looks
\* like a part of an old Magisk may go, also if it is stock.)
RestoresStock ==
    cpioStep = "restored" /\ ~dangling =>
        LET stock == {p \in DOMAIN orig : ~Under(Backup, p)}
        IN  /\ {p \in stock : ~KnownStuff(p)} \subseteq DOMAIN cpio /\ DOMAIN cpio \subseteq stock
            /\ \A p \in DOMAIN cpio : cpio[p].data = orig[p].data

\* A ramdisk survives being flashed and comes back when Magisk is removed.
RamdiskKept == ImageReadBack /\ PatchRecognised /\ RestoresStock
=============================================================================
