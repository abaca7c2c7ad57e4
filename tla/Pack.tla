-------------------------------- MODULE Pack --------------------------------
(***************************************************************************)
(* agspack and agstract over Clib32.c: the files an index names are put    *)
(* into one pack, behind a copy of the executable if that is asked for;    *)
(* the pack is taken apart again, with an index of what was in it, and     *)
(* packed once more from there.  The files may be edited while the first   *)
(* pack is made.                                                           *)
(*                                                                         *)
(* A file is a sequence of bytes.  The bytes of numbers are numbers; those *)
(* of signatures and contents are model values; a name is the name, filled *)
(* up to its length, and a 0.  Names in packs of version 20 are encrypted: *)
(* that changes neither their lengths nor their order and is left out.     *)
(***************************************************************************)
EXTENDS StrStore, SequencesExt

CONSTANTS
  CLIB, Sig, Missing,  \* the two signatures; a file that is not there
  DataFileName,        \* length of the data file's name, the terminating 0 included
  NameLimit,           \* what a name of a version 20 pack may take: 100 in the code
  MaxFiles,            \* MAX_FILES: how many files such a pack may hold
  Contents, Stubs,     \* what the files and the executable hold
  Infos,               \* the indexes: sequences of lines
  MaxChanges           \* bound: edits while packing

ASSUME FilesAssumption ==
  /\ DataFileName \in Nat \ {0}
  /\ \A c \in Contents \cup Stubs : c \in Seq(Range(c))

\* The files an index names have names the store takes.
ASSUME InfosAssumption ==
  \A f \in Infos : \A k \in 1..Len(f) : f[k][1] = "file" => f[k][2] \in Names

VARIABLES
  dir,      \* the files: name -> bytes
  stub,     \* agspack.exestub
  exe_opt,  \* whether agspack was given -e
  info,     \* the lines of agspack.info
  line,     \* the line agspack reads next
  ags,      \* [libversion, alloc, length, offset, header_offset]
  i,        \* the file being copied or extracted
  ssoff,    \* the offset of its name
  pack,     \* the pack
  fd,       \* where it is written
  pc, pass,
  out,      \* what agstract writes: [dir, stub, info]
  copied,   \* the bytes agspack copied from each file
  first,    \* the pack of the first pass
  changes

vars == <<ss, dir, stub, exe_opt, info, line, ags, i, ssoff, pack, fd, pc, pass, out, copied,
          first, changes>>

filecount == ss.lcount

-----------------------------------------------------------------------------
(* Bytes                                                                   *)

Bytes(v, n) == [k \in 1..n |-> IF k = 1 THEN v % 256 ELSE IF k = 2 THEN v \div 256 ELSE 0]
write_int(v) == Bytes(v, 4)
write_ull(v) == Bytes(v, 8)
FillTo(n) == [k \in 1..n |-> Fill]

\* A number of n bytes at an offset; content read as a number is some number.
read_at(f, at, n) ==
  LET b == [k \in 1..n |-> IF f[at + k] \in 0..255 THEN f[at + k] ELSE 255]
  IN IF \E k \in 3..n : b[k] # 0 THEN 65536 ELSE b[1] + 256 * b[2]

\* The offset of the next name; without counting the 0.
next_name_short(o) == o + length_at(ss, o)

next_name(o) == o + length_at(ss, o) + 1

Written(f, at, bytes) ==
  SubSeq(f, 1, at) \o bytes \o SubSeq(f, at + Len(bytes) + 1, Len(f))

-----------------------------------------------------------------------------
(* agspack: the index                                                      *)

NewAgs == [libversion |-> 0, alloc |-> 0, length |-> <<>>, offset |-> <<>>, header_offset |-> 0]
NewOut == [dir |-> [n \in Names |-> Missing], stub |-> Missing, info |-> <<>>]

Init ==
  /\ dir \in [Names -> Contents \cup {Missing}] /\ stub \in Stubs
  /\ exe_opt \in BOOLEAN /\ info \in Infos
  /\ StoreInit
  /\ line = 1 /\ ags = NewAgs /\ i = 1 /\ ssoff = 0 /\ pack = <<>> /\ fd = 0
  /\ pc = "info" /\ pass = 1 /\ out = NewOut
  /\ copied = <<>> /\ first = <<>> /\ changes = 0

\* Someone saves or removes a file.
Change(n) ==
  /\ pass = 1 /\ changes < MaxChanges /\ pc \in {"info", "header", "files"}
  /\ \E c \in Contents \cup {Missing} : c # dir[n] /\ dir' = [dir EXCEPT ![n] = c]
  /\ changes' = changes + 1
  /\ UNCHANGED <<ss, stub, exe_opt, info, line, ags, i, ssoff, pack, fd, pc, pass, out,
                 copied, first>>

ReadLine(kind) ==
  /\ pc = "info" /\ line <= Len(info) /\ info[line][1] = kind
  /\ line' = line + 1
  /\ UNCHANGED <<dir, stub, exe_opt, info, i, ssoff, pack, fd, pass, out, copied, first, changes>>

SetVersion ==
  /\ ReadLine("mflversion")
  /\ ags' = [ags EXCEPT !.libversion = info[line][2]]
  /\ UNCHANGED <<ss, pc>>

\* AgsFile_setNumFiles: the arrays get the size the index tells.
SetNumFiles ==
  /\ ReadLine("filecount")
  /\ Preallocate(info[line][2], 16)
  /\ ags' = [ags EXCEPT !.alloc = info[line][2]]
  /\ UNCHANGED pc

\* getfilesize says 0 of a file it cannot open.
getfilesize(c) == IF c = Missing THEN 0 ELSE Len(c)

\* A line more than the index told is written behind the arrays: the model stops.
AppendFile ==
  /\ ReadLine("file")
  /\ IF ags.alloc <= filecount
       THEN /\ pc' = (IF ags.alloc = 0 THEN "failed" ELSE "overrun")
            /\ UNCHANGED <<ss, ags>>
       ELSE /\ AppendString(info[line][2])
            /\ ags' = [ags EXCEPT !.length = Append(@, getfilesize(dir[info[line][2]])),
                                  !.offset = Append(@, 0)]
            /\ UNCHANGED pc

\* Comments and what agspack does not look at; a line without '=' stops it.
OtherLine == ReadLine("other") /\ UNCHANGED <<ss, ags, pc>>
BadLine == ReadLine("bad") /\ pc' = "failed" /\ UNCHANGED <<ss, ags>>

-----------------------------------------------------------------------------
(* agspack: AgsFile_write                                                  *)

myversion == IF ags.libversion >= 30 THEN 30 ELSE 20

\* The names in the order of the running offset.
name_offset[n \in 1..filecount] == IF n = 1 THEN 0 ELSE next_name(name_offset[n - 1])
names == [n \in 1..filecount |-> string_at(ss, name_offset[n])]

Magic(v) == <<CLIB, CLIB, CLIB, CLIB, CLIB, v, 0>>
DataFiles == write_int(1) \o FillTo(DataFileName - 1) \o <<0>>

Entry30(n) == Stored(names[n]) \o <<0>> \o write_ull(ags.offset[n]) \o write_ull(ags.length[n])
Name20(n) == <<5 * (strlen[names[n]] + 1), 0>> \o Stored(names[n])

header30 ==
  Magic(30) \o write_int(0) \o DataFiles \o write_int(filecount)
    \o FlattenSeq([n \in 1..filecount |-> Entry30(n)])
header20 ==
  Magic(20) \o DataFiles \o write_int(filecount)
    \o FlattenSeq([n \in 1..filecount |-> Name20(n)])
    \o FlattenSeq([n \in 1..filecount |-> write_int(ags.offset[n])])
    \o FlattenSeq([n \in 1..filecount |-> write_int(ags.length[n])])
    \o [n \in 1..filecount |-> 0]
header == IF myversion = 30 THEN header30 ELSE header20

Total(f) ==
  LET sum[n \in 0..Len(f)] == IF n = 0 THEN 0 ELSE sum[n - 1] + f[n]
  IN sum[Len(f)]

\* What write_header counts of what it writes.
count_of(libuid) ==
  7 + 4 + DataFileName + 4
    + Total([n \in 1..filecount |-> length_at(ss, name_offset[n]) + 1])
    + IF myversion = 30 THEN 4 + (libuid + 16) * filecount ELSE (2 + 4 + 4 + 1) * filecount
count_without_libuid == count_of(0)
written == count_of(1)

too_long == myversion = 20 /\ \E n \in 1..filecount : strlen[names[n]] + 1 > NameLimit

WriteStep == UNCHANGED <<ss, dir, stub, exe_opt, info, line, pass, out, first, changes>>
\* agspack gives up; what it leaves of the pack is of no use and not read.
Fail == pc' = "failed" /\ UNCHANGED <<ags, i, ssoff, pack, fd, copied>>

\* The pack is truncated, the header written once to learn its length, and the
\* offsets of the files set from it.
WriteHeader ==
  /\ pc = "info" /\ line > Len(info) /\ WriteStep
  /\ IF too_long THEN Fail
     ELSE /\ pack' = header
          /\ ags' = [ags EXCEPT !.offset =
                       [n \in 1..filecount |-> written + Total(SubSeq(ags.length, 1, n - 1))]]
          /\ fd' = 0
          /\ pc' = IF exe_opt THEN "stub" ELSE "header"
          /\ UNCHANGED <<i, ssoff, copied>>

\* From the beginning of the file again: the executable, if asked for ...
CopyStub ==
  /\ pc = "stub" /\ WriteStep
  /\ pack' = Written(pack, fd, stub)
  /\ fd' = fd + Len(stub)
  /\ ags' = [ags EXCEPT !.header_offset = Len(stub)]
  /\ pc' = "header"
  /\ UNCHANGED <<i, ssoff, copied>>

\* The number of files is looked at when the header is written.
too_many == ags.libversion < 30 /\ filecount > MaxFiles

\* ... and the header with the offsets in it.
WriteHeaderAgain ==
  /\ pc = "header" /\ WriteStep
  /\ pack' = Written(pack, fd, header)
  /\ fd' = fd + Len(header)
  /\ pc' = IF too_many THEN "failed" ELSE "files"
  /\ i' = 1 /\ ssoff' = 0
  /\ UNCHANGED <<ags, copied>>

\* copy_into_file takes as many bytes as the file had when it was put on the
\* list, and fails when it is gone or has become shorter.
readable_in_part(n, c) == c # Missing  \* taking what there is

copy_into_file(n, c) == c # Missing /\ Len(c) >= ags.length[n]

CopyFile ==
  /\ pc = "files" /\ i <= filecount /\ WriteStep
  /\ LET c == dir[string_at(ss, ssoff)]
         bytes == SubSeq(c, 1, IF Len(c) < ags.length[i] THEN Len(c) ELSE ags.length[i])
     IN IF copy_into_file(i, c)
          THEN /\ pack' = Written(pack, fd, bytes)
               /\ fd' = fd + Len(bytes)
               /\ copied' = Append(copied, bytes)
               /\ i' = i + 1 /\ ssoff' = next_name(ssoff)
               /\ UNCHANGED <<ags, pc>>
          ELSE Fail

WriteFooter ==
  /\ pc = "files" /\ i > filecount /\ WriteStep
  /\ pack' = Written(pack, fd,
               (IF myversion = 30 THEN write_ull(ags.header_offset)
                                  ELSE write_int(ags.header_offset))
                 \o [k \in 1..12 |-> Sig])
  /\ pc' = "packed"
  /\ UNCHANGED <<ags, i, ssoff, fd, copied>>

-----------------------------------------------------------------------------
(* agstract: AgsFile_open                                                  *)

\* Where the pack begins: the file itself, or what its last bytes say, as a
\* number of 8 bytes if the signature is found there, as one of 4 if not.
lib_start ==
  LET len == Len(pack)
      off64 == read_at(pack, len - 20, 8)
  IN IF pack[1] = CLIB THEN 0
     ELSE IF off64 < len /\ pack[off64 + 1] = CLIB THEN off64
     ELSE read_at(pack, len - 16, 4)

absoffs == lib_start

\* The next 0 at or behind an offset.
end_of(at) ==
  LET zeros == {k \in at..Len(pack) - 1 : pack[k + 1] = 0}
  IN CHOOSE k \in zeros : \A z \in zeros : k <= z

libversion == pack[absoffs + 6]
data_files == absoffs + 7 + IF libversion >= 30 THEN 4 ELSE 0
num_files_at == end_of(data_files + 4) + 1
num_files == read_at(pack, num_files_at, 4)

\* Entry n of version 30: name, number of the data file, offset, length.
entry30[n \in Nat] ==
  IF n = 1 THEN num_files_at + 4 ELSE end_of(entry30[n - 1]) + 1 + 1 + 8 + 8
\* Name n of version 20, behind its length times 5.
entry20[n \in Nat] ==
  IF n = 1 THEN num_files_at + 4
  ELSE entry20[n - 1] + 2 + read_at(pack, entry20[n - 1], 2) \div 5

read_v30_clib ==
  [n \in 1..num_files |->
     LET numbers == end_of(entry30[n]) + 2
     IN [name |-> pack[entry30[n] + 1],
         offset |-> read_at(pack, numbers, 8), length |-> read_at(pack, numbers + 8, 8)]]
read_new_new_format_clib ==
  LET ints == entry20[num_files + 1]
  IN [n \in 1..num_files |->
        [name |-> pack[entry20[n] + 3],
         offset |-> read_at(pack, ints + 4 * (n - 1), 4),
         length |-> read_at(pack, ints + 4 * num_files + 4 * (n - 1), 4)]]
entries == IF libversion >= 30 THEN read_v30_clib ELSE read_new_new_format_clib

\* The offsets in a pack count from its header; taken as they are.
uncorrected(offset) == offset

from_start(offset) == offset + absoffs

\* What agstract tells in the index it writes: the number of files and the
\* version, or the older one for every pack.
told_count == num_files
old_version == 20
told_version == libversion

\* AgsFile_open, and dump_exe.
Open ==
  /\ pc = "packed" /\ pass = 1
  /\ ss' = FoldLeft(LAMBDA st, e : strstore_append(st, e.name),
                    strstore_prealloc(NewStore, num_files, 16), entries)
  /\ ags' = [ags EXCEPT !.libversion = libversion, !.alloc = num_files,
                        !.offset = [n \in 1..num_files |-> from_start(entries[n].offset)],
                        !.length = [n \in 1..num_files |-> entries[n].length]]
  /\ out' = [NewOut EXCEPT !.stub = IF absoffs = 0 THEN Missing ELSE SubSeq(pack, 1, absoffs),
                           !.info = <<<<"mflversion", told_version>>, <<"filecount", told_count>>,
                                      <<"other">>>>]
  /\ pc' = "extract" /\ i' = 1 /\ ssoff' = 0
  /\ UNCHANGED <<dir, stub, exe_opt, info, line, pack, fd, pass, copied, first, changes>>

\* AgsFile_dump writes the file over one of the same name.
ExtractFile ==
  /\ pc = "extract" /\ i <= filecount
  /\ LET n == string_at(ss, ssoff)
     IN /\ out' = [out EXCEPT
                     !.dir[n] = SubSeq(pack, ags.offset[i] + 1, ags.offset[i] + ags.length[i]),
                     !.info = Append(@, <<"file", n>>)]
        /\ ssoff' = next_name(ssoff)
  /\ i' = i + 1
  /\ UNCHANGED <<ss, dir, stub, exe_opt, info, line, ags, pack, fd, pc, pass, copied, first,
                 changes>>

\* agspack again, on what agstract wrote.
Repack ==
  /\ pc = "extract" /\ i > filecount
  /\ pass' = 2 /\ pc' = "info" /\ first' = pack
  /\ dir' = out.dir /\ stub' = out.stub /\ info' = out.info
  /\ ss' = NewStore /\ ags' = NewAgs /\ copied' = <<>> /\ pack' = <<>>
  /\ line' = 1 /\ i' = 1 /\ ssoff' = 0 /\ fd' = 0
  /\ UNCHANGED <<exe_opt, out, changes>>

Next ==
  \/ \E n \in Names : Change(n)
  \/ SetVersion \/ SetNumFiles \/ AppendFile \/ OtherLine \/ BadLine
  \/ WriteHeader \/ CopyStub \/ WriteHeaderAgain \/ CopyFile \/ WriteFooter
  \/ Open \/ ExtractFile \/ Repack

Spec == Init /\ [][Next]_vars

-----------------------------------------------------------------------------
(* Properties                                                              *)

\* The state holds values of its kind, and the running offset of the names ends
\* where the names end.
TypeOK ==
  /\ pc \in {"info", "stub", "header", "files", "packed", "extract", "failed", "overrun"}
  /\ i \in 1..filecount + 1 /\ ssoff \in 0..ss.ssize
  /\ Len(ags.length) = filecount /\ Len(ags.offset) = filecount
  /\ pc \in {"files", "extract"} /\ i > filecount => ssoff = ss.ssize
  /\ fd \in 0..Len(pack)

\* What the header says is where it is: the files follow the header one by one,
\* and the footer follows the files, whatever was edited on the way.
OffsetsTile ==
  pc = "packed" =>
    /\ \A n \in 1..filecount :
         LET at == ags.header_offset + ags.offset[n]
         IN SubSeq(pack, at + 1, at + ags.length[n]) = copied[n]
    /\ Len(pack) = ags.header_offset + Len(header) + Total(ags.length)
                     + 12 + (IF myversion = 30 THEN 8 ELSE 4)

\* A pack that is made has each file as it was at one moment, up to the length it
\* had when it was put on the list: a file that got lost or shorter fails it.
PackWhole ==
  pc = "packed" => \A n \in 1..filecount : Len(copied[n]) = ags.length[n]

\* agstract gives back the files agspack copied, the last of those with the same
\* name, and the executable.
ExtractedIsCopied ==
  (pass = 1 /\ pc = "extract" /\ i > filecount) =>
    /\ \A n \in 1..filecount :
         (\A m \in n + 1..filecount : names[m] # names[n]) => out.dir[names[n]] = copied[n]
    /\ out.stub = IF exe_opt THEN stub ELSE Missing
    /\ names = [k \in 1..Len(copied) |-> SelectSeq(info, LAMBDA l : l[1] = "file")[k][2]]

\* Packing what was extracted gives the same pack.
RepackSame ==
  (pass = 2 /\ pc = "packed" /\ IsInjective(names)) => pack = first
=============================================================================
