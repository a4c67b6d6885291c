------------------------------ MODULE FthStdio ------------------------------
(***************************************************************************)
(* What src/io.c and src/file.c use of the C library and the kernel:       *)
(* streams (FILE) with their buffers, descriptors with their offsets,      *)
(* files with the names they have.                                         *)
(*                                                                         *)
(* A world w has w.disk, the inode of every name (0 when there is none),   *)
(* w.inode, text and kind of every inode, and w.file, the stream of every  *)
(* pointer.  Every call is an operator that gives the world after it, with *)
(* its value where it has one.  Texts are far shorter than BUFSIZ: no      *)
(* stream is flushed because its buffer is full, and one read gets all     *)
(* that is left.                                                           *)
(***************************************************************************)
EXTENDS Integers, Sequences, FiniteSetsExt

NUL == "nul"
NL == "nl"
EOF == "eof"

\* Streams: the inode, the offset of the descriptor, `ahead' what was read and not yet given
\* out, `out' what was written and not yet in the file, and the flag of feof.
STREAM(ino, mode, off) ==
    [ino |-> ino, mode |-> mode, off |-> off, ahead |-> <<>>, out |-> <<>>, eof |-> FALSE, open |-> TRUE]
NoStream == [STREAM(0, "r", 0) EXCEPT !.open = FALSE]

CanRead(mode) == mode \in {"r", "w+", "a+"}
CanWrite(mode) == mode \in {"w", "w+", "a", "a+"}
Appends(mode) == mode \in {"a", "a+"}

Text(w, fp) == w.inode[w.file[fp].ino].text
Seekable(w, fp) == w.inode[w.file[fp].ino].kind = "file"
Got(w, v) == [w |-> w, v |-> v]

\* The text with s in it from offset `at' on; a gap is filled with NULs.
Overwrite(text, at, s) ==
    [k \in 1..Max({Len(text), at + Len(s)}) |->
        IF k \in (at + 1)..(at + Len(s)) THEN s[k - at] ELSE IF k <= Len(text) THEN text[k] ELSE NUL]

\* Where the bytes not yet written go.
WriteAt(w, fp) == IF Appends(w.file[fp].mode) \/ ~Seekable(w, fp) THEN Len(Text(w, fp)) ELSE w.file[fp].off
\* The text as this stream has it, what is still in its buffer included.
TextSeen(w, fp) ==
    IF w.file[fp].out = <<>> THEN Text(w, fp) ELSE Overwrite(Text(w, fp), WriteAt(w, fp), w.file[fp].out)

\* Where the next byte is read or written, the buffers taken into account.
Offset(w, fp) ==
    IF w.file[fp].out = <<>> THEN w.file[fp].off - Len(w.file[fp].ahead)
    ELSE WriteAt(w, fp) + Len(w.file[fp].out)

\* fflush writes what is written, and gives back to the descriptor what was read too far.
fflush(w, fp) ==
    LET f == w.file[fp]
    IN  IF f.out # <<>>
        THEN [w EXCEPT !.inode[f.ino].text = TextSeen(w, fp),
                       !.file[fp].off = WriteAt(w, fp) + Len(f.out), !.file[fp].out = <<>>]
        ELSE IF Seekable(w, fp)
        THEN [w EXCEPT !.file[fp].off = @ - Len(f.ahead), !.file[fp].ahead = <<>>]
        ELSE w

\* Reads fill an empty buffer; the flag of the end stays until clearerr or rewind.
Fill(w, fp) ==
    IF w.file[fp].ahead # <<>> \/ w.file[fp].eof THEN w
    ELSE LET x == fflush(w, fp)
             text == Text(x, fp)
             rest == SubSeq(text, x.file[fp].off + 1, Len(text))
         IN  [x EXCEPT !.file[fp].ahead = rest, !.file[fp].off = @ + Len(rest), !.file[fp].eof = rest = <<>>]
Take(w, fp, n) ==
    Got([w EXCEPT !.file[fp].ahead = SubSeq(@, n + 1, Len(@))], SubSeq(w.file[fp].ahead, 1, n))
\* The characters up to and with the first newline, all of them if there is none.
LineLength(s) ==
    LET ends == {k \in 1..Len(s) : s[k] = NL} IN IF ends = {} THEN Len(s) ELSE Min(ends)
fgetc(w, fp) == LET x == Fill(w, fp) IN Take(x, fp, Min({1, Len(x.file[fp].ahead)}))
\* A last line without newline is known to be the last: the read met the end.
fgets(w, fp) ==
    LET x == Fill(w, fp)
        ahead == x.file[fp].ahead
        got == Take(x, fp, LineLength(ahead))
    IN  IF ahead # <<>> /\ ahead[LineLength(ahead)] # NL
        THEN Got([got.w EXCEPT !.file[fp].eof = TRUE], got.v) ELSE got

\* fputc and fputs.
fputs(w, fp, s) ==
    [w EXCEPT !.file[fp].off = @ - Len(w.file[fp].ahead), !.file[fp].ahead = <<>>, !.file[fp].out = @ \o s]

\* lseek knows nothing of the stream's buffers nor of its flags.
lseek(w, fp, pos, whence) ==
    LET base == CASE whence = "SEEK_SET" -> 0 [] whence = "SEEK_CUR" -> w.file[fp].off
                  [] OTHER -> Len(Text(w, fp))
    IN  IF ~Seekable(w, fp) \/ base + pos < 0 THEN Got(w, -1)
        ELSE Got([w EXCEPT !.file[fp].off = base + pos], base + pos)

clearerr(w, fp) == [w EXCEPT !.file[fp].eof = FALSE]
rewind(w, fp) ==
    LET x == fflush(w, fp)
    IN  clearerr(IF Seekable(w, fp) THEN [x EXCEPT !.file[fp].off = 0] ELSE x, fp)
\* The descriptor is gone, and so is an inode without a name.
fclose(w, fp) == [fflush(w, fp) EXCEPT !.file[fp].open = FALSE]

\* open(2): the smallest inode nobody has is a new file's.
InUse(w) == {w.disk[n] : n \in DOMAIN w.disk} \cup {w.file[fp].ino : fp \in {p \in DOMAIN w.file : w.file[p].open}}
NewInode(w) == Min({k \in DOMAIN w.inode : w.inode[k].kind = "file"} \ InUse(w))
Exists(w, name) == w.disk[name] # 0
CanOpen(w, name, mode) == mode = "r" => Exists(w, name)
Created(w, name) ==
    LET ino == NewInode(w) IN [w EXCEPT !.disk[name] = ino, !.inode[ino].text = <<>>]
\* "w" cuts the file, "a" starts at its end, "a+" reads from the start.
fopen(w, fp, name, mode) ==
    LET x == IF Exists(w, name) THEN w ELSE Created(w, name)
        ino == x.disk[name]
        y == IF mode \in {"w", "w+"} THEN [x EXCEPT !.inode[ino].text = <<>>] ELSE x
    IN  [y EXCEPT !.file[fp] = STREAM(ino, mode, IF mode = "a" THEN Len(y.inode[ino].text) ELSE 0)]
\* fopen of a command: what it writes, or what it is given, is a text nobody can seek in.
popen(w, fp, ino, mode) == [w EXCEPT !.file[fp] = STREAM(ino, mode, 0), !.inode[ino].text = IF mode = "r" THEN @ ELSE <<>>]

rename(w, src, dst) == IF src = dst THEN w ELSE [w EXCEPT !.disk[dst] = w.disk[src], !.disk[src] = 0]
unlink(w, name) == [w EXCEPT !.disk[name] = 0]
truncate(w, name, n) ==
    LET text == w.inode[w.disk[name]].text
    IN  [w EXCEPT !.inode[w.disk[name]].text =
            IF n <= Len(text) THEN SubSeq(text, 1, n) ELSE Overwrite(text, n, <<>>)]
=============================================================================
