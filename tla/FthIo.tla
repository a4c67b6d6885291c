------------------------------- MODULE FthIo -------------------------------
(***************************************************************************)
(* The IO objects of src/io.c and what their words do to files, pipes and  *)
(* strings.                                                                *)
(*                                                                         *)
(* An IO object has a type and, for the type, functions that read, write,  *)
(* seek and close (FIO of src/utils.h).  Here they are operators on the    *)
(* world, which gives the world after the call and a value: a tuple that   *)
(* begins with its kind.  <<"raise">> is an exception, <<"wild">> a use of *)
(* a stream or string that is gone, or of bytes outside of a string; what  *)
(* comes of it is not modelled and the program stops there.                *)
(*                                                                         *)
(* w.str has the strings: text, the position (`cycle' of the instance,     *)
(* which every IO on the string shares) and whether the collector has      *)
(* freed it.  w.sock has the descriptors of sockets.                       *)
(***************************************************************************)
EXTENDS FthStdio, SequencesExt

Raised(w) == Got(w, <<"raise">>)
Wild(w) == Got(w, <<"wild">>)
Done(w) == Got(w, <<"done">>)
Failed(v) == v \in {<<"raise">>, <<"wild">>}

-----------------------------------------------------------------------------
(* IO objects. *)

Fams == {{"r"}, {"w"}, {"r", "w"}, {"a"}, {"r", "a"}, {"w", "a"}}
\* FTH_IO_BUFFER is a sequence of at most one array; `data' is the pointer of the stream,
\* the string, the descriptor or nothing.
make_io_base(type, fam, name, data) ==
    [type |-> type, fam |-> fam, name |-> name, data |-> data, length |-> 0, changed |-> TRUE,
     buffer |-> <<>>, values |-> <<>>, closed |-> FALSE]
NoName == [base |-> "", ver |-> 0]
NoIo == make_io_base("none", {}, NoName, 0)

FTH_IO_P(o) == o.type # "none"
IO_NOT_CLOSED_P(o) == FTH_IO_P(o) /\ ~o.closed
IO_INPUT_P(o) == IO_NOT_CLOSED_P(o) /\ "r" \in o.fam
IO_OUTPUT_P(o) == IO_NOT_CLOSED_P(o) /\ o.fam \cap {"w", "a"} # {}

\* Anything else is opened for reading, with a warning.
fam_to_mode(fam) ==
    CASE fam = {"w"} -> "w" [] fam = {"r", "w"} -> "w+" [] fam = {"a"} -> "a" [] fam = {"r", "a"} -> "a+"
      [] OTHER -> "r"

\* The lines of a text, each with its newline.
Lines(text) ==
    LET ends == SetToSortSeq({k \in 1..Len(text) : text[k] = NL \/ k = Len(text)}, <)
    IN  [k \in 1..Len(ends) |-> SubSeq(text, IF k = 1 THEN 1 ELSE ends[k - 1] + 1, ends[k])]

-----------------------------------------------------------------------------
(* Files and pipes. *)

Stream(w, fp, r) == IF w.file[fp].open THEN r ELSE Wild(w)
Char(r) == Got(r.w, IF r.v = <<>> THEN <<"eof">> ELSE <<"char", r.v[1]>>)
Line(r) == Got(r.w, IF r.v = <<>> THEN <<"eof">> ELSE <<"line", r.v>>)
file_read_char(w, fp) ==
    Stream(w, fp, IF CanRead(w.file[fp].mode) THEN Char(fgetc(w, fp)) ELSE Raised(clearerr(w, fp)))
file_read_line(w, fp) ==
    Stream(w, fp, IF CanRead(w.file[fp].mode) THEN Line(fgets(w, fp)) ELSE Raised(clearerr(w, fp)))
\* file_write_char and file_write_line.
file_write(w, fp, s) ==
    Stream(w, fp, IF CanWrite(w.file[fp].mode) THEN Done(fputs(w, fp, s)) ELSE Raised(clearerr(w, fp)))
file_eof_p(w, fp) == Stream(w, fp, Got(w, <<"flag", w.file[fp].eof>>))
Pos(r) == Got(r.w, <<"pos", r.v>>)
file_tell(w, fp) == Stream(w, fp, Pos(lseek(fflush(w, fp), fp, 0, "SEEK_CUR")))
file_seekUnflushed(w, fp, pos, whence) == Stream(w, fp, Pos(lseek(w, fp, pos, whence)))
file_seek(w, fp, pos, whence) == Stream(w, fp, Pos(lseek(fflush(w, fp), fp, pos, whence)))
file_flush(w, fp) == Stream(w, fp, Done(fflush(w, fp)))
file_rewind(w, fp) == Stream(w, fp, Done(rewind(fflush(w, fp), fp)))
file_close(w, fp) == Stream(w, fp, Done(fclose(w, fp)))

-----------------------------------------------------------------------------
(* Strings. *)

Index(w, s) == w.str[s].cycle
Length(w, s) == Len(w.str[s].text)
At(w, s, idx) == [w EXCEPT !.str[s].cycle = idx]
\* Index 0 is the first character.
InString(w, s, idx) == idx \in 0..(Length(w, s) - 1)
Alive(w, s, r) == IF w.str[s].alive THEN r ELSE Wild(w)

string_read_char(w, s) ==
    LET idx == Index(w, s)
    IN  Alive(w, s, IF idx >= Length(w, s) THEN Got(w, <<"eof">>)
                    ELSE IF idx < 0 THEN Wild(w)
                    ELSE Got(At(w, s, idx + 1), <<"char", w.str[s].text[idx + 1]>>))
string_read_line(w, s) ==
    LET idx == Index(w, s)
        rest == SubSeq(w.str[s].text, idx + 1, Length(w, s))
        n == LineLength(rest)
    IN  Alive(w, s, IF idx >= Length(w, s) THEN Got(w, <<"eof">>)
                    ELSE IF idx < 0 THEN Wild(w)
                    ELSE Got(At(w, s, idx + n), <<"line", SubSeq(rest, 1, n)>>))

string_writeOverLast(w, s, t) ==
    LET idx == Index(w, s)
        text == w.str[s].text
    IN  Alive(w, s, Done([At(w, s, idx + Len(t)) EXCEPT !.str[s].text =
                IF idx >= Len(text) \/ idx < 0 THEN text \o t ELSE Overwrite(text, idx, t)]))
\* string_write_char and string_write_line.  Writing at the last character, where SEEK_END
\* is, appends; anywhere before it, it overwrites and appends what goes beyond the end.
string_write(w, s, t) ==
    LET idx == Index(w, s)
        text == w.str[s].text
    IN  Alive(w, s, IF idx >= Len(text) - 1
                    THEN Done([At(w, s, idx + Len(t)) EXCEPT !.str[s].text = text \o t])
                    ELSE IF idx < 0 THEN Wild(w)
                    ELSE Done([At(w, s, idx + Len(t)) EXCEPT !.str[s].text = Overwrite(text, idx, t)]))
string_eof_p(w, s) == Alive(w, s, Got(w, <<"flag", Index(w, s) >= Length(w, s)>>))
string_tell(w, s) == Alive(w, s, Got(w, <<"pos", Index(w, s)>>))
\* From the end one counts backwards, whatever the sign.
string_seek(w, s, pos, whence) ==
    LET idx == CASE whence = "SEEK_SET" -> pos
                 [] whence = "SEEK_CUR" -> Index(w, s) + pos
                 [] OTHER -> Length(w, s) - 1 - (IF pos > 0 THEN pos ELSE -pos)
    IN  Alive(w, s, Got(At(w, s, idx), <<"pos", idx>>))
string_rewind_and_close(w, s) == Alive(w, s, Done(At(w, s, 0)))

-----------------------------------------------------------------------------
(* Sockets. *)

\* Descriptors: st is "free", "open", "bound", "listening" or "connected"; `in' are the bytes
\* that have arrived, `peer' is whether the other side is there.
Socket(st) == [st |-> st, in |-> <<>>, peer |-> st = "connected"]
Connected(w, fd) == w.sock[fd].st = "connected"
\* A receive waits for bytes, for the end or for an error.
Receives(w, fd) == Connected(w, fd) /\ w.sock[fd].peer => w.sock[fd].in # <<>>
Receive(w, fd, n) ==
    Got([w EXCEPT !.sock[fd].in = SubSeq(@, n + 1, Len(@))], SubSeq(w.sock[fd].in, 1, n))
socket_read_char(w, fd) ==
    IF Connected(w, fd) THEN Char(Receive(w, fd, Min({1, Len(w.sock[fd].in)}))) ELSE Raised(w)
\* All that has arrived, not a line.
socket_read_line(w, fd) ==
    IF Connected(w, fd) THEN Line(Receive(w, fd, Len(w.sock[fd].in))) ELSE Raised(w)
socket_write(w, fd) == IF Connected(w, fd) /\ w.sock[fd].peer THEN Done(w) ELSE Raised(w)
\* No socket can lseek.
socket_eof_p(w, fd) == Raised(w)
socket_tell(w, fd) == Got(w, <<"pos", -1>>)
socket_seek(w, fd) == Got(w, <<"pos", -1>>)
Freed(w, fd) == [w EXCEPT !.sock[fd] = Socket("free")]
socket_close(w, fd) == IF w.sock[fd].st = "free" THEN Raised(w) ELSE Done(Freed(w, fd))

-----------------------------------------------------------------------------
(* The functions of an IO object, by its type.  A soft port's are procs: what they give is    *)
(* an input of the model; the ones that are not given do nothing and read #f.                 *)

ReadChar(w, o) ==
    CASE o.type \in {"file", "pipe"} -> file_read_char(w, o.data)
      [] o.type = "string" -> string_read_char(w, o.data)
      [] o.type = "socket" -> socket_read_char(w, o.data)
      [] OTHER -> Got(w, <<"eof">>)
ReadLine(w, o) ==
    CASE o.type \in {"file", "pipe"} -> file_read_line(w, o.data)
      [] o.type = "string" -> string_read_line(w, o.data)
      [] o.type = "socket" -> socket_read_line(w, o.data)
      [] OTHER -> Got(w, <<"eof">>)
WriteText(w, o, s) ==
    CASE o.type \in {"file", "pipe"} -> file_write(w, o.data, s)
      [] o.type = "string" -> string_write(w, o.data, s)
      [] o.type = "socket" -> socket_write(w, o.data)
      [] OTHER -> Done(w)
AtEnd(w, o) ==
    CASE o.type \in {"file", "pipe"} -> file_eof_p(w, o.data)
      [] o.type = "string" -> string_eof_p(w, o.data)
      [] o.type = "socket" -> socket_eof_p(w, o.data)
      [] OTHER -> Got(w, <<"flag", FALSE>>)
\* Pipes and ports have the generic functions: nothing happens and the position is 0.
Tell(w, o) ==
    CASE o.type = "file" -> file_tell(w, o.data)
      [] o.type = "string" -> string_tell(w, o.data)
      [] o.type = "socket" -> socket_tell(w, o.data)
      [] OTHER -> Got(w, <<"pos", 0>>)
Seek(w, o, pos, whence) ==
    CASE o.type = "file" -> file_seek(w, o.data, pos, whence)
      [] o.type = "string" -> string_seek(w, o.data, pos, whence)
      [] o.type = "socket" -> socket_seek(w, o.data)
      [] OTHER -> Got(w, <<"pos", 0>>)
Flush(w, o) == IF o.type \in {"file", "pipe"} THEN file_flush(w, o.data) ELSE Done(w)
Rewind(w, o) ==
    CASE o.type = "file" -> file_rewind(w, o.data)
      [] o.type = "string" -> string_rewind_and_close(w, o.data)
      [] OTHER -> Done(w)
\* pclose waits for the command, which ends with status n.
pipe_close(w, fp, n) == Stream(w, fp, Done([fclose(w, fp) EXCEPT !.status = n]))
Close(w, o, n) ==
    CASE o.type = "file" -> file_close(w, o.data)
      [] o.type = "pipe" -> pipe_close(w, o.data, n)
      [] o.type = "string" -> string_rewind_and_close(w, o.data)
      [] o.type = "socket" -> socket_close(w, o.data)
      [] OTHER -> Done(w)

\* The function f after r, unless r has failed.
Then(r, f(_)) == IF Failed(r.v) THEN r ELSE f(r.w)

\* The lines read one after the other until there are no more.
ReadAll(w, o) ==
    CASE o.type = "string" -> Alive(w, o.data,
            Got(At(w, o.data, Max({Index(w, o.data), Length(w, o.data)})),
                <<"lines", Lines(SubSeq(w.str[o.data].text, Index(w, o.data) + 1, Length(w, o.data)))>>))
      [] o.type \in {"file", "pipe"} /\ CanRead(w.file[o.data].mode) ->
            LET x == Fill(w, o.data)
                all == Take(x, o.data, Len(x.file[o.data].ahead))
            IN  Got([all.w EXCEPT !.file[o.data].eof = TRUE], <<"lines", Lines(all.v)>>)
      [] o.type \in {"file", "pipe"} -> Raised(clearerr(w, o.data))
      [] o.type = "socket" ->
            LET all == Receive(w, o.data, Len(w.sock[o.data].in))
            IN  IF Connected(w, o.data)
                THEN Got(all.w, <<"lines", IF all.v = <<>> THEN <<>> ELSE <<all.v>>>>) ELSE Raised(w)
      [] OTHER -> Got(w, <<"lines", <<>>>>)

\* From the start to the end, and back to where it was.  What raises leaves it where it is.
fth_io_readlines(w, o) ==
    LET at == Tell(w, o)
        got == Then(Then(at, LAMBDA x : Rewind(x, o)), LAMBDA x : ReadAll(x, o))
    IN  Then(got, LAMBDA x : Got(Seek(x, o, at.v[2], "SEEK_SET").w, got.v))
fth_io_writelines(w, o, lines) ==
    LET at == Tell(w, o)
        put == Then(Then(at, LAMBDA x : Rewind(x, o)), LAMBDA x : WriteText(x, o, FlattenSeq(lines)))
    IN  Then(put, LAMBDA x : Done(Seek(x, o, at.v[2], "SEEK_SET").w))

\* fth_io_length, for an object that has changed.  Of the standard streams (descriptors below
\* 3) it is the position.
LengthOf(w, o, i) ==
    CASE o.type = "file" /\ i > 3 ->
            LET at == Tell(w, o)
                end == Then(at, LAMBDA x : Seek(x, o, 0, "SEEK_END"))
            IN  Then(end, LAMBDA x : Got(Seek(x, o, at.v[2], "SEEK_SET").w, end.v))
      [] o.type = "string" -> Alive(w, o.data, Got(w, <<"pos", Length(w, o.data)>>))
      [] o.type = "port" -> Got(w, <<"pos", 0>>)
      [] OTHER -> Tell(w, o)

\* io_to_array keeps the lines in the object and gives them ever after.
io_to_array(w, o) ==
    IF o.buffer # <<>> THEN Got(w, <<"lines", o.buffer[1]>>)
    ELSE IF o.type = "string" THEN Alive(w, o.data, Got(w, <<"lines", IF Length(w, o.data) = 0 THEN <<<<>>>>
                                                                    ELSE Lines(w.str[o.data].text)>>))
    ELSE IF o.closed THEN Raised(w) ELSE fth_io_readlines(w, o)
=============================================================================
