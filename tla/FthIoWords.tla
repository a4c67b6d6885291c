------------------------------- MODULE FthIoWords ----------------------------
(***************************************************************************)
(* The words on IO objects (src/io.c), on ports (src/port.c) and on files  *)
(* (src/file.c), with the current ports *stdin*, *stdout* and *stderr*,    *)
(* backup files, redirections around a proc and sockets.                   *)
(*                                                                         *)
(* IO objects 1, 2 and 3 are those of the terminal.  A redirection is a    *)
(* frame: while its proc runs, any word may run.  Throw leaves the procs   *)
(* of the innermost frames for a fth-catch further out, or the prompt.     *)
(* `did' has the word executed last, its object, what it was given and     *)
(* what came of it.  `log' and `touched' are history: the text an output     *)
(* object should have made of its file or string, and what has touched the *)
(* current ports besides the redirections themselves.                      *)
(***************************************************************************)
EXTENDS FthIo

CONSTANTS
    MaxIo,      \* bound: IO objects, the three of the terminal included
    MaxText,    \* bound: characters of a file or string
    MaxFiles,   \* bound: files, those without a name included
    MaxVersion, \* bound: largest number of a backup
    Bases,      \* base names of files
    Strings,    \* strings that IO objects are opened on
    Fds,        \* descriptors of sockets
    Sessions    \* [words, disk, strs, bound, ...]: what a program uses and how far it goes

VARIABLES w, ios, port, vc, frames, did, log, touched, sess, steps
vars == <<w, ios, port, vc, frames, did, log, touched, sess, steps>>

Ids == 1..MaxIo
Terminal == 1..3
Standard == [in |-> 1, out |-> 2, err |-> 3]
Names == [base : Bases, ver : -1..MaxVersion]
Command == 4

\* A word of the session that begins, and the end of one.
Word(op) == op \in sess.words /\ steps < sess.bound /\ did.v # <<"wild">>
Open(i) == i \in sess.objects /\ FTH_IO_P(ios[i])
FreeIds == {i \in sess.objects \ Terminal : ~FTH_IO_P(ios[i]) /\ ~w.file[i].open}
NewId == Min(FreeIds)

\* What an object reads from or writes to.
Target(x, o) ==
    CASE o.type \in {"file", "pipe"} -> <<o.type, x.file[o.data].ino>>
      [] OTHER -> <<o.type, o.data>>
Content(x, o) ==
    CASE o.type \in {"file", "pipe"} -> TextSeen(x, o.data)
      [] o.type = "string" -> x.str[o.data].text
      [] OTHER -> <<>>
Shared(x, objs, i) ==
    \E j \in Ids \ {i} : IO_NOT_CLOSED_P(objs[j]) /\ Target(x, objs[j]) = Target(x, objs[i])
\* Words that write at the end when nobody has moved the position, and those that move it.
Writing == {"io-putc", "io-write", "port-puts", "print"}
Moving == {"io-seek", "io-pos-set!", "io-rewind", "io-writelines", "file-truncate", "file-copy", "string-cycle",
           "writelines", "with-port"}
LogAfter(op, i, s, r, objs) == [j \in Ids \ Terminal |->
    IF ~IO_OUTPUT_P(objs[j]) \/ objs[j].type \notin {"file", "string"} THEN [ok |-> FALSE, want |-> <<>>]
    ELSE IF ~IO_NOT_CLOSED_P(ios[j]) THEN [ok |-> ~Shared(r.w, objs, j), want |-> Content(r.w, objs[j])]
    ELSE [ok |-> log[j].ok /\ ~Shared(r.w, objs, j) /\ op \notin Moving /\ (i = j => ~Failed(r.v)),
          want |-> IF i = j /\ op \in Writing THEN log[j].want \o s ELSE log[j].want]]

Ends(op, i, s, r, objs) ==
    /\ Word(op) /\ steps' = steps + 1 /\ UNCHANGED sess
    /\ \A k \in DOMAIN r.w.inode : Len(r.w.inode[k].text) <= MaxText
    /\ w' = r.w /\ ios' = objs
    /\ did' = [op |-> op, io |-> i, arg |-> s, v |-> r.v]
    /\ log' = LogAfter(op, i, s, r, objs)
\* A word that leaves ports and frames alone.
Plain(op, i, s, r, objs) == Ends(op, i, s, r, objs) /\ UNCHANGED <<port, vc, frames, touched>>
Only(op, i, s, r) == Plain(op, i, s, r, ios)
Checked(cond, r) == IF cond THEN r ELSE Raised(w)
\* The procs of a soft port may raise.
Soft(o, bad, r) == IF o.type = "port" /\ bad THEN Raised(r.w) ELSE r
Bad(o) == IF FTH_IO_P(o) /\ o.type = "port" THEN BOOLEAN ELSE {FALSE}
Waits(o) == IO_NOT_CLOSED_P(o) /\ o.type = "socket" /\ ~Receives(w, o.data)

-----------------------------------------------------------------------------
(* Reading and writing. *)

Changed(i, r) == IF Failed(r.v) THEN ios ELSE [ios EXCEPT ![i].changed = TRUE]

fth_io_getc(o, bad) == Checked(IO_INPUT_P(o), Soft(o, bad, ReadChar(w, o)))
fth_io_read(o, bad) == Checked(IO_INPUT_P(o), Soft(o, bad, ReadLine(w, o)))
fth_io_write(o, s, bad) == Checked(IO_OUTPUT_P(o), Soft(o, bad, WriteText(w, o, s)))
fth_io_write_and_flush(o, s, bad) == Then(fth_io_write(o, s, bad), LAMBDA x : Flush(x, o))
IoGetc == \E i \in Ids : Open(i) /\ \E bad \in Bad(ios[i]) :
    ~Waits(ios[i]) /\ Only("io-getc", i, <<>>, fth_io_getc(ios[i], bad))
IoRead == \E i \in Ids : Open(i) /\ \E bad \in Bad(ios[i]) :
    ~Waits(ios[i]) /\ Only("io-read", i, <<>>, fth_io_read(ios[i], bad))
Put(op, i, s, r) == Plain(op, i, s, r, Changed(i, r))
IoPutc == \E i \in Ids, s \in sess.chars : Open(i) /\ \E bad \in Bad(ios[i]) :
    Put("io-putc", i, s, fth_io_write(ios[i], s, bad))
\* io-write and io-write-format.
IoWrite == \E i \in Ids, s \in sess.lines : Open(i) /\ \E bad \in Bad(ios[i]) :
    Put("io-write", i, s, fth_io_write(ios[i], s, bad))
IoWritelines == \E i \in Ids, s \in sess.lines : Open(i) /\
    Put("io-writelines", i, s, Checked(IO_OUTPUT_P(ios[i]), fth_io_writelines(w, ios[i], <<s>>)))
IoReadlines == \E i \in Ids : Open(i) /\ ~Waits(ios[i])
    /\ Only("io-readlines", i, <<>>, Checked(IO_NOT_CLOSED_P(ios[i]), fth_io_readlines(w, ios[i])))

IoEof == \E i \in Ids : Open(i) /\ Only("io-eof?", i, <<>>, AtEnd(w, ios[i]))
IoTell == \E i \in Ids : Open(i) /\ Only("io-pos-ref", i, <<>>, Tell(w, ios[i]))
IoSeek == \E i \in Ids, to \in sess.seeks :
    Open(i) /\ Only("io-seek", i, <<>>, Seek(w, ios[i], to.pos, to.whence))
IoPosSet == \E i \in Ids, pos \in 0..MaxText :
    Open(i) /\ Only("io-pos-set!", i, <<>>, Done(Seek(w, ios[i], pos, "SEEK_SET").w))
IoRewind == \E i \in Ids : Open(i) /\ Only("io-rewind", i, <<>>, Rewind(w, ios[i]))
IoFlush == \E i \in Ids : Open(i) /\ Only("io-flush", i, <<>>, Checked(IO_NOT_CLOSED_P(ios[i]), Flush(w, ios[i])))
\* .io and object-inspect ask for the position of any object.
Inspect == \E i \in Ids : Open(i) /\ Only("inspect", i, <<>>, Tell(w, ios[i]))
io_equal_p(o, p) ==
    LET first == Tell(w, o)
        other == Then(first, LAMBDA x : Tell(x, p))
    IN  Then(other, LAMBDA x : Got(x, <<"flag", first.v = other.v>>))
IoEqual == \E i, j \in Ids : Open(i) /\ Open(j) /\ Only("io=", i, <<>>,
    IF ios[i].name = ios[j].name /\ ios[i].name # NoName /\ ios[i].fam = ios[j].fam
    THEN io_equal_p(ios[i], ios[j]) ELSE Got(w, <<"flag", FALSE>>))

\* object-length: an object that has not changed has the length it had.
IoLength == \E i \in Ids : Open(i) /\
    \E r \in {IF ios[i].changed THEN LengthOf(w, ios[i], i) ELSE Got(w, <<"pos", ios[i].length>>)} :
        Plain("object-length", i, <<>>, r, IF Failed(r.v) THEN ios ELSE [ios EXCEPT ![i].length = r.v[2]])
\* object->array, which the object's lines and io->string are taken from; the object counts
\* as not changed afterwards.
fth_object_to_array(o) ==
    IF o.changed THEN io_to_array(w, o) ELSE Got(w, <<"lines", o.values>>)
ToArray(o, r) == [o EXCEPT !.changed = FALSE, !.values = r.v[2], !.buffer = IF o.changed THEN <<r.v[2]>> ELSE @]
IoToArray == \E i \in Ids : Open(i) /\ ~Waits(ios[i]) /\ \E r \in {fth_object_to_array(ios[i])} :
    Plain("object->array", i, <<>>, r, IF Failed(r.v) THEN ios ELSE [ios EXCEPT ![i] = ToArray(@, r)])
IoToString == \E i \in Ids : Open(i) /\ ~Waits(ios[i]) /\
    IF ios[i].type = "string"
    THEN Only("io->string", i, <<>>, Alive(w, ios[i].data, Got(w, <<"text", w.str[ios[i].data].text>>)))
    ELSE \E r \in {fth_object_to_array(ios[i])} :
            Plain("io->string", i, <<>>, IF Failed(r.v) THEN r ELSE Got(r.w, <<"text", FlattenSeq(r.v[2])>>),
                  IF Failed(r.v) THEN ios ELSE [ios EXCEPT ![i] = ToArray(@, r)])

-----------------------------------------------------------------------------
(* Opening and closing. *)

\* Backups.  Every name that ends in a number between tildes and begins like ours counts,
\* with the number two characters after our name: the ones of longer names have no number there.
Backups(x, name) ==
    {n \in DOMAIN x.disk : Exists(x, n) /\ n.ver > 0 /\ n.base \in sess.prefixed[name.base]}
NumberAt(n, name) == IF n.base = name.base THEN n.ver ELSE 0
file_numberLast(x, name) == Max({0} \cup {NumberAt(n, name) : n \in Backups(x, name)})
file_number(x, name) == Max({0} \cup {NumberAt(n, name) + 1 : n \in Backups(x, name)})
file_version_rename(x, name) ==
    LET numb == file_number(x, name)
        to(ver) == rename(x, name, [name EXCEPT !.ver = ver])
    IN  CASE vc = "true" -> to(Max({1, numb}))
          [] vc = "nil" -> to(IF numb > 0 THEN numb ELSE -1)
          [] vc = "false" -> to(-1)
          [] OTHER -> x
io_if_exists(x, name, fam, exists) ==
    IF fam \cap {"w", "a"} = {} \/ ~Exists(x, name) THEN Done(x)
    ELSE CASE exists = "rename" -> Done(file_version_rename(x, name))
           [] exists = "error" -> Raised(x)
           [] OTHER -> Done(x)

\* An opening gives the world and the object, or nothing when it raises.
Opened(x, o) == [w |-> x, v |-> <<"io">>, o |-> o]
NotOpened(x) == [w |-> x, v |-> <<"raise">>, o |-> NoIo]
make_file_io(x, fp, name, fam) ==
    IF CanOpen(x, name, fam_to_mode(fam))
    THEN Opened(fopen(x, fp, name, fam_to_mode(fam)), make_io_base("file", fam, name, fp)) ELSE NotOpened(x)
fth_io_popen(x, fp, fam) ==
    IF fam_to_mode(fam) \in {"r", "w"}
    THEN Opened(popen(x, fp, Command, fam_to_mode(fam)), make_io_base("pipe", fam, [base |-> "command", ver |-> 0], fp))
    ELSE NotOpened(x)
fth_io_sopen(x, s, fam) ==
    LET o == make_io_base("string", fam, NoName, s)
    IN  Opened(string_seek(x, s, 0, IF fam \cap {"w", "a"} # {} THEN "SEEK_END" ELSE "SEEK_SET").w,
               [o EXCEPT !.length = Length(x, s)])
fth_make_soft_port(x, fam) == Opened(x, make_io_base("port", fam, [base |-> "port", ver |-> 0], 0))

\* The sources of keyword arguments.
io_keyword_args_ref(src, fam) ==
    CASE src.kind = "filename" -> make_file_io(w, NewId, src.name, fam)
      [] src.kind = "command" -> fth_io_popen(w, NewId, fam)
      [] src.kind = "string" -> fth_io_sopen(w, src.str, fam)
      [] src.kind = "soft-port" -> fth_make_soft_port(w, fam)
      [] OTHER -> NotOpened(w)
Usable(src) == src.kind = "string" => w.str[src.str].alive
\* One command runs at a time.
Idle(src) == src.kind = "command" => \A i \in Ids : ~(w.file[i].open /\ w.file[i].ino = Command)

New(op, s, r) == /\ FreeIds # {}
                 /\ Plain(op, NewId, s, r, IF Failed(r.v) THEN ios ELSE [ios EXCEPT ![NewId] = r.o])
\* io-open, io-open-write.
IoOpen == \E name \in sess.names, fam \in sess.fams, exists \in sess.exists :
    /\ Word("io-open") /\ FreeIds # {}
    /\ file_number(w, name) <= MaxVersion
    /\ \E x \in {io_if_exists(w, name, fam, exists)} :
          New("io-open", <<exists>>, IF Failed(x.v) THEN NotOpened(x.w) ELSE make_file_io(x.w, NewId, name, fam))
IoOpenRead == \E name \in sess.names :
    Word("io-open-read") /\ FreeIds # {}
    /\ New("io-open-read", <<>>, IF Exists(w, name) THEN make_file_io(w, NewId, name, {"r"}) ELSE NotOpened(w))
\* io-open-file and its like, io-popen, io-sopen, make-soft-port.
IoOpenFile == \E src \in sess.sources, fam \in sess.fams :
    Word("io-open-file") /\ FreeIds # {} /\ Usable(src) /\ Idle(src)
    /\ New("io-open-file", <<>>, io_keyword_args_ref(src, fam))

\* io-reopen: freopen closes the stream and opens it anew; the object is closed even if that fails.
IoReopen == \E i \in Ids, name \in sess.names, fam \in sess.fams :
    /\ Open(i) /\ Word("io-reopen") /\ FreeIds # {}
    /\ IF ios[i].type # "file" THEN Only("io-reopen", i, <<>>, Got(w, <<"io">>))
       ELSE IF ~w.file[ios[i].data].open THEN Only("io-reopen", i, <<>>, Wild(w))
       ELSE \E r \in {make_file_io(fclose(w, ios[i].data), ios[i].data, name, fam)} :
                Plain("io-reopen", NewId, <<>>, r,
                      IF Failed(r.v) THEN [ios EXCEPT ![i].closed = TRUE]
                      ELSE [ios EXCEPT ![i].closed = TRUE, ![NewId] = r.o])

Statuses(o) == IF FTH_IO_P(o) /\ o.type = "pipe" THEN sess.statuses ELSE {0}
\* fth_io_close of object i, whose command ends with n.
fth_io_close(x, o, n, bad) ==
    IF ~FTH_IO_P(o) THEN Raised(x) ELSE IF o.closed THEN Done(x) ELSE Soft(o, bad, Close(x, o, n))
Closed(objs, i, r) == IF Failed(r.v) THEN objs ELSE [objs EXCEPT ![i].closed = TRUE]
Redirecting == {port.in, port.out, port.err} \cup UNION {{f.io, f.old} : f \in Range(frames)}
IoClose == \E i \in Ids : Open(i) /\ \E n \in Statuses(ios[i]), bad \in Bad(ios[i]) :
    \E r \in {fth_io_close(w, ios[i], n, bad)} :
        /\ Ends("io-close", i, <<>>, r, Closed(ios, i, r))
        /\ touched' = IF i \in Redirecting THEN touched \cup {"close"} ELSE touched
        /\ UNCHANGED <<port, vc, frames>>
\* The collector meets an object nobody has any more: io_free closes what is open.
Collect == \E i \in Ids \ Terminal :
    /\ Open(i) /\ i \notin Redirecting
    /\ \E n \in Statuses(ios[i]) : \E r \in {fth_io_close(w, ios[i], n, FALSE)} :
          Plain("collect", i, <<>>, r, IF Failed(r.v) THEN ios ELSE [ios EXCEPT ![i] = NoIo])
\* The collector frees a string the program has dropped: io_mark does not mark it.
CollectString == \E s \in Strings :
    /\ w.str[s].alive /\ Only("collect-string", 0, <<>>, Done([w EXCEPT !.str[s].alive = FALSE]))
\* cycle-next and cycle-start0 move the string's position too.
cycle_next(x, s) == At(x, s, IF Length(x, s) - 1 > Index(x, s) THEN Index(x, s) + 1 ELSE 0)
StringCycle == \E s \in Strings : \E x \in {cycle_next(w, s), At(w, s, 0)} :
    w.str[s].alive /\ Only("string-cycle", 0, <<>>, Done(x))
SetVersionControl == \E v \in {"true", "nil", "false", "undef"} :
    /\ Ends("set-version-control", 0, <<>>, Done(w), ios)
    /\ vc' = v /\ UNCHANGED <<port, frames, touched>>

-----------------------------------------------------------------------------
(* The words of src/file.c that change files or the exit status: deleting, *)
(* renaming, copying, installing, cutting, touching, and running commands. *)
(* Directories, modes and owners of files are not modelled.                *)

\* Only what can be written is deleted, the rest is left without a word.
fth_file_delete(x, name) == Done(IF Exists(x, name) THEN unlink(x, name) ELSE x)
fth_file_rename(x, src, dst) == IF Exists(x, src) THEN Done(rename(x, src, dst)) ELSE Raised(x)
\* Cut, or made.
Emptied(x, name) ==
    IF Exists(x, name) THEN [x EXCEPT !.inode[x.disk[name]].text = <<>>] ELSE Created(x, name)
\* The destination is opened, and cut, before the source is read.
fth_file_copy(x, src, dst) ==
    LET y == Emptied(x, dst)
    IN  IF ~Exists(x, src) THEN Raised(x)
        ELSE Done([y EXCEPT !.inode[y.disk[dst]].text = y.inode[y.disk[src]].text])
fth_file_install(x, src, dst, newer) ==
    IF ~Exists(x, dst) \/ (Exists(x, src) /\ newer)
    THEN Then(fth_file_copy(x, src, dst), LAMBDA y : Got(y, <<"flag", TRUE>>))
    ELSE Got(x, <<"flag", FALSE>>)

FileDelete == \E name \in sess.names : Only("file-delete", 0, <<>>, fth_file_delete(w, name))
FileRename == \E src, dst \in sess.names : Only("file-rename", 0, <<>>, fth_file_rename(w, src, dst))
FileCopy == \E src, dst \in sess.names : Only("file-copy", 0, <<>>, fth_file_copy(w, src, dst))
\* `newer' is whether the source was modified after the destination.
FileInstall == \E src, dst \in sess.names, newer \in BOOLEAN :
    Only("file-copy", 0, <<>>, fth_file_install(w, src, dst, newer))
FileTruncate == \E name \in sess.names, n \in 0..1 :
    Only("file-truncate", 0, <<>>, IF Exists(w, name) THEN Done(truncate(w, name, n)) ELSE Raised(w))
FileTouch == \E name \in sess.names :
    Only("file-touch", 0, <<>>, Done(IF Exists(w, name) THEN w ELSE Created(w, name)))
FileLength == \E name \in sess.names : Only("file-length", 0, <<>>,
    Got(w, IF Exists(w, name) THEN <<"pos", Len(w.inode[w.disk[name]].text)>> ELSE <<"eof">>))
\* readlines and writelines of a named file.
Readlines == \E name \in sess.names : Word("readlines") /\ FreeIds # {} /\
    \E r \in {make_file_io(w, NewId, name, {"r"})} :
        Only("readlines", 0, <<>>, IF Failed(r.v) THEN Raised(w) ELSE
             LET got == fth_io_readlines(r.w, r.o) IN Got(fclose(got.w, NewId), got.v))
Writelines == \E name \in sess.names, s \in sess.lines : Word("writelines") /\ FreeIds # {} /\
    \E r \in {make_file_io(w, NewId, name, {"w"})} :
        Only("writelines", 0, <<>>, Done(fclose(fth_io_writelines(r.w, r.o, <<s>>).w, NewId)))

\* fth_set_exit_status: a command that did not exit has -1.
FileSystem == \E n \in sess.statuses :
    Only("file-system", 0, <<>>, Got([w EXCEPT !.status = n], <<"flag", n = 0>>))
\* file-shell reads a command's output to its end and closes it.
FileShell == \E n \in sess.statuses : Word("file-shell") /\ FreeIds # {} /\ Idle([kind |-> "command"]) /\
    \E r \in {fth_io_popen(w, NewId, {"r"})} : \E got \in {ReadAll(r.w, r.o)} :
        Only("file-shell", 0, <<>>, Got(pipe_close(got.w, NewId, n).w, <<"text", FlattenSeq(got.v[2])>>))

FileNext ==
    \/ FileDelete \/ FileRename \/ FileCopy \/ FileInstall \/ FileTruncate \/ FileTouch \/ FileLength
    \/ Readlines \/ Writelines \/ FileSystem \/ FileShell

-----------------------------------------------------------------------------
(* The net words of src/io.c: a program that makes, binds, connects and    *)
(* accepts sockets by their descriptors, and the peers it talks to.  Names *)
(* are looked up before bind and connect, and that may fail; a peer may    *)
(* send, leave, or not be there.  Datagrams are not modelled.              *)

\* The descriptor socket(2) and accept(2) give: the smallest that is free.
FreeFds(x) == {fd \in Fds : x.sock[fd].st = "free"}
NewFd(x) == Min(FreeFds(x))
make_socket_io(fd) == make_io_base("socket", {"r", "w"}, [base |-> "host", ver |-> 0], fd)

NetSocket == /\ FreeFds(w) # {}
             /\ Only("net-socket", 0, <<>>, Done([w EXCEPT !.sock[NewFd(w)] = Socket("open")]))
\* What becomes of a call on a descriptor: it works, it fails, or the name is not found.
Outcomes == {"works", "fails", "lookup"}
\* A call that fails closes the descriptor; a lookup that fails raises before that.
Called(fd, states, how, st) ==
    CASE how = "lookup" -> Raised(w)
      [] how = "works" /\ w.sock[fd].st \in states -> Done([w EXCEPT !.sock[fd] = Socket(st)])
      [] OTHER -> Raised(Freed(w, fd))
NetBind == \E fd \in Fds, how \in Outcomes : Only("net-bind", 0, <<>>, Called(fd, {"open"}, how, "bound"))
NetListen == \E fd \in Fds : Only("net-listen", 0, <<>>,
    IF w.sock[fd].st \in {"bound", "listening"}
    THEN Done([w EXCEPT !.sock[fd] = Socket("listening")]) ELSE Raised(w))
NetConnect == \E fd \in Fds, how \in Outcomes :
    /\ Word("net-connect") /\ FreeIds # {}
    /\ \E r \in {Called(fd, {"open", "bound"}, how, "connected")} :
          Plain("net-connect", NewId, <<>>, r,
                IF Failed(r.v) THEN ios ELSE [ios EXCEPT ![NewId] = make_socket_io(fd)])
\* accept waits for a peer; a failure closes the listening descriptor.
NetAccept == \E fd \in Fds :
    /\ Word("net-accept") /\ FreeIds # {} /\ FreeFds(w) # {}
    /\ IF w.sock[fd].st = "listening"
       THEN Plain("net-accept", NewId, <<>>, Done([w EXCEPT !.sock[NewFd(w)] = Socket("connected")]),
                  [ios EXCEPT ![NewId] = make_socket_io(NewFd(w))])
       ELSE Only("net-accept", 0, <<>>, Raised(Freed(w, fd)))
NopenWith(x, fd, how) ==
    CASE how = "lookup" -> NotOpened(x)
      [] how = "fails" -> NotOpened(Freed(x, fd))
      [] OTHER -> Opened([x EXCEPT !.sock[fd] = Socket("connected")], make_socket_io(fd))
fth_io_nopen(how) == NopenWith([w EXCEPT !.sock[NewFd(w)] = Socket("open")], NewFd(w), how)
IoNopen == \E how \in Outcomes :
    Word("io-nopen") /\ FreeIds # {} /\ FreeFds(w) # {} /\ New("io-nopen", <<>>, fth_io_nopen(how))
\* net-send and net-recv use the descriptor, whoever has it.
NetSend == \E fd \in Fds : Only("net-send", 0, <<>>, socket_write(w, fd))
NetRecv == \E fd \in Fds : Receives(w, fd) /\ Only("net-recv", 0, <<>>, socket_read_line(w, fd))
NetShutdown == \E fd \in Fds : Only("net-shutdown", 0, <<>>,
    IF Connected(w, fd) THEN Done([w EXCEPT !.sock[fd].peer = FALSE]) ELSE Raised(w))
\* The other side.
PeerSends == \E fd \in Fds, s \in sess.lines :
    /\ Connected(w, fd) /\ w.sock[fd].peer /\ Len(w.sock[fd].in) + Len(s) <= MaxText
    /\ Only("peer", 0, <<>>, Done([w EXCEPT !.sock[fd].in = @ \o s]))
PeerLeaves == \E fd \in Fds :
    Connected(w, fd) /\ w.sock[fd].peer /\ Only("peer", 0, <<>>, Done([w EXCEPT !.sock[fd].peer = FALSE]))

SocketNext ==
    \/ NetSocket \/ NetBind \/ NetListen \/ NetConnect \/ NetAccept \/ IoNopen \/ NetSend \/ NetRecv
    \/ NetShutdown \/ PeerSends \/ PeerLeaves
=============================================================================
