------------------------------ MODULE FthPort ------------------------------
(***************************************************************************)
(* The current ports, the redirections of src/port.c and, with the words   *)
(* of the other modules, the specification of IO as a whole.               *)
(***************************************************************************)
EXTENDS FthIoWords

\* A port #f is the current one.
PortOf(p, which) == IF p = 0 THEN port[which] ELSE p
PortGets == \E p \in {0} \cup Ids : \E i \in {PortOf(p, "in")} :
    ~Waits(ios[i]) /\ Only("port-gets", i, <<>>, fth_io_read(ios[i], FALSE))
\* port-puts, port-display and port-puts-format write and flush.
PortPuts == \E p \in {0} \cup Ids, s \in sess.lines : \E i \in {PortOf(p, "out")} :
    /\ Word("port-puts")
    /\ \E r \in {fth_io_write_and_flush(ios[i], s, FALSE)} : Put("port-puts", i, s, r)
\* default_print_cb and default_error_cb: all other output, closed or not.
PrintTo(o, s) == Then(WriteText(w, o, s), LAMBDA x : Flush(x, o))
default_print_cb == \E which \in {"out", "err"}, s \in sess.lines : \E i \in {port[which]} :
    Only("print", i, s, PrintTo(ios[i], s))

\* fth_set_io_stdin and its like: the old port, or #f and no change.
Settable(o, which) == IF which = "in" THEN IO_INPUT_P(o) ELSE IO_OUTPUT_P(o)
SetIo == \E i \in Ids, which \in DOMAIN port : \E can \in {Settable(ios[i], which)} :
    /\ Open(i) /\ Ends("set-*stdout*", i, <<>>, Got(w, IF can THEN <<"io">> ELSE <<"eof">>), ios)
    /\ port' = IF can THEN [port EXCEPT ![which] = i] ELSE port
    /\ touched' = touched \cup {"set"} /\ UNCHANGED <<vc, frames>>

-----------------------------------------------------------------------------
(* with-input-port and with-output-port give the object to a proc, with-input-from-port,     *)
(* with-output-to-port and with-error-to-port make it the current port while the proc runs.   *)

FRAME(which, to, io, old) == [which |-> which, to |-> to, io |-> io, old |-> old]
FamOf(which) == IF which = "in" THEN {"r"} ELSE {"w"}
Redirect(p, f) == IF f.to THEN [p EXCEPT ![f.which] = f.io] ELSE p
RestoreForgotten(p, f) == p
Restore(p, f) == IF f.to THEN [p EXCEPT ![f.which] = f.old] ELSE p

\* The end of a word when the ports are p: the port is set back, and what was there is closed.
\* When the old port cannot be set any more, fth_io_close gets #f.
Leave(op, f, p, x, objs, v) ==
    LET gone == IF f.to THEN p[f.which] ELSE f.io
    IN  IF f.to /\ ~Settable(objs[f.old], f.which)
        THEN Ends(op, f.io, <<>>, Raised(x), objs) /\ port' = p
        ELSE \E n \in Statuses(objs[gone]) : \E r \in {fth_io_close(x, objs[gone], n, FALSE)} :
                /\ Ends(op, f.io, <<>>, IF Failed(r.v) THEN r ELSE Got(r.w, v), Closed(objs, gone, r))
                /\ port' = Restore(p, f)
\* An exception from the middle of the word: nothing is set back nor closed.
Abandon(op, f, x, objs, v) ==
    /\ Ends(op, f.io, <<>>, Got(x, v), objs) /\ port' = Redirect(port, f)
    /\ touched' = touched \cup {"throw"}

\* The object is opened before anything else is looked at.
WithPort(given, src, which, to, s, bad) ==
    /\ Word("with-port") /\ FreeIds # {} /\ Usable(src) /\ Idle(src)
    /\ \E r \in {io_keyword_args_ref(src, FamOf(which))} :
       \E f \in {FRAME(which, to, NewId, port[which])}, objs \in {[ios EXCEPT ![NewId] = r.o]} :
          IF Failed(r.v) THEN New("with-port", <<>>, r)
          ELSE /\ UNCHANGED vc
               /\ CASE given = "proc" ->       \* run it; Return or Throw ends it
                         /\ Len(frames) < sess.depth
                         /\ Ends("with-port", f.io, <<>>, r, objs)
                         /\ frames' = Append(frames, f) /\ port' = Redirect(port, f) /\ UNCHANGED touched
                    [] given = "other" ->       \* no proc: only the redirecting words close the object
                         /\ UNCHANGED <<frames, touched>>
                         /\ IF to THEN Leave("with-port", f, Redirect(port, f), r.w, objs, <<"raise">>)
                            ELSE Ends("with-port", f.io, <<>>, Raised(r.w), objs) /\ UNCHANGED port
                    [] OTHER ->                 \* nil reads a line, a string is written
                         \E x \in {Soft(r.o, bad, IF which = "in" THEN ReadLine(r.w, r.o)
                                                  ELSE WriteText(r.w, r.o, s))} :
                            /\ UNCHANGED frames
                            /\ IF Failed(x.v) THEN Abandon("with-port", f, x.w, objs, x.v)
                               ELSE UNCHANGED touched /\ Leave("with-port", f, Redirect(port, f), x.w, objs, x.v)
WithSomePort == \E given \in sess.given, src \in sess.sources, to \in BOOLEAN, s \in sess.lines :
    \E which \in IF to THEN DOMAIN port ELSE {"in", "out"}, bad \in IF src.kind = "soft-port" THEN BOOLEAN ELSE {FALSE} :
        WithPort(given, src, which, to, s, bad)
Return ==
    /\ Word("return") /\ frames # <<>>
    /\ Leave("return", Last(frames), port, w, ios, <<"done">>)
    /\ frames' = Front(frames) /\ UNCHANGED <<vc, touched>>
Throw == \E d \in 0..(Len(frames) - 1) :
    /\ Ends("throw", 0, <<>>, Raised(w), ios)
    /\ frames' = SubSeq(frames, 1, d) /\ touched' = touched \cup {"throw"} /\ UNCHANGED <<port, vc>>

-----------------------------------------------------------------------------

TerminalIo(i) == make_io_base("file", IF i = 1 THEN {"r"} ELSE {"w"}, [base |-> "terminal", ver |-> i], i)
\* Inodes 1, 2 and 3 are the terminal's, 4 is what a command writes or reads.
Inodes == 1..(4 + MaxFiles)
InitWorld(s) ==
    LET named == SetToSeq(DOMAIN s.disk)
        ino(n) == 4 + (CHOOSE k \in DOMAIN named : named[k] = n)
    IN  [disk |-> [n \in Names |-> IF n \in DOMAIN s.disk THEN ino(n) ELSE 0],
         inode |-> [k \in Inodes |->
            [kind |-> IF k > 4 THEN "file" ELSE IF k = 4 THEN "pipe" ELSE "terminal",
             text |-> IF k > 4 /\ k - 4 \in DOMAIN named THEN s.disk[named[k - 4]] ELSE IF k = 4 THEN s.output ELSE <<>>]],
         file |-> [i \in Ids |-> IF i \in Terminal THEN STREAM(i, IF i = 1 THEN "r" ELSE "w", 0) ELSE NoStream],
         str |-> [t \in Strings |-> [text |-> s.strs[t], cycle |-> 0, alive |-> TRUE]],
         sock |-> [fd \in Fds |-> Socket("free")], status |-> 0]
Init ==
    /\ sess \in Sessions /\ steps = 0
    /\ w = InitWorld(sess)
    /\ ios = [i \in Ids |-> IF i \in Terminal THEN TerminalIo(i) ELSE NoIo]
    /\ port = Standard /\ vc \in sess.vc /\ frames = <<>> /\ touched = {}
    /\ log = [i \in Ids \ Terminal |-> [ok |-> FALSE, want |-> <<>>]]
    /\ did = [op |-> "none", io |-> 0, arg |-> <<>>, v |-> <<"done">>]
IoNext ==
    \/ IoGetc \/ IoRead \/ IoPutc \/ IoWrite \/ IoWritelines \/ IoReadlines \/ IoEof \/ IoTell \/ IoSeek
    \/ IoPosSet \/ IoRewind \/ IoFlush \/ Inspect \/ IoEqual \/ IoLength \/ IoToArray \/ IoToString
    \/ IoOpen \/ IoOpenRead \/ IoOpenFile \/ IoReopen \/ IoClose \/ Collect \/ CollectString
    \/ StringCycle \/ SetVersionControl
PortNext == PortGets \/ PortPuts \/ default_print_cb \/ SetIo \/ WithSomePort \/ Return \/ Throw
Next == IoNext \/ FileNext \/ SocketNext \/ PortNext
Spec == Init /\ [][Next]_vars

-----------------------------------------------------------------------------
(* Properties. *)

\* Positions and lengths are numbers; an object that is not closed has a stream that is open,
\* and no other object that is open has the same.
TypeOK ==
    /\ \A n \in Names : w.disk[n] \in {0} \cup (Inodes \ 1..4)
    /\ \A i \in Ids : w.file[i].off \in Nat /\ (w.file[i].ahead = <<>> \/ w.file[i].out = <<>>)
    /\ \A i \in Ids : ios[i].fam \in Fams \cup {{}} /\ ios[i].length \in {-1} \cup Nat
    /\ \A i \in Ids : IO_NOT_CLOSED_P(ios[i]) /\ ios[i].type \in {"file", "pipe"} =>
          /\ w.file[ios[i].data].open
          /\ \A j \in Ids \ {i} : IO_NOT_CLOSED_P(ios[j]) /\ ios[j].type \in {"file", "pipe"} =>
                ios[i].data # ios[j].data

\* What is written through an object that alone has its file or string, and whose position
\* nobody sets, comes after what was there, in order and without a gap: whether the position
\* of a string is its last character or behind it, whatever is still in the buffers of a
\* stream, and whatever lengths, lines and positions were asked for in between.
WrittenInOrder ==
    \A i \in Ids \ Terminal : log[i].ok => Content(w, ios[i]) = log[i].want

\* The position and the text of a file, as one sees them through the object that alone has it
\* open, are those of a text with a cursor, although src/io.c mixes the buffered calls of
\* stdio with lseek on the descriptor: reads give what is at the cursor and move it, and the
\* words that ask for position, length, end or content leave both alone.  (Another program,
\* or a word of src/file.c, may change the file under what was read ahead.)
Asking == {"io-pos-ref", "inspect", "io-flush", "io-eof?", "object-length", "object->array", "io->string", "io-readlines"}
Cursor(x, o) == Offset(x, o.data)
Current(x, f) ==
    f.ahead # <<>> => /\ f.off <= Len(x.inode[f.ino].text)
                      /\ SubSeq(x.inode[f.ino].text, f.off - Len(f.ahead) + 1, f.off) = f.ahead
Rest(x, o) == SubSeq(TextSeen(x, o.data), Cursor(x, o) + 1, Len(TextSeen(x, o.data)))
Reads(o, v, n) ==
    /\ v = IF n = 0 THEN <<"eof">> ELSE IF did'.op = "io-getc" THEN <<"char", Rest(w, o)[1]>>
           ELSE <<"line", SubSeq(Rest(w, o), 1, n)>>
    /\ Cursor(w', o) = Cursor(w, o) + n
CursorKept == [][
    LET i == did'.io
        o == ios[i]
        v == did'.v
    IN  /\ did'.op \in Asking \cup {"io-getc", "io-read", "io-seek"} /\ i \in Ids \ Terminal
        /\ IO_NOT_CLOSED_P(o) /\ o.type = "file" /\ ~Shared(w, ios, i) /\ ~Failed(v)
        /\ Current(w, w.file[o.data])
        => /\ TextSeen(w', o.data) = TextSeen(w, o.data)
           /\ did'.op \in Asking => Cursor(w', o) = Cursor(w, o)
           /\ did'.op = "io-pos-ref" => v = <<"pos", Cursor(w, o)>>
           /\ did'.op = "object-length" /\ o.changed => v = <<"pos", Len(TextSeen(w, o.data))>>
           /\ did'.op = "io-readlines" => FlattenSeq(v[2]) = TextSeen(w, o.data)
           /\ did'.op = "io-seek" /\ v # <<"pos", -1>> => Cursor(w', o) = v[2]
           /\ did'.op = "io-getc" /\ ~w.file[o.data].eof => Reads(o, v, Min({1, Len(Rest(w, o))}))
           /\ did'.op = "io-read" /\ ~w.file[o.data].eof => Reads(o, v, LineLength(Rest(w, o)))]_vars

\* Opening a file with :if-exists :rename under numbered backups loses nothing: every file
\* that had a name, the old backups too, still has one, and its text.
BackupsKept == [][
    did'.op = "io-open" /\ did'.arg = <<"rename">> /\ vc = "true" =>
        \A n \in Names : Exists(w, n) => \E m \in Names :
            w'.disk[m] = w.disk[n] /\ w'.inode[w'.disk[m]].text = w.inode[w.disk[n]].text]_vars

\* As long as nothing is thrown and the program neither sets nor closes a port itself, every
\* current port is the object of the innermost redirection that still runs, or else the
\* terminal's, however redirections are nested and whatever they are given; and a redirection
\* that is over has closed its object.
Innermost(which) ==
    LET k == Max({0} \cup {n \in DOMAIN frames : frames[n].to /\ frames[n].which = which})
    IN  IF k = 0 THEN Standard[which] ELSE frames[k].io
RedirectionsUndone == TypeOK /\
    (touched = {} =>
        /\ \A which \in DOMAIN port : port[which] = Innermost(which)
        /\ \A f \in Range(frames) : ~ios[f.io].closed
        /\ did.op = "return" /\ did.v = <<"done">> => ios[did.io].closed)
=============================================================================
