------------------------------ MODULE MCFthIo ------------------------------
(***************************************************************************)
(* Programs for the IO words: each uses the words of one question, so that *)
(* it can go further than one that uses them all.                          *)
(***************************************************************************)
EXTENDS FthPort

F == [base |-> "f", ver |-> 0]
FO == [base |-> "fo", ver |-> 0]
Ver(n, k) == [n EXCEPT !.ver = k]
File(n) == [kind |-> "filename", name |-> n, str |-> 0]
Str(s) == [kind |-> "string", name |-> F, str |-> s]
Other(kind) == [kind |-> kind, name |-> F, str |-> 0]

To(pos, whence) == [pos |-> pos, whence |-> whence]

Session(words, bound) ==
    [words |-> words, bound |-> bound, depth |-> 2, objects |-> Ids \ Terminal,
     disk |-> F :> <<"a", NL, "b">>, strs |-> [s \in Strings |-> <<"a", "b">>], output |-> <<"c", NL>>,
     vc |-> {"undef"}, names |-> {F}, fams |-> {{"r"}}, exists |-> {"overwrite"}, sources |-> {},
     lines |-> {<<"x", NL>>}, chars |-> {<<"y">>}, given |-> {"proc"}, statuses |-> {0}, seeks |-> {To(1, "SEEK_SET"), To(-1, "SEEK_CUR"), To(1, "SEEK_END")},
     prefixed |-> [b \in Bases |-> IF b = "f" THEN {"f", "fo"} ELSE {b}]]
Ask == {"io-pos-ref", "inspect", "io-flush", "io-eof?", "object-length", "object->array", "io->string", "io-readlines"}
Move == {"io-seek", "io-pos-set!", "io-rewind"}

ReadSession == [Session({"io-open", "io-getc", "io-read", "io-close", "io="} \cup Ask \cup Move, 6) EXCEPT
    !.objects = {4},
    !.fams = {{"r"}, {"r", "a"}}]
WriteSession == [Session({"io-open", "io-write", "io-putc", "io-getc", "io-writelines", "io-seek", "io-pos-ref",
                          "io-readlines", "object-length", "io->string"}, 6) EXCEPT
    !.objects = {4}, !.fams = Fams \ {{"r"}}]
StringSession == [Session({"io-open-file", "io-write", "io-putc", "io-getc", "io-read", "io-rewind", "io-close",
                           "io->string", "io-pos-ref", "string-cycle", "collect-string"}, 5) EXCEPT
    !.objects = {4}, !.fams = {{"r"}, {"w"}, {"r", "a"}}, !.sources = {Str(s) : s \in Strings},
    !.strs = [s \in Strings |-> IF s = 1 THEN <<"a", "b">> ELSE <<>>]]
BackupSession == [Session({"io-open", "io-close", "io-write", "set-version-control"}, 5) EXCEPT
    !.fams = {{"w"}, {"a"}, {"w", "a"}}, !.exists = {"overwrite", "error", "rename"}, !.vc = {"true", "nil"},
    !.disk = (F :> <<"a">>) @@ (Ver(F, -1) :> <<"b">>) @@ (Ver(FO, 3) :> <<"c">>)]
FileSession == [Session({"file-delete", "file-rename", "file-copy", "file-truncate", "file-touch", "file-length",
                         "readlines", "writelines", "io-open-read", "io-read", "io-reopen", "io-write"}, 4) EXCEPT
    !.names = {F, FO}, !.fams = {{"r"}, {"a"}}]
PipeSession == [Session({"io-open-file", "io-read", "io-write", "io-close", "io-readlines", "file-system", "file-shell",
                         "io-eof?", "collect", "object-length", "io-getc", "io-putc"}, 4) EXCEPT
    !.fams = {{"r"}, {"w"}, {"r", "w"}}, !.sources = {Other("command"), Other("soft-port"), Other("none")},
    !.statuses = {0, -1}]
PortSession == [Session({"with-port", "return", "throw", "set-*stdout*", "io-close", "port-gets", "port-puts"}, 3) EXCEPT
    !.sources = {File(F), Other("soft-port")}, !.given = {"proc", "text", "other"}, !.objects = Ids]
SetSession == [Session({"with-port", "return", "print", "set-*stdout*", "io-close", "collect"}, 4) EXCEPT
    !.sources = {File(F)}, !.objects = 1..4]
NestSession == [Session({"with-port", "return", "print", "throw"}, 6) EXCEPT
    !.sources = {File(F), Str(1)}, !.depth = 3]
SocketSession == [Session({"net-socket", "net-bind", "net-listen", "net-connect", "net-accept", "io-nopen", "net-send",
                           "net-recv", "net-shutdown", "peer", "io-read", "io-getc", "io-write", "io-close", "io-readlines",
                           "io-eof?", "io-pos-ref"}, 5) EXCEPT !.lines = {<<"x">>}]
MCSessions == {ReadSession, WriteSession, StringSession, BackupSession, FileSession, PipeSession, PortSession, SetSession,
               NestSession, SocketSession}
=============================================================================
