---------------------------- MODULE ProcfsParse -----------------------------
(***************************************************************************)
(* How the lines of /proc are read (collector/collector/lib/               *)
(* ProcfsScraper.cpp): net/tcp and net/tcp6, stat, cgroup and cmdline.     *)
(*                                                                         *)
(* A line of net/tcp is the sequence of its fields, a field the sequence   *)
(* of its characters: 0..15 for hexadecimal digits, Colon for the colon.   *)
(* What the kernel writes is part of the module, as the reference.         *)
(***************************************************************************)
LOCAL INSTANCE Integers
LOCAL INSTANCE Sequences
LOCAL INSTANCE SequencesExt
LOCAL INSTANCE FiniteSets
LOCAL INSTANCE FiniteSetsExt

Colon == -1
IsHexChar(c) == c \in 0..15

(* ReadHexBytes: bytes up to the first pair that is not hexadecimal, every *)
(* complete chunk turned round.  ReadHexForward does not turn them.        *)
ReadHexForward(field, chunk, chunks, reverse) ==
  LET pair(i) == <<field[2 * i - 1], field[2 * i]>>
      good(i) == 2 * i <= Len(field) /\ \A k \in 1..2 : IsHexChar(pair(i)[k])
      n == Max({i \in 0..(chunk * chunks) : \A j \in 1..i : good(j)})
  IN  [i \in 1..n |-> 16 * pair(i)[1] + pair(i)[2]]

ReadHexBytes(field, chunk, chunks, reverse) ==
  LET pair(i) == <<field[2 * i - 1], field[2 * i]>>
      good(i) == 2 * i <= Len(field) /\ \A k \in 1..2 : IsHexChar(pair(i)[k])
      n == Max({i \in 0..(chunk * chunks) : \A j \in 1..i : good(j)})
      first(i) == ((i - 1) \div chunk) * chunk + 1
      place(i) == IF reverse /\ first(i) + chunk - 1 <= n THEN 2 * first(i) + chunk - 1 - i ELSE i
  IN  [i \in 1..n |-> 16 * pair(place(i))[1] + pair(place(i))[2]]

AddressLength(family) == IF family = "v4" THEN 4 ELSE 16
NoEndpoint == [ok |-> FALSE, address |-> <<>>, port |-> 0]

(* ParseEndpoint, on a little-endian host.                                 *)
ParseEndpoint(field, family) ==
  LET len == AddressLength(family)
      address == ReadHexBytes(field, 4, len \div 4, TRUE)
      rest == SubSeq(field, 2 * len + 2, Len(field))
      port == ReadHexBytes(rest, 2, 1, TRUE)
  IN  IF Len(address) # len \/ Len(field) <= 2 * len \/ field[2 * len + 1] # Colon \/ Len(port) # 2
      THEN NoEndpoint
      ELSE [ok |-> TRUE, address |-> address, port |-> port[1] + 256 * port[2]]

NoLine == [ok |-> FALSE, local |-> NoEndpoint, remote |-> NoEndpoint, state |-> 0, inode |-> 0]
Decimal(digits) == FoldLeft(LAMBDA n, d : 10 * n + d, 0, digits)

(* ParseConnLine: the fields 1, 2, 3 and 9, counted from 0; nextfield      *)
(* finds none behind the last.                                             *)
ParseConnLine(line, family) ==
  LET local == ParseEndpoint(line[2], family)
      remote == ParseEndpoint(line[3], family)
      state == ReadHexBytes(line[4], 1, 1, FALSE)
      inode == line[10]
  IN  IF \/ Len(line) < 2 \/ ~local.ok
         \/ Len(line) < 3 \/ ~remote.ok
         \/ Len(line) < 4 \/ state = <<>>
         \/ Len(line) < 10 \/ \E k \in DOMAIN inode : inode[k] \notin 0..9
      THEN NoLine
      ELSE [ok |-> TRUE, local |-> local, remote |-> remote, state |-> state[1],
            inode |-> Decimal(inode)]

(* IsEphemeralPort: how likely a port is a client's.                       *)
IsEphemeralPort(port) ==
  CASE port >= 49152 -> 4
    [] port \in 32768..49151 -> 3
    [] port \in 1025..5000 -> 2
    [] port = 1024 -> 1
    [] OTHER -> 0

(* LocalIsServer: listening on the address, on the port of any address, or *)
(* else the one whose port is less likely a client's.  The address that    *)
(* stands for any is all zero.  LocalIsServerHere forgets any address.     *)
LocalIsServerHere(local, remote, listening) ==
  \/ local \in listening
  \/ IsEphemeralPort(remote.port) > IsEphemeralPort(local.port)

LocalIsServer(local, remote, listening) ==
  \/ local \in listening
  \/ [local EXCEPT !.address = [k \in DOMAIN local.address |-> 0]] \in listening
  \/ IsEphemeralPort(remote.port) > IsEphemeralPort(local.port)

TCP_ESTABLISHED == 1
TCP_LISTEN == 10

(* ReadConnectionsFromFile: the lines in order; a connection is told from  *)
(* the listening sockets above it.  Lines that do not parse, other states  *)
(* and connections without an inode are left out.                          *)
Sorted(data) ==
  LET listening == {k \in DOMAIN data : data[k].ok /\ data[k].state = TCP_LISTEN}
      conns == {k \in DOMAIN data : /\ data[k].ok /\ data[k].state = TCP_ESTABLISHED
                                    /\ data[k].inode # 0}
      above(k) == {data[j].local : j \in {j \in listening : j < k}}
  IN  [connections |->
         {[inode |-> data[k].inode, local |-> data[k].local, remote |-> data[k].remote,
           is_server |-> LocalIsServer(data[k].local, data[k].remote, above(k))] : k \in conns},
       endpoints |-> {[inode |-> data[k].inode, endpoint |-> data[k].local]
                      : k \in {j \in listening : data[j].inode # 0}}]

ReadConnectionsFromFile(lines, family) ==
  Sorted([k \in DOMAIN lines |-> ParseConnLine(lines[k], family)])

-----------------------------------------------------------------------------
(* The other files, as sequences of characters.                            *)
Find(line, what, from) ==
  LET at == {k \in from..Len(line) : line[k] = what} IN IF at = {} THEN 0 ELSE Min(at)

(* rep_find: the n-th place of a character, or 0 for npos.                 *)
rep_find(n, line, c) ==
  FoldLeft(LAMBDA pos, k : IF pos = -1 THEN Find(line, c, 1)
                           ELSE IF pos = 0 THEN 0 ELSE Find(line, c, pos + 1),
           IF n <= 0 THEN 0 ELSE -1, [k \in 1..n |-> k])

(* The identifier of a container: IdLength hexadecimal digits (64 in the   *)
(* code), of which ShortLength (12) are kept.  ".scope" and "-conmon" are  *)
(* single characters here.                                                 *)
IdLength == 3
ShortLength == 2
IsContainerID(id) == \A k \in DOMAIN id : id[k] \in {"0", "a"}

(* ExtractConmon does not know conmon.                                     *)
ExtractConmon(path) ==
  LET scope == {k \in DOMAIN path : path[k] = ".scope"}
      cgroup == IF scope = {} THEN path ELSE SubSeq(path, 1, Max(scope) - 1)
      start == Len(cgroup) - IdLength
      id == SubSeq(cgroup, start + 1, Len(cgroup))
  IN  IF start < 1 \/ cgroup[start] \notin {"/", "-"} \/ ~IsContainerID(id) THEN <<>>
      ELSE SubSeq(id, 1, ShortLength)

ExtractContainerIDFromCgroup(path) ==
  LET scope == {k \in DOMAIN path : path[k] = ".scope"}
      cgroup == IF scope = {} THEN path ELSE SubSeq(path, 1, Max(scope) - 1)
      start == Len(cgroup) - IdLength
      id == SubSeq(cgroup, start + 1, Len(cgroup))
  IN  IF \/ start < 1 \/ cgroup[start] \notin {"/", "-"} \/ ~IsContainerID(id)
         \/ start > 1 /\ cgroup[start - 1] = "-conmon"
      THEN <<>>
      ELSE SubSeq(id, 1, ShortLength)

(* ExtractContainerID: what follows the second colon is the path.          *)
ExtractContainerID(line) ==
  LET start == rep_find(2, line, ":")
  IN  IF start = 0 THEN <<>>
      ELSE ExtractContainerIDFromCgroup(SubSeq(line, start + 1, Len(line)))

(* ExtractProcessState: what follows the last parenthesis and space.       *)
(* StateAfterFirst takes the first.                                        *)
Closings(line) == {k \in 1..(Len(line) - 1) : line[k] = ")" /\ line[k + 1] = " "}
StateAfterFirst(line) ==
  IF Closings(line) = {} \/ Min(Closings(line)) + 2 > Len(line) THEN "none"
  ELSE line[Min(Closings(line)) + 2]

ExtractProcessState(line) ==
  IF Closings(line) = {} \/ Max(Closings(line)) + 2 > Len(line) THEN "none"
  ELSE line[Max(Closings(line)) + 2]

(* ReadProcessCmdline, one character after the other; NUL ends a string.   *)
(* CmdlineUnspaced forgets the space between two arguments.                *)
NUL == "NUL"
CmdlineStart == [exe |-> <<>>, args |-> <<>>, did_exe |-> FALSE, completed |-> FALSE]
CmdlineUnspaced(s, c) ==
  IF c # NUL THEN [s EXCEPT !.args = Append(@, c), !.completed = FALSE]
  ELSE IF s.did_exe THEN [s EXCEPT !.completed = TRUE]
  ELSE [s EXCEPT !.exe = s.args, !.args = <<>>, !.did_exe = TRUE]

CmdlineStep(s, c) ==
  IF c # NUL THEN [s EXCEPT !.args = @ \o (IF s.completed THEN <<" ", c>> ELSE <<c>>),
                            !.completed = FALSE]
  ELSE IF s.did_exe THEN [s EXCEPT !.completed = TRUE]
  ELSE [s EXCEPT !.exe = s.args, !.args = <<>>, !.did_exe = TRUE]

ReadProcessCmdline(chars) ==
  LET end == FoldLeft(CmdlineStep, CmdlineStart, chars) IN [exe |-> end.exe, args |-> end.args]

-----------------------------------------------------------------------------
(* What the kernel writes: an address as the numbers its words are on a    *)
(* little-endian host, a port as a number.                                 *)
Hex(byte) == <<byte \div 16, byte % 16>>
WordTurned(bytes, i) == bytes[4 * ((i - 1) \div 4) + 4 - ((i - 1) % 4)]
Printed(address, port) ==
  FlattenSeq([i \in DOMAIN address |-> Hex(WordTurned(address, i))])
    \o <<Colon>> \o Hex(port \div 256) \o Hex(port % 256)
PrintedLine(local, remote, state, inode) ==
  << <<0, Colon>>, Printed(local.address, local.port), Printed(remote.address, remote.port),
     Hex(state), <<0, Colon, 0>>, <<0>>, <<0>>, <<0>>, <<0>>, inode, <<1>> >>

(* A line the kernel wrote is read as the connection it was written for,   *)
(* with every byte in its place, and a line cut off before the inode       *)
(* (fgets reads 511 characters), or in an address or the state, is not     *)
(* read as another one.  (One cut off within the inode is: its digits that *)
(* are left are a number.)                                                 *)
LinesReadBack(local, remote, state, inode, family) ==
  LET line == PrintedLine(local, remote, state, inode)
      e(x) == [ok |-> TRUE, address |-> x.address, port |-> x.port]
  IN  /\ ParseConnLine(line, family) =
           [ok |-> TRUE, local |-> e(local), remote |-> e(remote), state |-> state,
            inode |-> Decimal(inode)]
      /\ \A k \in 1..9 : ParseConnLine(SubSeq(line, 1, k), family) = NoLine
      /\ \A k \in 2..4 : \A cut \in 0..(Len(line[k]) - 1) :
           ParseConnLine([line EXCEPT ![k] = SubSeq(@, 1, cut)], family) = NoLine

(* Both ends of a connection, in the order the kernel lists sockets: the   *)
(* end that listens, on its address or on any, is read as the server,      *)
(* whatever the ports; when nothing listens any more at most one end is.   *)
(* An established connection without an inode is not read.                 *)
EndsAreTold(a, b, listener, family) ==
  LET any == [address |-> [k \in DOMAIN a.address |-> 0], port |-> a.port]
      none == [any EXCEPT !.port = 0]
      above == CASE listener = "none" -> <<>>
                 [] listener = "exact" -> <<PrintedLine(a, none, TCP_LISTEN, <<7>>)>>
                 [] listener = "any" -> <<PrintedLine(any, none, TCP_LISTEN, <<7>>)>>
      read == ReadConnectionsFromFile(
                above \o <<PrintedLine(a, b, TCP_ESTABLISHED, <<8>>),
                           PrintedLine(b, a, TCP_ESTABLISHED, <<9>>),
                           PrintedLine(b, a, TCP_ESTABLISHED, <<0>>)>>, family)
      server(i) == \E c \in read.connections : c.inode = i /\ c.is_server
  IN  /\ {c.inode : c \in read.connections} = {8, 9}
      /\ {e.inode : e \in read.endpoints} = (IF listener = "none" THEN {} ELSE {7})
      /\ IF listener = "none" THEN ~(server(8) /\ server(9)) ELSE server(8)

(* The state of a process is the one the kernel wrote, whatever the        *)
(* process calls itself: a name may hold parentheses and spaces.           *)
StateIsRead(name, state) ==
  ExtractProcessState(<<"7", " ", "(">> \o name \o <<")", " ", state, " ", "1">>) = state

(* A process is attributed to the container its cgroup names, whatever     *)
(* comes before the identifier, for the last scope of the path and, when   *)
(* there is none, for the last element; and conmon, which has the          *)
(* container's identifier too, to none.                                    *)
ContainerIsFound(before, sep, id, after) ==
  LET path == before \o <<sep>> \o id \o after
      named == IF before # <<>> /\ Last(before) = "-conmon" THEN <<>> ELSE SubSeq(id, 1, ShortLength)
  IN  \/ after = <<>> /\ ".scope" \in ToSet(before)
      \/ /\ ExtractContainerID(<<"4", ":", "c", ":">> \o path) = named
         /\ ExtractContainerID(<<"0", ":", ":">> \o path) = named

(* The command line is argv[0] and the other arguments with spaces between *)
(* them, for arguments that are not empty.                                 *)
CmdlineIsJoined(argv) ==
  LET chars == FlattenSeq([k \in DOMAIN argv |-> Append(argv[k], NUL)])
      rest == [k \in 1..(Len(argv) - 1) |-> IF k = 1 THEN argv[2] ELSE <<" ">> \o argv[k + 1]]
  IN  ReadProcessCmdline(chars) = [exe |-> argv[1], args |-> FlattenSeq(rest)]
=============================================================================
