----------------------- MODULE ProcessSignalFormatter -----------------------
(***************************************************************************)
(* The message the collector sends for a process: SanitizedUTF8, the two   *)
(* CreateProcessSignal (of an execve event, and of a thread found in /proc *)
(* when a stream starts) and GetProcessLineage.                            *)
(*                                                                         *)
(* A string is a sequence of bytes, a byte one of five classes: "a" stands *)
(* for itself, "2" and "3" begin a character of two and three bytes, "c"   *)
(* continues one, "x" occurs in no character.  "<NA>" and "?" count as one *)
(* byte.  Ids and times are left out.                                      *)
(***************************************************************************)
EXTENDS Integers, Sequences, SequencesExt, FiniteSetsExt

CONSTANT MaxLineage     \* 10 in the code: the most ancestors of a lineage

NA == <<"<NA>">>

(* No thread: event->get_thread_info(), get_main_thread() return null.     *)
NoThread == [pid |-> -1]

-----------------------------------------------------------------------------
(* utf8_range's notion of a character, and of the longest valid prefix.    *)
IsCharacter(s) ==
  \/ Len(s) = 1 /\ s[1] \in {"a", " ", "?", "<NA>"}
  \/ Len(s) = 2 /\ s[1] = "2" /\ s[2] = "c"
  \/ Len(s) = 3 /\ s[1] = "3" /\ s[2] = "c" /\ s[3] = "c"

SpanStructurallyValid(s) ==
  LET ends[i \in 0..Len(s)] ==
        i = 0 \/ \E w \in 1..3 : i >= w /\ ends[i - w] /\ IsCharacter(SubSeq(s, i - w + 1, i))
  IN Max({i \in 0..Len(s) : ends[i]})

(* After a byte is replaced, `str` moves behind it.  The first form        *)
(* replaces one byte only.                                                 *)
SanitizedUTF8Once(str) ==
  LET len == SpanStructurallyValid(str)
  IN IF len = Len(str) THEN str
     ELSE SubSeq(str, 1, len) \o <<"?">> \o SubSeq(str, len + 2, Len(str))

SanitizedUTF8(str) ==
  LET sanitized[i \in 0..Len(str)] ==
        LET rest == SubSeq(str, i + 1, Len(str))
            len == SpanStructurallyValid(rest)
        IN IF len = Len(rest) THEN rest
           ELSE SubSeq(rest, 1, len) \o <<"?">> \o sanitized[i + len + 1]
  IN sanitized[0]

(* The library's proc.args, and extract_proc_args: a space between two.    *)
Joined(strings) ==
  FlattenSeq([k \in DOMAIN strings |->
                IF k = 1 THEN strings[k] ELSE <<" ">> \o strings[k]])
get_proc_args(tinfo) == Joined(tinfo.args)
extract_proc_args(tinfo) == Joined([k \in DOMAIN tinfo.args |-> SanitizedUTF8(tinfo.args[k])])

-----------------------------------------------------------------------------
(* GetProcessLineage's visitor: where it stops, and what it keeps (KeepOne *)
(* keeps a path once in all).                                              *)
LeavesContainer(pt) ==
  \/ pt.pid = 0
  \/ IF pt.vpid = 0 THEN pt.container = "" ELSE pt.pid = pt.vpid
  \/ pt.vpid = -1

KeepOne(lineage, pt) ==
  IF \A k \in DOMAIN lineage : lineage[k].path # pt.exepath
    THEN Append(lineage, [path |-> pt.exepath, uid |-> pt.uid]) ELSE lineage

Keep(lineage, pt) ==
  IF lineage = <<>> \/ Last(lineage).path # pt.exepath
    THEN Append(lineage, [path |-> pt.exepath, uid |-> pt.uid]) ELSE lineage

(* traverse_parent_state calls the visitor for one ancestor after the      *)
(* other until it returns false.                                           *)
Visit(state, pt) ==
  LET lineage == Keep(state.lineage, pt)
  IN CASE ~state.more -> state
       [] state.more /\ LeavesContainer(pt) -> [state EXCEPT !.more = FALSE]
       [] OTHER -> [lineage |-> lineage, more |-> Len(lineage) < MaxLineage]

GetProcessLineage(tinfo) ==
  IF tinfo = NoThread \/ tinfo.main_thread = "none" THEN <<>>
  ELSE FoldLeft(Visit, [lineage |-> <<>>, more |-> TRUE], tinfo.ancestors).lineage

-----------------------------------------------------------------------------
(* A string the library does not know is empty or "<NA>"; a path stands in *)
(* for a name, and a name for a path.  UsableIfSet takes "<NA>" for one.     *)
UsableIfSet(s) == s # <<>>
Usable(s) == s # <<>> /\ s # NA
Instead(s, t) == CASE Usable(s) -> SanitizedUTF8(s)
                   [] ~Usable(s) /\ Usable(t) -> SanitizedUTF8(t)
                   [] OTHER -> <<>>

CreateProcessSignal(tinfo, disable_process_arguments) ==
  [name |-> Instead(tinfo.comm, tinfo.exepath),
   exec_file_path |-> Instead(tinfo.exepath, tinfo.comm),
   args |-> IF disable_process_arguments THEN <<>> ELSE SanitizedUTF8(get_proc_args(tinfo)),
   scraped |-> FALSE, pid |-> tinfo.pid, uid |-> tinfo.uid, container |-> tinfo.container,
   lineage |-> GetProcessLineage(tinfo)]

(* Of a thread; the first form leaves the lineage out.                     *)
CreateExistingSignalBare(tinfo) ==
  [name |-> Instead(tinfo.comm, tinfo.exepath),
   exec_file_path |-> Instead(tinfo.exepath, tinfo.comm),
   args |-> extract_proc_args(tinfo),
   scraped |-> TRUE, pid |-> tinfo.pid, uid |-> tinfo.uid, container |-> tinfo.container,
   lineage |-> <<>>]

CreateExistingSignal(tinfo) ==
  [name |-> Instead(tinfo.comm, tinfo.exepath),
   exec_file_path |-> Instead(tinfo.exepath, tinfo.comm),
   args |-> extract_proc_args(tinfo),
   scraped |-> TRUE, pid |-> tinfo.pid, uid |-> tinfo.uid, container |-> tinfo.container,
   lineage |-> GetProcessLineage(tinfo)]

ValidateProcessDetails(tinfo) == tinfo # NoThread /\ ~(tinfo.exepath = NA /\ tinfo.comm = NA)

(* nullptr: there is no message.                                           *)
NoMessage == [name |-> NA]

ToProtoMessage(type, tinfo, disable_process_arguments) ==
  IF type # "execve<" \/ ~ValidateProcessDetails(tinfo) THEN NoMessage
  ELSE CreateProcessSignal(tinfo, disable_process_arguments)

ExistingToProtoMessage(tinfo) ==
  IF ~ValidateProcessDetails(tinfo) THEN NoMessage ELSE CreateExistingSignal(tinfo)

-----------------------------------------------------------------------------
(* SanitizedUTF8 returns a string that a protobuf string field may hold    *)
(* (every one of its bytes is part of a character), of the same length,    *)
(* and alters no byte but the ones it replaces by "?".  What was valid is  *)
(* left alone, and only the first byte of what was not is replaced.        *)
SanitizedIsValid(s) ==
  LET t == SanitizedUTF8(s)
  IN /\ SpanStructurallyValid(t) = Len(t)
     /\ Len(t) = Len(s)
     /\ \A k \in DOMAIN s : t[k] # s[k] =>
          t[k] = "?" /\ \A w \in 1..3 : k + w - 1 <= Len(s) => ~IsCharacter(SubSeq(s, k, k + w - 1))

(* A process is reported with the same name, path, arguments, container,   *)
(* user and lineage whether collector saw its execve or found it in /proc, *)
(* and is reported by neither or by both: only the mark `scraped` and, if  *)
(* ROX_COLLECTOR_NO_PROCESS_ARGUMENTS is set, the arguments differ.        *)
ExecAndScrapeAgree(tinfo) ==
  LET exec == ToProtoMessage("execve<", tinfo, FALSE)
      scrape == ExistingToProtoMessage(tinfo)
  IN IF exec = NoMessage THEN scrape = NoMessage
     ELSE scrape # NoMessage /\ exec = [scrape EXCEPT !.scraped = FALSE]

(* A reported process has a name exactly if it has a path, the library's   *)
(* "<NA>" is never reported as one of them, and both are valid strings.    *)
NamesAreUsable(tinfo) ==
  LET m == ExistingToProtoMessage(tinfo)
  IN m # NoMessage =>
       /\ (m.name = <<>>) = (m.exec_file_path = <<>>)
       /\ m.name # NA /\ m.exec_file_path # NA
       /\ \A s \in {m.name, m.exec_file_path, m.args} : SpanStructurallyValid(s) = Len(s)

(* The lineage stops before the first ancestor outside the container (the  *)
(* comment at ProcessSignalFormatter.cpp:339): every entry is an ancestor  *)
(* below it, in order, each differs from the one before, no ancestor below *)
(* the boundary is passed over while there is room, and there are at most  *)
(* MaxLineage.  An ancestor is inside when its pid differs in the pid      *)
(* namespace of its container or, where that is unknown, when it has a     *)
(* container id.                                                           *)
LineageIsRight(tinfo) ==
  LET lineage == GetProcessLineage(tinfo)
      inside(pt) == /\ pt.pid # 0
                    /\ \/ pt.vpid > 0 /\ pt.vpid # pt.pid
                       \/ pt.vpid = 0 /\ pt.container # ""
      below == {n \in 0..Len(tinfo.ancestors) : \A k \in 1..n : inside(tinfo.ancestors[k])}
      path == [k \in 1..Max(below) |-> tinfo.ancestors[k].exepath]
      starts == {k \in DOMAIN path : k = 1 \/ path[k] # path[k - 1]}
  IN tinfo.main_thread # "none" =>
       /\ Len(lineage) = Min({MaxLineage, Cardinality(starts)})
       /\ \A k \in starts : LET n == Cardinality({j \in starts : j <= k})
                            IN n <= MaxLineage => lineage[n] = [path |-> path[k],
                                                                uid |-> tinfo.ancestors[k].uid]
=============================================================================
