---------------------------- MODULE MCCollector -----------------------------
(***************************************************************************)
(* Small instances of the collector's components for TLC.  They share no   *)
(* variable, so a behaviour of all of them is an interleaving of one       *)
(* behaviour of each, and a property of one of them holds of it when it    *)
(* holds while the others stand still: `which` names the component that    *)
(* moves.  The algorithms without a state are evaluated on one input,      *)
(* `case`, per behaviour.                                                  *)
(***************************************************************************)
EXTENDS ProcessPipeline, RateLimitClient, ConfigLoader, ProcfsScraper, NatsClient,
        ProfilerHandler, TLC

VARIABLES which, case

Parser == INSTANCE ConfigParser
Radix == INSTANCE NRadix WITH W <- 2
Net == INSTANCE NetAddress
Procfs == INSTANCE ProcfsParse
Formatter == INSTANCE ProcessSignalFormatter WITH MaxLineage <- 3
Settings == INSTANCE CollectorConfig WITH
  Mantissa <- 4, MinExponent <- 2, MaxPeriod <- 5, MaxServer <- 4

(* compute_process_key tells all processes apart.                          *)
MCKey == [p \in {"p", "x", "self"} |-> p]

(* Three processes in two containers of one pod.                           *)
MCContainerOf == <<"a", "a", "b">>
MCNetnsOf == <<"n", "n", "n">>
MCFileOf == <<"tcp", "tcp6">>

-----------------------------------------------------------------------------
(* Inputs of the algorithms.  A configuration like the collector's: a      *)
(* message with a number, a list and a message that holds an enumeration.  *)
Field(name, type, repeated, fields, values) ==
  [name |-> name, type |-> type, repeated |-> repeated, fields |-> fields, values |-> values]
Inner == <<Field(<<"d">>, "enum", FALSE, <<>>, {"BOTH", "INGRESS"})>>
Schema == <<Field(<<"n">>, "message", FALSE,
                  <<Field(<<"m", "_", "c">>, "int64", FALSE, <<>>, {}),
                    Field(<<"e", "_", "i">>, "message", FALSE, Inner, {}),
                    Field(<<"a">>, "string", TRUE, <<>>, {})>>, {})>>
Configured(number, direction, list) ==
  <<"n">> :> (<<"m", "_", "c">> :> number @@ <<"e", "_", "i">> :> (<<"d">> :> direction)
              @@ <<"a">> :> list)

Choices(key, nodes) == {{}} \cup {{<<key, n>>} : n \in nodes}
MapOf(pairs) == Parser!Map([k \in {p[1] : p \in pairs} |-> (CHOOSE p \in pairs : p[1] = k)[2]])
Words(S) == {Parser!Scalar(s) : s \in S}
Directions == {MapOf(c) : c \in Choices(<<"d">>, Words({"both", "up"}) \cup {Parser!Sequence(<<>>)})}
Networkings(number, direction, other) ==
  {MapOf(c \cup d \cup e \cup f) :
     c \in Choices(number, Words({"7", "many"}) \cup {Parser!Null}),
     d \in Choices(direction, Directions \cup {Parser!Null, Parser!Scalar("both")}),
     e \in Choices(<<"a">>, {Parser!Sequence(<<Parser!Scalar("x"), Parser!Scalar("y")>>),
                             Parser!Sequence(<<Parser!Null>>), Parser!Scalar("x")}),
     f \in Choices(other, {Parser!Scalar("7"), MapOf({})})}
Documents == {Parser!Null, Parser!Scalar("n"), MapOf({})}
  \cup {MapOf({<< <<"n">>, d>>}) :
          d \in {Parser!Null, Parser!Scalar("7")}
                \cup Networkings(<<"m", "C">>, <<"e", "I">>, <<"b">>)
                \cup Networkings(<<"m", "_", "c">>, <<"e", "_", "i">>, <<"m", "C">>)}

(* The bits behind the prefix are all 0, or all 1.                         *)
Nets(bit) ==
  {net \in Radix!Nets("v6") \cup Radix!Nets("v4") :
     \A k \in (net.bits + 1)..Radix!Length(net.family) :
       net.address[((k - 1) \div 2) + 1][((k - 1) % 2) + 1] = bit}

(* IPv4 addresses on both sides of the bounds of the private networks, and *)
(* the remote ends of connections: an address, a network or neither.       *)
IPv4Bytes == {<<a, b, 0, d>> : a \in {0, 9, 10, 11, 99, 100, 127, 169, 172, 192, 255},
                               b \in {0, 15, 16, 31, 32, 63, 64, 127, 128, 167, 168, 253, 254},
                               d \in {0, 255}}
Remotes ==
  {Net!IPNet(a, bits, is_addr) :
     a \in {Net!NoAddress, Net!Address("IPV4", <<10, 0, 0, 0>>), Net!Address("IPV4", <<10, 1, 0, 0>>),
           Net!Address("IPV6", <<10>> \o Net!Zeros(15)), Net!Address("IPV6", Net!Zeros(16))},
     bits \in {0, 8, 16, 32, 128}, is_addr \in BOOLEAN}
Connected(remote, port) ==
  Net!Connection("c", Net!Endpoint(Net!IPNet(Net!NoAddress, 0, FALSE), 0),
                 Net!Endpoint(remote, port), "TCP", FALSE)

IPv4 == {<<127, 0, 0, 1>>, <<10, 0, 200, 255>>}
IPv6 == {[k \in 1..16 |-> 15 * k]}
Endpoints(addresses, ports) == [address : addresses, port : ports]
FamilyOf(e) == IF Len(e.address) = 4 THEN "v4" ELSE "v6"
Strings(chars, n) == UNION {[1..k -> chars] : k \in 0..n}
Arguments == Strings({"a", " "}, 2) \ {<<>>}

(* A process and its ancestors: in the container, of it though its pid is  *)
(* unknown there, and outside in the ways the kernel and /proc show.       *)
Thread(pid, vpid, container, path, ancestors) ==
  [pid |-> pid, vpid |-> vpid, container |-> container, comm |-> <<"a">>, exepath |-> path,
   args |-> <<>>, uid |-> pid, main_thread |-> "self", ancestors |-> ancestors]
Ancestors ==
  {Thread(pid, id[1], id[2], path, <<>>) :
     pid \in {7}, path \in {<<"a">>, <<"a", "a">>},
     id \in {<<3, "b">>, <<0, "b">>, <<0, "">>, <<7, "b">>, <<-1, "b">>}}
  \cup {Thread(0, 0, "b", <<"a">>, <<>>)}
Bytes == {"a", "2", "3", "c", "x"}
NameTexts == {<<>>, Formatter!NA, <<"a">>, <<"a", "x">>, <<"2", "a">>}
ArgTexts == {<<>>, <<"a">>, <<"2">>, <<"c">>}

(* A command line and an environment.                                      *)
Json(level, interval, off, tls, other) ==
  [logLevel |-> level, scrapeInterval |-> interval, turnOffScrape |-> off, tlsConfig |-> tls,
   other |-> other]
Jsons == {Json(<<>>, <<>>, <<>>, <<>>, TRUE), Json(<<"unknown">>, <<9>>, <<TRUE>>, <<>>, FALSE),
          Json(<<>>, <<>>, <<FALSE>>, << << <<"j">>, <<"j">>, <<"">> >> >>, FALSE)}
Servers == {<<>>, <<":">>, <<"h", ":", "p">>, <<"h", "h">>, <<"h", ":", "p", "p", "p">>}
Configs == {Settings!Unset, Settings!Malformed} \cup {<<j>> : j \in Jsons}
Option(name, json, server, method) ==
  [name |-> name, config |-> json, server |-> server, method |-> method]
Options == {Option("collector-config", c, <<>>, <<>>) : c \in Configs}
  \cup {Option("grpc-server", <<>>, s, <<>>) : s \in Servers}
  \cup {Option("collection-method", <<>>, <<>>, m) : m \in {<<>>, <<"ebpf">>, <<"e">>}}
  \cup {Option(n, <<>>, <<>>, <<>>) : n \in {"help", "unknown"}}
Variables ==
  [config |-> Configs, logLevel |-> {<<>>, <<"debug">>, <<"unknown">>},
   scrapeInterval |-> {<<>>, <<5>>, Settings!Malformed}, scrapeOff |-> {<<>>, <<"">>, <<"true">>},
   method |-> {<<>>, <<"ebpf">>}, grpc |-> Servers, certs |-> {<<>>, <<"certs">>},
   ca |-> {<<>>, <<"c">>}, cert |-> {<<>>, <<"c">>}, key |-> {<<>>, <<"c">>},
   afterglow |-> BOOLEAN, afterglowPeriod |-> {<<>>, <<-1>>, <<9>>, Settings!Malformed}]
Environments ==
  LET unset == [v \in DOMAIN Variables |-> IF v = "afterglow" THEN TRUE ELSE <<>>]
      set == [unset EXCEPT !.logLevel = <<"debug">>, !.scrapeInterval = <<5>>,
                           !.scrapeOff = <<"true">>, !.method = <<"ebpf">>,
                           !.grpc = <<"h", ":", "p">>, !.certs = <<"certs">>, !.ca = <<"c">>]
  IN {[e EXCEPT !.config = c] : e \in {unset, set}, c \in Configs}
Host(version, build, el7, btf) ==
  [os |-> "rhel", el7 |-> el7, version |-> version, build_id |-> build, btf |-> btf,
   ringbuf |-> -1, tracing |-> 1, distro |-> "Linux", ppc64le |-> FALSE, cpus |-> -1]
Hosts == {Host(<<3, 10>>, 957, TRUE, TRUE), Host(<<4, 18>>, 400, FALSE, FALSE),
          Host(<<6, 1>>, 0, FALSE, TRUE)}
NetworkTexts == [family : {"v4", "v6", "none"},
                 prefix : {<<>>, <<0>>, <<8>>, <<33>>, <<-1>>, Settings!Malformed}]

Case(alg, x, y, z) == [alg |-> alg, x |-> x, y |-> y, z |-> z]
NoCase == Case("none", 0, 0, 0)
Cases ==
  \/ \E d \in Documents : case = Case("config", d, 0, 0)
  \/ \E n1 \in Nets(0), n2 \in Nets(1) :
       Radix!FamiliesApart({n1, n2}) /\ case = Case("radix", <<n1, n2>>, 0, 0)
  \/ \E bytes \in IPv4Bytes : case = Case("address", bytes, 0, 0)
  \/ \E r \in Remotes : case = Case("remote", r, 0, 0)
  \/ \E A \in {IPv4, IPv6} : \E a, b \in Endpoints(A, {80, 43981}) :
       \E s \in {1, 6, 10} : case = Case("line", a, b, s)
  \/ \E a \in Endpoints({<<127, 0, 0, 1>>}, {80, 1024, 5000, 40000, 50000}) :
     \E b \in Endpoints({<<10, 0, 0, 1>>}, {80, 1024, 5000, 40000, 50000}) :
       \E l \in {"none", "exact", "any"} : case = Case("ends", a, b, l)
  \/ \E name \in Strings({"a", ")", " "}, 3), s \in {"R", "Z"} : case = Case("state", name, s, 0)
  \/ \E before \in Strings({"/", "-", "a", ":", ".scope", "-conmon"}, 2), sep \in {"/", "-"},
        id \in [1..3 -> {"0", "a"}] : case = Case("cgroup", before, sep, id)
  \/ \E n \in 1..3 : \E argv \in [1..n -> Arguments] : case = Case("cmdline", argv, 0, 0)
  \/ \E s \in Strings(Bytes, 4) : case = Case("utf8", s, 0, 0)
  \/ \E comm, path \in NameTexts, args \in Strings(ArgTexts, 2) :
       case = Case("process", comm, path, args)
  \/ \E chain \in Strings(Ancestors, 4) : case = Case("lineage", chain, 0, 0)
  \/ \E n \in 0..2 : \E argv \in [1..n -> Options] : \E env \in Environments :
       case = Case("settings", argv, env, 0)
  \/ \E period \in {<<n>> : n \in -2..7} : case = Case("afterglow", period, 0, 0)
  \/ \E list \in Strings(NetworkTexts, 2) : case = Case("networks", list, 0, 0)
  \/ \E total \in 1..70, cpus \in 1..9 : case = Case("buffers", total, cpus, 0)

-----------------------------------------------------------------------------
mcVars == <<which, case, loaderVars, scraperVars, vars, limiterVars, natsVars, profilerVars>>

(* A component that stands still does so in one of its initial states.     *)
MCInit ==
  /\ which \in {"loader", "scraper", "pipeline", "limiter", "nats", "profiler", "case"}
  /\ LoaderInit /\ (which # "loader" => entry = 0 /\ target = 0)
  /\ ScraperInit /\ (which # "scraper" => held = {} /\ hasTcp6)
  /\ Init /\ (which # "pipeline" => table = {})
  /\ LimiterInit
  /\ NatsInit /\ (which # "nats" => broker)
  /\ ProfilerInit
  /\ IF which = "case" THEN Cases ELSE case = NoCase

MCNext ==
  \/ /\ which = "loader" /\ LoaderNext
     /\ UNCHANGED <<which, case, scraperVars, vars, limiterVars, natsVars, profilerVars>>
  \/ /\ which = "scraper" /\ ScraperNext
     /\ UNCHANGED <<which, case, loaderVars, vars, limiterVars, natsVars, profilerVars>>
  \/ /\ which = "pipeline" /\ Next
     /\ UNCHANGED <<which, case, loaderVars, scraperVars, limiterVars, natsVars, profilerVars>>
  \/ /\ which = "limiter" /\ LimiterNext
     /\ UNCHANGED <<which, case, loaderVars, scraperVars, vars, natsVars, profilerVars>>
  \/ /\ which = "nats" /\ NatsNext
     /\ UNCHANGED <<which, case, loaderVars, scraperVars, vars, limiterVars, profilerVars>>
  \/ /\ which = "profiler" /\ ProfilerNext
     /\ UNCHANGED <<which, case, loaderVars, scraperVars, vars, limiterVars, natsVars>>

MCSpec == MCInit /\ [][MCNext]_mcVars

-----------------------------------------------------------------------------
(* Properties put together from those of their components; the extended   *)
(* components' stand as they are there.                                    *)

DefaultConfig == Configured("9", "BOTH", <<>>)
InForce == Configured("-7", "INGRESS", <<"z">>)

(* NRadixTree: Find returns the smallest network that contains the query,  *)
(* and IsAnyIPNetSubset tells whether a network of one tree is in the      *)
(* other, as long as no network of one family lies on the way to one of    *)
(* the other (FamiliesApart).  Addresses are judged alike in both families' forms (IsPublic,   *)
(* IsLocal), and connections that are kept apart are reported apart        *)
(* (ConnToProto).                                                          *)
NetworksAreFound ==
  /\ case.alg = "radix" =>
       \A q \in Nets(0) : Radix!FamiliesApart({case.x[1], case.x[2], q}) =>
         /\ Radix!FindsSmallest(case.x, q)
         /\ \A family \in {"none", case.x[1].family} : Radix!TellsSubsets(family, case.x, <<q>>)
  /\ case.alg = "address" => Net!FormsAgree(case.x)
  /\ case.alg = "remote" =>
       \A other \in Remotes, port \in {0, 80} :
         Net!MessagesTellApart(Connected(case.x, 80), Connected(other, port))

(* ProcfsScraper.cpp reads from net/tcp, stat, cgroup and cmdline what the *)
(* kernel wrote there: every line as the connection it was written for,    *)
(* the end that listens as the server, the state whatever the process is   *)
(* called, the container but not for conmon, and the arguments.            *)
ProcIsReadBack ==
  /\ case.alg = "line" =>
       \A inode \in {<<0>>, <<4, 2>>} :
         Procfs!LinesReadBack(case.x, case.y, case.z, inode, FamilyOf(case.x))
  /\ case.alg = "ends" => Procfs!EndsAreTold(case.x, case.y, case.z, "v4")
  /\ case.alg = "state" => Procfs!StateIsRead(case.x, case.y)
  /\ case.alg = "cgroup" =>
       \A after \in {<<>>, <<".scope">>, <<".scope", "/", "c">>} :
         Procfs!ContainerIsFound(case.x, case.y, case.z, after)
  /\ case.alg = "cmdline" => Procfs!CmdlineIsJoined(case.x)

ReportedProcess ==
  [Thread(7, 3, "b", case.y, <<Thread(2, 1, "b", <<"a">>, <<>>)>>)
     EXCEPT !.comm = case.x, !.args = case.z]

(* ProcessSignalFormatter: an execve and a scrape report a process alike,  *)
(* with a usable name and path or not at all; its lineage ends where its   *)
(* container does; and SanitizedUTF8 repairs any string and no valid one.  *)
ProcessIsReported ==
  /\ case.alg = "utf8" => Formatter!SanitizedIsValid(case.x)
  /\ case.alg = "process" =>
       /\ Formatter!NamesAreUsable(ReportedProcess)
       /\ \A m \in {"self", "none"} :
            Formatter!ExecAndScrapeAgree([ReportedProcess EXCEPT !.main_thread = m])
  /\ case.alg = "lineage" => Formatter!LineageIsRight(Thread(9, 4, "b", <<"a">>, case.x))

(* ParserYaml: a document with a field of the wrong type changes nothing,  *)
(* any other replaces the configuration by what it says; the strict modes  *)
(* accept no document with a key nobody reads.  InitCollectorConfig: a     *)
(* variable of the environment changes no setting but its own, and none    *)
(* that the command line sets; afterglow has a period within its limits;   *)
(* a network with an address and a prefix that fits it is read as it is    *)
(* written, whatever stands beside it; and the ring buffers keep their     *)
(* limit, and use it.                                                      *)
SettingsAreRight ==
  /\ case.alg = "config" =>
       /\ Parser!LoadReadsAsWritten(InForce, DefaultConfig, case.x, Schema)
       /\ \A m \in {"STRICT", "PERMISSIVE", "UNKNOWN_FIELDS_ONLY"}, camel \in BOOLEAN :
            Parser!UnknownKeysReported(DefaultConfig, case.x, Schema, m, camel)
  /\ case.alg = "settings" =>
       \A name \in DOMAIN Variables : \A value \in Variables[name] : \A host \in Hosts :
         Settings!SettingsKeepApart(case.x, case.y, name, value, host)
  /\ case.alg = "afterglow" =>
       \A on \in BOOLEAN :
         Settings!AfterglowIsBounded([afterglowPeriod |-> case.x, afterglow |-> on])
  /\ case.alg = "networks" => Settings!NetworksAsWritten(case.x)
  /\ case.alg = "buffers" =>
       \A per \in {<<>>, <<0>>, <<1>>, <<2>>, <<4>>, Settings!Malformed},
          size \in {2, 4, 8, 32, 64, 24} :
         Settings!BuffersFit(
           Settings!SinspSettings([cpuPerBuffer |-> per, bufferSize |-> <<size>>,
                                   totalBufferSize |-> <<case.x>>],
                                  [cpu_per_buffer |-> 1, buffer_size |-> 8,
                                   total_buffer_size |-> 64]),
           case.y)
=============================================================================
