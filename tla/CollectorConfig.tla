--------------------------- MODULE CollectorConfig --------------------------
(***************************************************************************)
(* The settings a collector starts with: the command line (CollectorArgs), *)
(* the environment (EnvVar), InitCollectorConfig, the checks of the host,  *)
(* and the size of the ring buffers.                                       *)
(*                                                                         *)
(* An optional value is the empty sequence or a sequence of one; the text  *)
(* of a number may also be Malformed.  A configuration in JSON holds the   *)
(* fields the collector reads, or others.                                  *)
(***************************************************************************)
LOCAL INSTANCE Integers
LOCAL INSTANCE Sequences
LOCAL INSTANCE SequencesExt
LOCAL INSTANCE FiniteSets
LOCAL INSTANCE FiniteSetsExt

CONSTANTS
  Mantissa,       \* bits of a float's significand: 24
  MinExponent,    \* of the smallest ring buffer: 14
  MaxPeriod,      \* the longest afterglow period: 300 seconds
  MaxServer       \* the longest address of a server: 255

Unset == <<>>
Malformed == <<0, 0>>
Or(option, default) == IF option = Unset THEN default ELSE option

(* CheckGrpcServer.                                                        *)
CheckGrpcServer(server) ==
  LET marker == SelectInSeq(server, LAMBDA c : c = ":")
  IN CASE server = Unset -> "ARG_IGNORE"
       [] server # Unset /\ (Len(server) > MaxServer \/ marker \in {0, 1, Len(server)})
            -> "ARG_ILLEGAL"
       [] OTHER -> "ARG_OK"

(* CheckConfiguration: no text, text that is not JSON, or JSON.            *)
EmptyJson == [logLevel |-> Unset, scrapeInterval |-> Unset, turnOffScrape |-> Unset,
              tlsConfig |-> Unset, other |-> FALSE]
CheckConfiguration(config) == CASE config = Unset -> "ARG_IGNORE"
                                [] config = Malformed -> "ARG_ILLEGAL"
                                [] OTHER -> "ARG_OK"

ParseCollectionMethod(method) == IF method = "ebpf" THEN "ebpf" ELSE "core_bpf"

-----------------------------------------------------------------------------
(* CollectorArgs: the parser checks one option after the other and stops   *)
(* at one that is illegal.                                                 *)
NoArgs == [error |-> FALSE, exit |-> FALSE, config |-> EmptyJson, method |-> Unset, grpc |-> Unset]

CheckOption(args, option) ==
  LET status == IF option.name = "collector-config" THEN CheckConfiguration(option.config)
                ELSE CheckGrpcServer(option.server)
  IN CASE args.error -> args
       [] ~args.error /\ option.name = "collection-method" ->
            IF option.method = Unset THEN args
            ELSE [args EXCEPT !.method = <<ParseCollectionMethod(option.method[1])>>]
       [] ~args.error /\ option.name \in {"help", "unknown"} -> [args EXCEPT !.exit = TRUE]
       [] OTHER ->
            CASE status = "ARG_ILLEGAL" -> [args EXCEPT !.error = TRUE]
              [] status = "ARG_IGNORE" -> args
              [] option.name = "collector-config" /\ status = "ARG_OK" ->
                   [args EXCEPT !.config = option.config[1]]
              [] OTHER -> [args EXCEPT !.grpc = option.server]

parse(argv) == FoldLeft(CheckOption, NoArgs, argv)

-----------------------------------------------------------------------------
(* ParseBool fails on the empty text only.                                 *)
ParseBool(text) == CASE text \in {Unset, <<"">>} -> Unset
                     [] OTHER -> <<text = <<"true">> >>

(* std::stoi throws in an IntEnvVar, which nothing catches; a setting read *)
(* by hand keeps its default.                                              *)
OrDefault(text, default) == IF text \in {Unset, Malformed} THEN default ELSE text[1]

(* The configuration given as JSON: the environment's only if the command  *)
(* line has none.  UserConfigOfEnv prefers the environment's.              *)
UserConfigOfEnv(args, env) ==
  IF CheckConfiguration(env.config) = "ARG_OK" THEN env.config[1] ELSE args.config

UserConfig(args, env) ==
  IF args.config = EmptyJson /\ CheckConfiguration(env.config) = "ARG_OK"
    THEN env.config[1] ELSE args.config

TLS(config, env) ==
  LET paths(ca, cert, key) == <<Or(env.ca, ca), Or(env.cert, cert), Or(env.key, key)>>
  IN CASE config.tlsConfig # Unset -> config.tlsConfig[1]
       [] config.tlsConfig = Unset /\ env.certs # Unset ->
            paths(<<"certs/ca.pem">>, <<"certs/cert.pem">>, <<"certs/key.pem">>)
       [] OTHER -> paths(<<"">>, <<"">>, <<"">>)

(* createChannel: TLS only with a complete configuration.                  *)
IsValid(tls) == \A k \in 1..3 : tls[k] # <<"">>

GrpcServer(args, env) ==
  CASE args.grpc # Unset -> args.grpc
    [] args.grpc = Unset /\ CheckGrpcServer(env.grpc) = "ARG_OK" -> env.grpc
    [] OTHER -> Unset

ScrapeInterval(config, env) == Or(config.scrapeInterval, Or(env.scrapeInterval, <<30>>))

(* HandleAfterglowEnvVars, in seconds.  The first form caps nothing.       *)
HandleAfterglowUncapped(env) ==
  LET period == Or(env.afterglowPeriod, <<MaxPeriod>>)[1]
  IN [period |-> period, enabled |-> period > 0 /\ env.afterglow]

HandleAfterglowEnvVars(env) ==
  LET period == Or(env.afterglowPeriod, <<MaxPeriod>>)[1]
  IN [period |-> Min({period, MaxPeriod}), enabled |-> period > 0 /\ env.afterglow]

(* A set level the logger does not know changes nothing.                   *)
LogLevel(config, env) ==
  LET level == Or(config.logLevel, env.logLevel)
  IN IF level \in {Unset, <<"unknown">>} THEN "info" ELSE level[1]

-----------------------------------------------------------------------------
(* IPNet::parse of an address and the text behind the slash, Unset without *)
(* one.  The prefix is unsigned, and at most as long as an address.        *)
Bits(family) == IF family = "v4" THEN 32 ELSE 128
IPNetParse(net) ==
  LET prefix == OrDefault(net.prefix, 0)
      bits == IF prefix < 0 \/ prefix > Bits(net.family) THEN Bits(net.family) ELSE prefix
  IN IF net.prefix = Malformed \/ net.family = "none" THEN Unset
     ELSE <<[family |-> net.family, bits |-> bits]>>

(* The networks of a list that can be parsed.                              *)
NetworksStop(list) == IF \E k \in DOMAIN list : IPNetParse(list[k]) = Unset THEN <<>>
                      ELSE FlattenSeq([k \in DOMAIN list |-> IPNetParse(list[k])])
Networks(list) == FlattenSeq([k \in DOMAIN list |-> IPNetParse(list[k])])

-----------------------------------------------------------------------------
(* HostInfo and the heuristics.  A probe that fails counts as support.     *)
isRHEL76(host) == host.os \in {"rhel", "centos"} /\ host.el7 /\ host.version = <<3, 10>>
                  /\ host.build_id >= 957
KernelHasEBPFSupport(version) == version[1] > 4 \/ (version[1] = 4 /\ version[2] >= 14)
HasEBPFSupport(host) == isRHEL76(host) \/ KernelHasEBPFSupport(host.version)
Available(probe) == probe # 0

CollectionHeuristic(host, method) ==
  /\ HasEBPFSupport(host)
  /\ method = "core_bpf" => host.btf /\ Available(host.ringbuf) /\ Available(host.tracing)
DockerDesktopHeuristic(host) == host.distro # "Docker Desktop"
PowerHeuristic(host) == ~(host.ppc64le /\ host.version = <<4, 18>> /\ host.build_id < 477)
NumPossibleCPU(host) == IF host.cpus < 0 THEN 0 ELSE host.cpus
ProcessHostHeuristics(host, method) ==
  CollectionHeuristic(host, method) /\ DockerDesktopHeuristic(host) /\ PowerHeuristic(host)

-----------------------------------------------------------------------------
(* GetSinspBufferSize computes with floats: a number is rounded to the     *)
(* nearest that has a significand of Mantissa bits, halves to even.        *)
Exponent(x) == Max({k \in 0..30 : 2^k <= x})
Nearest(a, b) ==
  LET q == a \div b
      r == a % b
  IN IF 2 * r > b \/ (2 * r = b /\ q % 2 = 1) THEN q + 1 ELSE q
ToFloat(x) ==
  IF x < 2^Mantissa THEN x
  ELSE LET ulp == 2^(Exponent(x) - Mantissa + 1) IN Nearest(x, ulp) * ulp
CeilOfRatio(a, b) ==
  LET e == Exponent(a \div b)
      ulp == 2^(e - Mantissa + 1)
      scale == 2^(Mantissa - 1 - e)
  IN CASE a < b -> 1
       [] a >= b /\ e >= Mantissa -> Nearest(a, b * ulp) * ulp
       [] OTHER -> (Nearest(a * scale, b) + scale - 1) \div scale

(* HandleSinspEnvVars.                                                     *)
SinspSettings(env, defaults) ==
  [cpu_per_buffer |-> OrDefault(env.cpuPerBuffer, defaults.cpu_per_buffer),
   buffer_size |-> OrDefault(env.bufferSize, defaults.buffer_size),
   total_buffer_size |-> OrDefault(env.totalBufferSize, defaults.total_buffer_size)]

(* The first form rounds the number of buffers down.                       *)
GetSinspBufferSizeFloor(sinsp, cpus) ==
  LET n_buffers == IF cpus < sinsp.cpu_per_buffer THEN 1 ELSE cpus \div sinsp.cpu_per_buffer
      max_buffer_size == CeilOfRatio(ToFloat(sinsp.total_buffer_size), ToFloat(n_buffers))
  IN IF 0 \in {sinsp.total_buffer_size, sinsp.cpu_per_buffer, cpus} THEN sinsp.buffer_size
     ELSE Min({sinsp.buffer_size, 2^Max({MinExponent, Exponent(max_buffer_size)})})

GetSinspBufferSize(sinsp, cpus) ==
  LET n_buffers == CeilOfRatio(ToFloat(cpus), ToFloat(sinsp.cpu_per_buffer))
      max_buffer_size == CeilOfRatio(ToFloat(sinsp.total_buffer_size), ToFloat(n_buffers))
  IN IF 0 \in {sinsp.total_buffer_size, sinsp.cpu_per_buffer, cpus} THEN sinsp.buffer_size
     ELSE Min({sinsp.buffer_size, 2^Max({MinExponent, Exponent(max_buffer_size)})})

-----------------------------------------------------------------------------
(* InitCollectorConfig, for a command line that was accepted.  The two     *)
(* settings in an EnvVar of a number abort the collector when they are     *)
(* malformed and read, and so does a JSON field of the wrong type.         *)
Throws(config, env) == Malformed \in {ScrapeInterval(config, env), env.afterglowPeriod}

InitCollectorConfig(args, env, host) ==
  LET config == UserConfig(args, env)
      method == Or(args.method, IF env.method = Unset THEN <<"core_bpf">>
                                ELSE <<ParseCollectionMethod(env.method[1])>>)[1]
  IN IF args.error \/ args.exit \/ Throws(config, env) \/ ~ProcessHostHeuristics(host, method)
     THEN Unset
     ELSE <<[log_level |-> LogLevel(config, env),
             scrape_interval |-> ScrapeInterval(config, env)[1],
             turn_off_scrape |-> Or(config.turnOffScrape, Or(ParseBool(env.scrapeOff), <<FALSE>>))[1],
             collection_method |-> method,
             tls |-> IsValid(TLS(config, env)),
             grpc_server |-> GrpcServer(args, env),
             afterglow |-> HandleAfterglowEnvVars(env),
             cpus |-> NumPossibleCPU(host)]>>
-----------------------------------------------------------------------------
(* The settings an environment variable is there for.                      *)
Owns == [config |-> {"log_level", "scrape_interval", "turn_off_scrape", "tls"},
         logLevel |-> {"log_level"}, scrapeInterval |-> {"scrape_interval"},
         scrapeOff |-> {"turn_off_scrape"}, method |-> {"collection_method"},
         grpc |-> {"grpc_server"}, certs |-> {"tls"}, ca |-> {"tls"}, cert |-> {"tls"},
         key |-> {"tls"}, afterglow |-> {"afterglow"}, afterglowPeriod |-> {"afterglow"}]

(* InitCollectorConfig: whatever else is set, a variable of the            *)
(* environment changes the settings it is there for and no other, and one  *)
(* that the command line sets as well, or hides, changes nothing: neither  *)
(* GRPC_SERVER nor COLLECTION_METHOD nor COLLECTOR_CONFIG.                 *)
SettingsKeepApart(argv, env, name, value, host) ==
  LET args == parse(argv)
      r1 == InitCollectorConfig(args, env, host)
      r2 == InitCollectorConfig(args, [env EXCEPT ![name] = value], host)
      changed == {s \in DOMAIN r1[1] : r1[1][s] # r2[1][s]}
  IN r1 # Unset /\ r2 # Unset =>
       /\ changed \subseteq Owns[name]
       /\ \/ name = "grpc" /\ args.grpc # Unset
          \/ name = "method" /\ args.method # Unset
          \/ name = "config" /\ args.config # EmptyJson
          => changed = {}

(* HandleAfterglowEnvVars: afterglow is on only with a period above 0 and  *)
(* not above five minutes, as ConnTracker's afterglow needs.               *)
AfterglowIsBounded(env) ==
  LET a == HandleAfterglowEnvVars(env) IN a.enabled => a.period \in 1..MaxPeriod

(* ROX_IGNORE_NETWORKS and ROX_NON_AGGREGATED_NETWORKS: one entry that     *)
(* cannot be parsed costs no other its place, and a prefix that fits its   *)
(* address is kept as it was written.  (An entry without a slash is        *)
(* another matter: it becomes the network of all addresses.)               *)
NetworksAsWritten(list) ==
  LET good == SelectSeq(list, LAMBDA n : n.family # "none" /\ n.prefix # Malformed)
  IN /\ Len(Networks(list)) = Len(good)
     /\ \A k \in DOMAIN good : good[k].prefix # Unset /\ good[k].prefix[1] \in 0..Bits(good[k].family)
          => Networks(list)[k] = [family |-> good[k].family, bits |-> good[k].prefix[1]]

(* GetSinspBufferSize: the size is the one asked for or a smaller power of *)
(* two.  All buffers together keep the limit, up to the roundings of the   *)
(* floats and one byte per buffer, unless the buffers have the smallest    *)
(* size the driver takes; and a size is halved only as long as it must be. *)
BuffersFit(sinsp, cpus) ==
  LET size == GetSinspBufferSize(sinsp, cpus)
      n == (cpus + sinsp.cpu_per_buffer - 1) \div sinsp.cpu_per_buffer
      unit == 2^(Mantissa - 1)
  IN sinsp.cpu_per_buffer > 0 /\ sinsp.total_buffer_size > 0 /\ cpus > 0 =>
       /\ size <= sinsp.buffer_size
       /\ size < sinsp.buffer_size => size = 2^Exponent(size) /\ size >= 2^MinExponent
       /\ size > 2^MinExponent => n * size * unit <= (sinsp.total_buffer_size + n) * (unit + 2)
       /\ size < sinsp.buffer_size => 2 * n * size * (unit + 2) > sinsp.total_buffer_size * unit
=============================================================================
