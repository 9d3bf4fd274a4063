---------------------------- MODULE ConfigParser ----------------------------
(***************************************************************************)
(* How a YAML document becomes the runtime configuration: ParserYaml       *)
(* (collector/collector/lib/ConfigLoader.cpp).                             *)
(*                                                                         *)
(* A node is a record: its type, the scalar, the items of a sequence and   *)
(* the entries of a map.  A descriptor is a sequence of fields, each with  *)
(* its name, its type, whether it is repeated and, for a message, its own  *)
(* fields.  Names are sequences of characters, because a document and a    *)
(* descriptor spell them differently.  A message is the function that      *)
(* gives its fields' values, nested messages included.                     *)
(***************************************************************************)
LOCAL INSTANCE Integers
LOCAL INSTANCE Sequences
LOCAL INSTANCE SequencesExt
LOCAL INSTANCE FiniteSets

Letters == <<"a", "b", "c", "d", "e", "i", "m", "n">>
Capitals == <<"A", "B", "C", "D", "E", "I", "M", "N">>
IsUpper(c) == \E k \in DOMAIN Capitals : Capitals[k] = c
ToUpper(c) == IF \E k \in DOMAIN Letters : Letters[k] = c
              THEN Capitals[CHOOSE k \in DOMAIN Letters : Letters[k] = c] ELSE c
ToLower(c) == IF IsUpper(c)
              THEN Letters[CHOOSE k \in DOMAIN Capitals : Capitals[k] = c] ELSE c

(* An underscore is dropped and what follows it is a capital.              *)
SnakeCaseToCamel(s) ==
  LET kept == {k \in DOMAIN s : s[k] # "_"}
      char(k) == IF k > 1 /\ s[k - 1] = "_" THEN ToUpper(s[k]) ELSE s[k]
      place == SetToSortSeq(kept, <)
  IN  [k \in DOMAIN place |-> char(place[k])]

CamelCaseToSnake(s) ==
  FoldLeft(LAMBDA out, c : out \o (IF out # <<>> /\ IsUpper(c) THEN <<"_">> ELSE <<>>)
                               \o <<ToLower(c)>>, <<>>, s)

-----------------------------------------------------------------------------
(* Nodes.                                                                  *)
Node(type, scalar, items, entries) ==
  [type |-> type, scalar |-> scalar, items |-> items, entries |-> entries]
Null == Node("Null", "", <<>>, <<>>)
Scalar(v) == Node("Scalar", v, <<>>, <<>>)
Sequence(ns) == Node("Sequence", "", ns, <<>>)
Map(f) == Node("Map", "", <<>>, f)
Has(node, key) == node.type = "Map" /\ key \in DOMAIN node.entries

(* TryConvert: which scalars yaml-cpp reads as which type.  Anything but a *)
(* scalar is no value.                                                     *)
Numbers == {"-7", "7", "9"}
Reads(type, scalar) ==
  CASE type \in {"int32", "int64", "double", "float"} -> scalar \in Numbers
    [] type \in {"uint32", "uint64"} -> scalar \in Numbers \ {"-7"}
    [] type = "bool" -> scalar \in {"true", "false"}
    [] type = "string" -> TRUE
TryConvert(type, node) == node.type = "Scalar" /\ Reads(type, node.scalar)

(* Enumerators are upper case; documents write them as they like.          *)
Upper(v) == CASE v = "both" -> "BOTH" [] v = "ingress" -> "INGRESS" [] OTHER -> v
IsEnumerator(field, node) == Upper(node.scalar) \in field.values

(* Results: a value, and the errors met on the way.                        *)
Fails(what, name) == <<[what |-> what, name |-> name]>>

ParseScalar(old, node, field) ==
  CASE field.type = "bytes" ->
         [value |-> old, errors |-> Fails("unexpected", field.name)]
    [] field.type = "enum" ->
         IF IsEnumerator(field, node)
         THEN [value |-> Upper(node.scalar), errors |-> <<>>]
         ELSE [value |-> old, errors |-> Fails("enum", field.name)]
    [] OTHER ->
         IF TryConvert(field.type, node)
         THEN [value |-> node.scalar, errors |-> <<>>]
         ELSE [value |-> old, errors |-> Fails("conversion", field.name)]

(* The items that convert are kept, each of the others is an error.        *)
ParseArrayInner(node, field) ==
  LET good(n) == TryConvert(field.type, n)
  IN  [value |-> [k \in DOMAIN SelectSeq(node.items, good) |->
                    SelectSeq(node.items, good)[k].scalar],
       errors |-> [k \in DOMAIN SelectSeq(node.items, LAMBDA n : ~good(n)) |->
                     [what |-> "conversion", name |-> field.name]]]

ParseArrayEnum(node, field) ==
  LET good(n) == TryConvert("string", n) /\ IsEnumerator(field, n)
  IN  [value |-> [k \in DOMAIN SelectSeq(node.items, good) |->
                    Upper(SelectSeq(node.items, good)[k].scalar)],
       errors |-> [k \in DOMAIN SelectSeq(node.items, LAMBDA n : ~good(n)) |->
                     [what |-> "enum", name |-> field.name]]]

ParseArray(old, node, field) ==
  CASE field.type = "enum" -> ParseArrayEnum(node, field)
    [] field.type \in {"message", "bytes"} ->
         [value |-> old, errors |-> Fails("unsupported", field.name)]
    [] OTHER -> ParseArrayInner(node, field)

(* The name a field has in the document.                                   *)
Spelled(field, camel) == IF camel THEN SnakeCaseToCamel(field.name) ELSE field.name

(* Parse(msg, node, field, path) and, for the fields of a message in turn, *)
(* the loop around it; both return the message and the errors.             *)
RECURSIVE ParseFields(_, _, _, _, _)
ParseField(msg, node, field, mode, camel) ==
  LET name == Spelled(field, camel)
      n == node.entries[name]
      old == msg[field.name]
      with(r) == [msg |-> [msg EXCEPT ![field.name] = r.value], errors |-> r.errors]
      fails(what) == [msg |-> msg, errors |-> Fails(what, field.name)]
  IN  CASE ~Has(node, name) ->
             IF mode = "STRICT" THEN fails("missing") ELSE [msg |-> msg, errors |-> <<>>]
        [] Has(node, name) /\ field.repeated ->
             IF n.type # "Sequence" THEN fails("mismatch") ELSE with(ParseArray(old, n, field))
        [] Has(node, name) /\ ~field.repeated /\ field.type = "message" ->
             (CASE n.type = "Null" -> [msg |-> msg, errors |-> <<>>]
                [] n.type = "Map" ->
                     LET r == ParseFields(old, n, field.fields, mode, camel)
                     IN  with([value |-> r.msg, errors |-> r.errors])
                [] OTHER -> fails("mismatch"))
        [] OTHER ->
             IF n.type # "Scalar" THEN fails("scalar") ELSE with(ParseScalar(old, n, field))

ParseFields(msg, node, fields, mode, camel) ==
  FoldLeft(LAMBDA acc, field :
             LET r == ParseField(acc.msg, node, field, mode, camel)
             IN  [msg |-> r.msg, errors |-> acc.errors \o r.errors],
           [msg |-> msg, errors |-> <<>>], fields)

(* Keys of the document that name no field.                                *)
RECURSIVE FindUnknownFields(_, _, _)
FindUnknownFields(node, fields, camel) ==
  UNION {LET name == IF camel THEN CamelCaseToSnake(key) ELSE key
             named == {k \in DOMAIN fields : fields[k].name = name}
             field == fields[CHOOSE k \in named : TRUE]
         IN  CASE named = {} -> {[what |-> "unknown", name |-> name]}
               [] named # {} /\ node.entries[key].type # "Map" -> {}
               [] named # {} /\ node.entries[key].type = "Map" /\ field.type # "message" ->
                    {[what |-> "type", name |-> name]}
               [] OTHER -> FindUnknownFields(node.entries[key], field.fields, camel)
         : key \in DOMAIN node.entries}

(* Parse(msg, node), its errors as a set.  ParseLenient forgets the check  *)
(* of unknown fields.                                                      *)
ParseLenient(msg, node, fields, mode, camel) ==
  LET r == ParseFields(msg, node, fields, mode, camel)
  IN  IF node.type \in {"Scalar", "Null"}
      THEN [msg |-> msg, errors |-> ToSet(Fails("invalid", <<>>))]
      ELSE [msg |-> r.msg, errors |-> ToSet(r.errors)]

Parse(msg, node, fields, mode, camel) ==
  LET r == ParseFields(msg, node, fields, mode, camel)
      unknown == IF mode = "PERMISSIVE" THEN {} ELSE FindUnknownFields(node, fields, camel)
  IN  IF node.type \in {"Scalar", "Null"}
      THEN [msg |-> msg, errors |-> ToSet(Fails("invalid", <<>>))]
      ELSE [msg |-> r.msg, errors |-> ToSet(r.errors) \cup unknown]

(* LoadConfiguration: a document in error leaves the configuration as it   *)
(* is, a good one replaces it whole, starting from the defaults.           *)
(* LoadPartly reads over the configuration that is in force.               *)
LoadPartly(config, defaults, node, fields) ==
  Parse(config, node, fields, "PERMISSIVE", TRUE).msg

LoadConfiguration(config, defaults, node, fields) ==
  LET r == Parse(defaults, node, fields, "PERMISSIVE", TRUE)
  IN  IF r.errors # {} THEN config ELSE r.msg

-----------------------------------------------------------------------------
(* The reference: what a document says of a field, by the field's path.    *)
RECURSIVE Paths(_)
Paths(fields) == UNION {{<<f>>} \cup {<<f>> \o p : p \in Paths(f.fields)} : f \in ToSet(fields)}

Undefined == Node("Undefined", "", <<>>, <<>>)
At(node, path, camel) ==
  FoldLeft(LAMBDA n, f : IF Has(n, Spelled(f, camel)) THEN n.entries[Spelled(f, camel)]
                         ELSE Undefined, node, path)
ValueAt(msg, path) == FoldLeft(LAMBDA m, f : m[f.name], msg, path)

Read(f, n) == IF f.type = "enum" THEN Upper(n.scalar) ELSE n.scalar
IsReadable(f, n) == n.type = "Scalar" /\ IF f.type = "enum" THEN IsEnumerator(f, n)
                                         ELSE f.type # "bytes" /\ Reads(f.type, n.scalar)
WellTyped(f, n) ==
  \/ n.type = "Undefined"
  \/ f.repeated /\ f.type # "bytes" /\ n.type = "Sequence"
     /\ \A k \in DOMAIN n.items : IsReadable(f, n.items[k])
  \/ ~f.repeated /\ f.type = "message" /\ n.type \in {"Null", "Map"}
  \/ ~f.repeated /\ f.type # "message" /\ IsReadable(f, n)

(* A document with a field of the wrong type, however deep, changes        *)
(* nothing; with any other, each field is what the document says of it, or *)
(* its default, whatever was in force.                                     *)
LoadReadsAsWritten(config, defaults, node, fields) ==
  LET new == LoadConfiguration(config, defaults, node, fields)
      leaves == {p \in Paths(fields) : Last(p).type # "message"}
  IN  IF \/ node.type \in {"Scalar", "Null"}
         \/ \E p \in Paths(fields) : ~WellTyped(Last(p), At(node, p, TRUE))
      THEN new = config
      ELSE \A p \in leaves :
             LET n == At(node, p, TRUE)
             IN  ValueAt(new, p) =
                   CASE n.type = "Undefined" -> ValueAt(defaults, p)
                     [] n.type = "Scalar" -> Read(Last(p), n)
                     [] n.type = "Sequence" -> [k \in DOMAIN n.items |-> Read(Last(p), n.items[k])]

RECURSIVE KeyPaths(_)
KeyPaths(node) ==
  UNION {{<<key>>} \cup {<<key>> \o p : p \in KeyPaths(node.entries[key])}
         : key \in DOMAIN node.entries}

(* ConfigLoader.h:52,54: the modes that fail on unknown fields accept no   *)
(* document with a key, at any depth, that the parser does not look for.   *)
(* With camel case this is said of keys in camel case: CamelCaseToSnake    *)
(* maps others ("a_b", "AB") to fields that are not read from them.        *)
UnknownKeysReported(defaults, node, fields, mode, camel) ==
  LET spelled(p) == {[k \in DOMAIN q |-> Spelled(q[k], camel)] : q \in p}
      isCamel(key) == \A k \in DOMAIN key : key[k] # "_" /\ (k = 1 => ~IsUpper(key[k]))
  IN  /\ mode # "PERMISSIVE" /\ Parse(defaults, node, fields, mode, camel).errors = {}
      /\ camel => \A p \in KeyPaths(node) : \A k \in DOMAIN p : isCamel(p[k])
      => KeyPaths(node) \subseteq spelled(Paths(fields))
=============================================================================
