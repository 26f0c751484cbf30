-------------------------------- MODULE Wire --------------------------------
(***************************************************************************)
(* The generated codec of abstraction.model/api (rec.go): how a record is  *)
(* written as a JSON object, and which objects a reader accepts, refuses   *)
(* and with which word.                                                    *)
(*                                                                         *)
(* The generated functions are one pattern per record, so the pattern is   *)
(* modelled once (Read, Enc) over a table of schemas.  A JSON text is      *)
(* modelled by its tree: white space is dropped, and what is wrong with a  *)
(* text is kept as a mark on the tree (an object that is not closed, a key *)
(* that is not a key, bytes that are no value, a string that is not        *)
(* UTF-8).  Strings and numbers are taken apart in module WireText.        *)
(***************************************************************************)
EXTENDS Naturals, Sequences, SequencesExt, FiniteSets, Positions

CONSTANT DepthLimit     \* depthLimit, 64 in the code

ASSUME DepthAssumption == DepthLimit \in Nat \ {0}

Blank == ""             \* the empty text, and the word of no refusal

(***************************************************************************)
(* JSON values.  An object's fields are pairs <<key, value>> in the order  *)
(* of the text, an array's are <<Blank, value>>.  text is a leaf's         *)
(* spelling; for a container it is "open" when the closing bracket is      *)
(* missing.                                                                *)
(***************************************************************************)
Value(kind, text, fields) == [kind |-> kind, text |-> text, fields |-> fields]
Leaf(kind, text) == Value(kind, text, <<>>)
Str(s) == Leaf("string", s)
Object(fields) == Value("object", Blank, fields)
BadText == "not utf8"    \* a Go string that is not valid UTF-8
NoKey == "not a key"     \* what stands where a quoted key and ':' should
Junk == Leaf("junk", Blank) \* bytes that start no JSON value
Nil == [nil |-> TRUE]    \* a nil pointer

IsContainer(d) == d.kind \in {"object", "array"}

(***************************************************************************)
(* Refusal, and a successful read.                                         *)
(***************************************************************************)
Refuse(word) == [word |-> word, value |-> Nil]
Accept(v) == [word |-> Blank, value |-> v]

(***************************************************************************)
(* Schemas: the fields of each record in declaration order.  A field that  *)
(* is not required is written only when it is not zero.                    *)
(***************************************************************************)
Field(name, type) == [name |-> name, type |-> type, required |-> TRUE]
Optional(name, type) == [name |-> name, type |-> type, required |-> FALSE]

LookupOutcome == {"resolved", "invalid", "unavailable", "unsupported_mapping", "forbidden"}
ManifestOutcome == LookupOutcome \cup {"not_found"}
Vocabulary == [LookupOutcome |-> LookupOutcome, ManifestOutcome |-> ManifestOutcome]

RefSchema == << Field("registry", "string"), Field("repo", "string"),
                Field("revision", "string"), Field("quant", "string"),
                Field("file", "string"), Optional("credential", "string") >>
LookupResultSchema == << Field("outcome", "LookupOutcome"), Optional("request", "Imported") >>
ManifestResultSchema == << Field("outcome", "ManifestOutcome"), Optional("manifest", "Imported"),
                           Field("resolved_revision", "string") >>
ArgumentsSchema == << Field("ref", "Ref") >>
FrameSchema == << Field("version", "int32"), Field("service", "string"),
                  Field("method", "string"), Field("arguments", "raw") >>
ReplySchema == << Field("version", "int32"), Field("service", "string"),
                  Field("method", "string"), Field("ok", "bool"), Field("payload", "raw") >>
ErrorSchema == << Field("code", "string"), Field("message", "string") >>
ResolveResultSchema == << Field("value", "LookupResult") >>
ManifestResolveResultSchema == << Field("value", "ManifestResult") >>

\* download/request.Request and storage/content.Manifest, codecs of other
\* repositories generated by the same tool: one field stands for theirs.
ImportedSchema == << Field("digest", "string") >>

Schema == [Ref |-> RefSchema, LookupResult |-> LookupResultSchema,
           ManifestResult |-> ManifestResultSchema, Arguments |-> ArgumentsSchema,
           Frame |-> FrameSchema, Reply |-> ReplySchema, Error |-> ErrorSchema,
           ResolveResult |-> ResolveResultSchema,
           ManifestResolveResult |-> ManifestResolveResultSchema,
           Imported |-> ImportedSchema]

\* Of the fields of one record.
Names(fields) == {f.name : f \in ToSet(fields)}
Required(fields) == {f.name : f \in {g \in ToSet(fields) : g.required}}
FieldOf(fields, name) == CHOOSE f \in ToSet(fields) : f.name = name

IsRecord(type) == type \in DOMAIN Schema
IsEnum(type) == type \in DOMAIN Vocabulary

\* The zero value of a Go field.
Zero(f) == IF f.type = "string" \/ IsEnum(f.type) THEN Blank ELSE Nil

-----------------------------------------------------------------------------
(***************************************************************************)
(* Reading leaves.                                                         *)
(***************************************************************************)
ReadString(d) ==
  CASE d.kind # "string" -> Refuse("wrong_type")
    [] d.kind = "string" /\ d.text = BadText -> Refuse("bad_string")
    [] OTHER -> Accept(d.text)

ReadInteger(d) ==
  CASE d.kind = "int" -> Accept(d.text)
    [] d.kind = "number" -> Refuse("number_spelling")
    [] OTHER -> Refuse("wrong_type")

ReadBoolean(d) ==
  IF d.kind = "bool" THEN Accept(d.text = "true") ELSE Refuse("wrong_type")

ReadEnum(type, d) ==
  LET r == ReadString(d)
  IN IF r.word = Blank /\ r.value \notin Vocabulary[type] THEN Refuse("bad_enum") ELSE r

\* A container's key is read with the record's own string reader.
KeyRefusal(key) ==
  CASE key = NoKey -> "malformed" [] key = BadText -> "bad_string" [] OTHER -> Blank

\* enter: one level deeper, if the limit allows it.
TooDeep(depth) == depth + 1 > DepthLimit

\* A container's keys, those before an entry, and the entry that gives a key its
\* value (a repeated one would overwrite what was there).
Keys(d) == {d.fields[i][1] : i \in DOMAIN d.fields}
KeysBefore(d, i) == {d.fields[j][1] : j \in {k \in DOMAIN d.fields : k < i}}
EntryOf(d, key) == Max({i \in DOMAIN d.fields : d.fields[i][1] = key})

\* The first thing wrong in the order of the text decides.
FirstOf(words, wrong) == IF wrong = {} THEN Blank ELSE words[Min(wrong)]
FirstWord(words) == FirstOf(words, {i \in DOMAIN words : words[i] # Blank})
Either(refusal, word) == IF refusal # Blank THEN refusal ELSE word

\* Mutant: an opaque object may repeat a key.
EntryRefusalRepeats(kind, key, seen) == IF kind = "object" THEN KeyRefusal(key) ELSE Blank

\* Why an entry of an opaque container is refused before its value is read.
EntryRefusal(kind, key, seen) ==
  CASE kind # "object" -> Blank
    [] kind = "object" /\ KeyRefusal(key) # Blank -> KeyRefusal(key)
    [] kind = "object" /\ KeyRefusal(key) = Blank /\ key \in seen -> "duplicate_key"
    [] OTHER -> Blank

\* skipValue: what an opaque value is refused for, Blank if it is carried; inside
\* says it of the values in a container.
skipLeaf(d) ==
  CASE d.kind = "string" /\ d.text = BadText -> "bad_string"
    [] d.kind = "junk" -> "malformed"
    [] OTHER -> Blank

shut(d, word) == IF word = Blank /\ d.text = "open" THEN "malformed" ELSE word
skipContainer(d, depth, inside) ==
  IF TooDeep(depth) THEN "depth_exceeded"
  ELSE shut(d, FirstWord([i \in DOMAIN d.fields |->
                 Either(EntryRefusal(d.kind, d.fields[i][1], KeysBefore(d, i)), inside[i])]))

\* The values in d by how far inside they are, as far as the limit lets a reader go.
Inside(values) == UNION {{x.fields[i][2] : i \in DOMAIN x.fields} : x \in {y \in values : IsContainer(y)}}
Levels(d) ==
  LET level[n \in 0..DepthLimit] == IF n = 0 THEN {d} ELSE Inside(level[n - 1]) IN level
Nested(d) == UNION {Levels(d)[n] : n \in 0..DepthLimit}

\* Of every value in d, when left is how many levels deeper a reader may go and
\* below says it for one level less.
skipLevel(d, left, below) ==
  [x \in Nested(d) |->
     IF IsContainer(x) THEN skipContainer(x, DepthLimit - left, [i \in DOMAIN x.fields |-> below[x.fields[i][2]]])
     ELSE skipLeaf(x)]
SkipLevels(d) == LET skip[left \in 0..DepthLimit] == skipLevel(d, left, skip[left - 1]) IN skip
SkipValue(d, depth) == SkipLevels(d)[DepthLimit - depth][d]

Carried(d, word) == IF word = Blank THEN Accept(d) ELSE Refuse(word)
ReadRaw(d, depth) == Carried(d, SkipValue(d, depth))

-----------------------------------------------------------------------------
(***************************************************************************)
(* Reading a record: decodeRef, decodeLookupResult, ... in one pattern.    *)
(* A bit per field tells which ones were seen.                             *)
(***************************************************************************)
\* Mutant: the bits of the optional fields are not looked at.
FieldRefusalOptionalTwice(fields, key, seen) ==
  CASE KeyRefusal(key) # Blank -> KeyRefusal(key)
    [] KeyRefusal(key) = Blank /\ key \notin Names(fields) -> "unknown_field"
    [] KeyRefusal(key) = Blank /\ key \in seen \cap Required(fields) -> "duplicate_field"
    [] OTHER -> Blank

FieldRefusal(fields, key, seen) ==
  CASE KeyRefusal(key) # Blank -> KeyRefusal(key)
    [] KeyRefusal(key) = Blank /\ key \notin Names(fields) -> "unknown_field"
    [] KeyRefusal(key) = Blank /\ key \in Names(fields) /\ key \in seen -> "duplicate_field"
    [] OTHER -> Blank

\* read is what the readers of the fields' types make of the entries, word the
\* first refusal among them.
Closed(fields, d, read, word) ==
  IF word # Blank THEN Refuse(word)
  ELSE IF d.text = "open" THEN Refuse("malformed")
  ELSE IF ~(Required(fields) \subseteq Keys(d)) THEN Refuse("missing_field")
  ELSE Accept([n \in Names(fields) |-> IF n \in Keys(d) THEN read[EntryOf(d, n)].value
                                       ELSE Zero(FieldOf(fields, n))])

ReadRecord(fields, d, depth, read) ==
  IF d.kind # "object" THEN Refuse("wrong_type")
  ELSE IF TooDeep(depth) THEN Refuse("depth_exceeded")
  ELSE Closed(fields, d, read, FirstWord([i \in DOMAIN d.fields |->
                Either(FieldRefusal(fields, d.fields[i][1], KeysBefore(d, i)), read[i].word)]))

ReadLeaf(type, d, depth) ==
  CASE type = "string" -> ReadString(d)
    [] type = "int32" -> ReadInteger(d)
    [] type = "bool" -> ReadBoolean(d)
    [] type = "raw" -> ReadRaw(d, depth)
    [] OTHER -> ReadEnum(type, d)

\* Records of leaves, records with such records in them, and records with those
\* in them: the schemas nest no deeper.
TypeAt(fields, d, i) == FieldOf(fields, d.fields[i][1]).type
ReadFlat(fields, d, depth) ==
  ReadRecord(fields, d, depth,
             [i \in DOMAIN d.fields |-> ReadLeaf(TypeAt(fields, d, i), d.fields[i][2], depth + 1)])
ReadFlatField(type, d, depth) ==
  IF IsRecord(type) THEN ReadFlat(Schema[type], d, depth) ELSE ReadLeaf(type, d, depth)
ReadNested(fields, d, depth) ==
  ReadRecord(fields, d, depth,
             [i \in DOMAIN d.fields |-> ReadFlatField(TypeAt(fields, d, i), d.fields[i][2], depth + 1)])
ReadNestedField(type, d, depth) ==
  IF IsRecord(type) THEN ReadNested(Schema[type], d, depth) ELSE ReadLeaf(type, d, depth)
Read(fields, d, depth) ==
  ReadRecord(fields, d, depth,
             [i \in DOMAIN d.fields |-> ReadNestedField(TypeAt(fields, d, i), d.fields[i][2], depth + 1)])

(***************************************************************************)
(* Writing a record: encRef, encLookupResult, ... in one pattern.  A word  *)
(* outside a closed vocabulary panics with bad_enum.                       *)
(***************************************************************************)
Known(type, word) == word \in Vocabulary[type]

BadWord(fields, v) ==
  \E f \in ToSet(fields) : IsEnum(f.type) /\ ~Known(f.type, v[f.name])
Inner(fields, v) ==
  {<<Schema[f.type], v[f.name]>> : f \in {g \in ToSet(fields) : IsRecord(g.type) /\ v[g.name] # Nil}}
Panics(fields, v) ==
  \/ BadWord(fields, v)
  \/ \E x \in Inner(fields, v) : BadWord(x[1], x[2]) \/ \E y \in Inner(x[1], x[2]) : BadWord(y[1], y[2])

\* Mutant: an empty text is left out wherever it stands.
OmittedAlways(f, v) == (~f.required \/ f.type = "string") /\ v = Zero(f)

\* Mutant: the writer does not know the field that was added last.
OmittedCredential(f, v) == ~f.required /\ (v = Zero(f) \/ f.name = "credential")

Omitted(f, v) == ~f.required /\ v = Zero(f)

Written(fields, v) == {i \in DOMAIN fields : ~Omitted(fields[i], v[fields[i].name])}

\* code is what the writers of the fields' types make of their values.
InOrder(fields, written, code) ==
  [n \in 1..Cardinality(written) |-> <<fields[Nth(written, n)].name, code[Nth(written, n)]>>]
EncRecord(fields, v, code) == Object(InOrder(fields, Written(fields, v), code))

EncLeaf(type, v) ==
  CASE type = "int32" -> Leaf("int", v)
    [] type = "bool" -> Leaf("bool", IF v THEN "true" ELSE "false")
    [] type = "raw" -> v
    [] OTHER -> Str(v)

EncFlat(fields, v) ==
  EncRecord(fields, v, [i \in DOMAIN fields |-> EncLeaf(fields[i].type, v[fields[i].name])])
EncFlatField(type, v) == IF IsRecord(type) THEN EncFlat(Schema[type], v) ELSE EncLeaf(type, v)
EncNested(fields, v) ==
  EncRecord(fields, v, [i \in DOMAIN fields |-> EncFlatField(fields[i].type, v[fields[i].name])])
EncNestedField(type, v) == IF IsRecord(type) THEN EncNested(Schema[type], v) ELSE EncLeaf(type, v)
Enc(fields, v) ==
  EncRecord(fields, v, [i \in DOMAIN fields |-> EncNestedField(fields[i].type, v[fields[i].name])])

\* The Go values of a record: a value for each field, and a nil pointer only where
\* a record is optional.
IsStruct(fields, v) == v = [n \in Names(fields) |-> v[n]]
GoLeaf(type, x) == type = "bool" => x \in BOOLEAN
GoFlat(fields, v) ==
  IsStruct(fields, v) /\ \A i \in DOMAIN fields : GoLeaf(fields[i].type, v[fields[i].name])
GoFlatField(f, x) ==
  IF IsRecord(f.type) THEN (~f.required /\ x = Nil) \/ GoFlat(Schema[f.type], x) ELSE GoLeaf(f.type, x)
GoNested(fields, v) ==
  IsStruct(fields, v) /\ \A i \in DOMAIN fields : GoFlatField(fields[i], v[fields[i].name])

\* One reader and one writer per record.
decodeRef(d, depth) == ReadFlat(RefSchema, d, depth)
decodeLookupResult(d, depth) == ReadNested(LookupResultSchema, d, depth)
decodeManifestResult(d, depth) == ReadNested(ManifestResultSchema, d, depth)
decodeOAModelResolverResolveArguments(d, depth) == ReadNested(ArgumentsSchema, d, depth)
decodeOAModelManifestResolveArguments(d, depth) == ReadNested(ArgumentsSchema, d, depth)
decodeOAServiceFrame(d, depth) == ReadFlat(FrameSchema, d, depth)
decodeOAServiceReply(d, depth) == ReadFlat(ReplySchema, d, depth)
decodeOAServiceError(d, depth) == ReadFlat(ErrorSchema, d, depth)
decodeOAModelResolverResolveResult(d, depth) == Read(ResolveResultSchema, d, depth)
decodeOAModelManifestResolveResult(d, depth) == Read(ManifestResolveResultSchema, d, depth)
encRef(v) == EncFlat(RefSchema, v)
encLookupResult(v) == EncNested(LookupResultSchema, v)
encManifestResult(v) == EncNested(ManifestResultSchema, v)
encOAModelResolverResolveArguments(v) == EncNested(ArgumentsSchema, v)
encOAModelManifestResolveArguments(v) == EncNested(ArgumentsSchema, v)
encOAServiceFrame(v) == EncFlat(FrameSchema, v)
encOAServiceReply(v) == EncFlat(ReplySchema, v)
encOAServiceError(v) == EncFlat(ErrorSchema, v)
encOAModelResolverResolveResult(v) == Enc(ResolveResultSchema, v)
encOAModelManifestResolveResult(v) == Enc(ManifestResolveResultSchema, v)

\* DecodeRefAt, DecodeLookupResultAt and DecodeManifestResultAt; a limit given
\* by the caller can only lower the reader's own.
DecodeAt(type, d, depth) ==
  CASE type = "Ref" -> decodeRef(d, depth)
    [] type = "LookupResult" -> decodeLookupResult(d, depth)
    [] type = "ManifestResult" -> decodeManifestResult(d, depth)
    [] OTHER -> Read(Schema[type], d, depth)

EncodeOf(type, v) ==
  CASE type = "Ref" -> encRef(v)
    [] type = "LookupResult" -> encLookupResult(v)
    [] type = "ManifestResult" -> encManifestResult(v)
    [] OTHER -> Enc(Schema[type], v)

\* EncodeRefAt, EncodeLookupResultAt and EncodeManifestResultAt: what was
\* written is read back before it is handed out.
EncodeAt(type, v, depth) ==
  IF depth >= DepthLimit THEN Refuse("depth_exceeded")
  ELSE IF Panics(Schema[type], v) THEN Refuse("bad_enum")
  ELSE LET out == EncodeOf(type, v) IN Carried(out, DecodeAt(type, out, depth).word)
=============================================================================
