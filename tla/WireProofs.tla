----------------------------- MODULE WireProofs -----------------------------
(***************************************************************************)
(* What the codec's readers make of a text, for every text and every value *)
(* of a record: they read back what the writers wrote, accept exactly the  *)
(* texts that fit the schema, carry exactly the opaque values nothing is   *)
(* wrong with, and find no fault of syntax where a reader has been before. *)
(* Then what holds of every call of an endpoint that uses them.            *)
(***************************************************************************)
EXTENDS Endpoint, WireDocs, PositionsProofs, SequenceTheorems, TLAPS

\* Refusals have a word; an accepted value is what it is.
LEMMA Words ==
  /\ \A w : Refuse(w).word = w
  /\ \A v : Accept(v).word = Blank /\ Accept(v).value = v
BY DEF Refuse, Accept

\* No word of a refusal is the empty text.
LEMMA BlankIsNoWord ==
  /\ Blank # "malformed" /\ Blank # "wrong_type" /\ Blank # "depth_exceeded" /\ Blank # "missing_field"
  /\ Blank # "bad_string" /\ Blank # "bad_enum" /\ Blank # "duplicate_key" /\ Blank # "duplicate_field"
  /\ Blank # "unknown_field" /\ Blank # "number_spelling" /\ Blank # "open" /\ Blank # "trailing"
BY Zenon DEF Blank

\* A reader's first refusal is none exactly when there is none.
LEMMA FirstWordBlank ==
  ASSUME NEW words, DOMAIN words \in SUBSET Nat
  PROVE  FirstWord(words) = Blank <=> \A i \in DOMAIN words : words[i] = Blank
<1> DEFINE wrong == {i \in DOMAIN words : words[i] # Blank}
<1>1. CASE wrong = {}
  BY <1>1 DEF FirstWord, FirstOf
<1>2. CASE wrong # {}
  <2>1. wrong \in SUBSET Nat
    OBVIOUS
  <2>2. Min(wrong) \in wrong
    BY <1>2, <2>1, MinOfPositions
  <2>3. FirstWord(words) = words[Min(wrong)]
    BY <1>2 DEF FirstWord, FirstOf
  <2> HIDE DEF wrong
  <2>. QED
    BY <2>2, <2>3 DEF wrong
<1>. QED
  BY <1>1, <1>2

-----------------------------------------------------------------------------
(***************************************************************************)
(* Schemas: every record's fields have different names, and names that are *)
(* keys.                                                                   *)
(***************************************************************************)
GoodSchema(fields) ==
  /\ \E n \in Nat : DOMAIN fields = 1..n
  /\ \A i \in DOMAIN fields : KeyRefusal(fields[i].name) = Blank
  /\ \A i, j \in DOMAIN fields : fields[i].name = fields[j].name => i = j

\* A field is found by its name.
LEMMA FieldFound ==
  ASSUME NEW fields, GoodSchema(fields), NEW k \in DOMAIN fields
  PROVE  FieldOf(fields, fields[k].name) = fields[k] /\ fields[k].name \in Names(fields)
<1>1. fields[k] \in ToSet(fields)
  BY DEF ToSet
<1>2. ASSUME NEW f \in ToSet(fields), f.name = fields[k].name PROVE f = fields[k]
  <2>1. PICK i \in DOMAIN fields : f = fields[i]
    BY DEF ToSet
  <2>. QED
    BY <1>2, <2>1 DEF GoodSchema
<1>. QED
  BY <1>1, <1>2 DEF FieldOf, Names

-----------------------------------------------------------------------------
(***************************************************************************)
(* The object a writer makes.                                              *)
(***************************************************************************)
\* The entries of a written record: each written field once, under its name.
LEMMA WrittenEntries ==
  ASSUME NEW fields, GoodSchema(fields), NEW v, NEW code
  PROVE  LET d == EncRecord(fields, v, code)
             written == Written(fields, v)
             c == Cardinality(written)
         IN /\ d.kind = "object" /\ d.text = Blank /\ c \in Nat /\ DOMAIN d.fields = 1..c
            /\ \A n \in 1..c : /\ Nth(written, n) \in written /\ Nth(written, n) \in DOMAIN fields
                               /\ d.fields[n][1] = fields[Nth(written, n)].name
                               /\ d.fields[n][2] = code[Nth(written, n)]
            /\ \A m, n \in 1..c : d.fields[m][1] = d.fields[n][1] => m = n
            /\ \A k \in written : \E n \in 1..c : Nth(written, n) = k
<1> DEFINE d == EncRecord(fields, v, code)
           written == Written(fields, v)
           c == Cardinality(written)
<1>1. PICK size \in Nat : DOMAIN fields = 1..size
  BY DEF GoodSchema
<1>2. written \in SUBSET (1..size)
  BY <1>1 DEF Written
<1>3. IsFiniteSet(1..size)
  BY FS_Interval
<1>4. written \in SUBSET Nat /\ IsFiniteSet(written) /\ c \in Nat
  BY <1>2, <1>3, FS_Subset, FS_CardinalityType
<1>5. d.kind = "object" /\ d.text = Blank /\ d.fields = InOrder(fields, written, code)
  BY DEF EncRecord, Object, Value
<1> HIDE DEF d, written, c
<1>6. DOMAIN d.fields = 1..c
  BY <1>5 DEF InOrder, c
<1>7. ASSUME NEW n \in 1..c
      PROVE  /\ Nth(written, n) \in written /\ Nth(written, n) \in DOMAIN fields
             /\ d.fields[n] = <<fields[Nth(written, n)].name, code[Nth(written, n)]>>
  <2>1. Nth(written, n) \in written
    BY <1>4, NthPosition DEF c
  <2>. QED
    BY <1>1, <1>2, <1>5, <2>1 DEF InOrder, c
<1>8. ASSUME NEW n \in 1..c
      PROVE  d.fields[n][1] = fields[Nth(written, n)].name /\ d.fields[n][2] = code[Nth(written, n)]
  <2> DEFINE a == fields[Nth(written, n)].name
             b == code[Nth(written, n)]
  <2>1. d.fields[n] = <<a, b>>
    BY <1>7
  <2> HIDE DEF a, b
  <2>2. d.fields[n][1] = a /\ d.fields[n][2] = b
    BY <2>1
  <2>. QED
    BY <2>2 DEF a, b
<1>9. ASSUME NEW m \in 1..c, NEW n \in 1..c, d.fields[m][1] = d.fields[n][1] PROVE m = n
  <2>1. Nth(written, m) = Nth(written, n)
    BY <1>7, <1>8, <1>9 DEF GoodSchema
  <2>. QED
    BY <1>4, <2>1, NthOnce DEF c
<1>10. \A k \in written : \E n \in 1..c : Nth(written, n) = k
  BY <1>4, NthReaches DEF c
<1>. QED
  BY <1>4, <1>5, <1>6, <1>7, <1>8, <1>9, <1>10 DEF d, written, c

\* The value of a record whose entries were all read.
Built(fields, d, read) ==
  [x \in Names(fields) |-> IF x \in Keys(d) THEN read[EntryOf(d, x)].value ELSE Zero(FieldOf(fields, x))]

\* A written record is refused only for its depth or for what is inside it.
LEMMA WrittenIsRead ==
  ASSUME NEW fields, GoodSchema(fields), NEW v, NEW code, NEW depth, NEW read
  PROVE  LET d == EncRecord(fields, v, code)
             r == ReadRecord(fields, d, depth, read)
         IN /\ r.word = Blank <=> ~TooDeep(depth) /\ \A n \in DOMAIN d.fields : read[n].word = Blank
            /\ r.word = Blank => r = Accept(Built(fields, d, read))
<1> DEFINE d == EncRecord(fields, v, code)
           written == Written(fields, v)
           c == Cardinality(written)
           words == [i \in DOMAIN d.fields |->
                       Either(FieldRefusal(fields, d.fields[i][1], KeysBefore(d, i)), read[i].word)]
           value == Built(fields, d, read)
<1>0. d.kind = "object" /\ d.text = Blank
  BY WrittenEntries
<1>1. /\ c \in Nat /\ DOMAIN d.fields = 1..c
      /\ \A n \in 1..c : /\ Nth(written, n) \in written /\ Nth(written, n) \in DOMAIN fields
                         /\ d.fields[n][1] = fields[Nth(written, n)].name
      /\ \A m, n \in 1..c : d.fields[m][1] = d.fields[n][1] => m = n
      /\ \A k \in written : \E n \in 1..c : Nth(written, n) = k
  BY WrittenEntries
<1> HIDE DEF d, c
<1>2. ASSUME NEW n \in 1..c
      PROVE  FieldRefusal(fields, d.fields[n][1], KeysBefore(d, n)) = Blank
  <2>1. KeyRefusal(d.fields[n][1]) = Blank
    <3>1. Nth(written, n) \in DOMAIN fields /\ d.fields[n][1] = fields[Nth(written, n)].name
      BY <1>1
    <3>2. \A i \in DOMAIN fields : KeyRefusal(fields[i].name) = Blank
      BY Zenon DEF GoodSchema
    <3>. QED
      BY <3>1, <3>2, Zenon
  <2>2. d.fields[n][1] \in Names(fields)
    BY <1>1, FieldFound
  <2>3. d.fields[n][1] \notin KeysBefore(d, n)
    <3> SUFFICES ASSUME NEW k \in DOMAIN d.fields, k < n, d.fields[k][1] = d.fields[n][1] PROVE FALSE
      BY DEF KeysBefore
    <3>. QED
      BY <1>1
  <2>. QED
    BY <2>1, <2>2, <2>3 DEF FieldRefusal
<1>3. \A n \in 1..c : words[n] = read[n].word
  BY <1>1, <1>2 DEF Either
<1>4. FirstWord(words) = Blank <=> \A n \in 1..c : read[n].word = Blank
  <2>1. DOMAIN words = 1..c
    BY <1>1
  <2> HIDE DEF words
  <2>. QED
    BY <1>1, <1>3, <2>1, FirstWordBlank
<1>5. Required(fields) \subseteq Keys(d)
  <2> SUFFICES ASSUME NEW f \in ToSet(fields), f.required PROVE f.name \in Keys(d)
    BY DEF Required
  <2>1. PICK k \in DOMAIN fields : f = fields[k]
    BY DEF ToSet
  <2>2. k \in written
    BY <2>1 DEF Written, Omitted
  <2>3. PICK n \in 1..c : Nth(written, n) = k
    BY <1>1, <2>2
  <2>. QED
    BY <1>1, <2>1, <2>3 DEF Keys
<1>6. ReadRecord(fields, d, depth, read) =
        IF TooDeep(depth) THEN Refuse("depth_exceeded") ELSE Closed(fields, d, read, FirstWord(words))
  BY <1>0, Zenon DEF ReadRecord
<1> HIDE DEF words
<1>7. Closed(fields, d, read, FirstWord(words)) =
        IF FirstWord(words) # Blank THEN Refuse(FirstWord(words)) ELSE Accept(value)
  BY <1>0, <1>5, BlankIsNoWord, Zenon DEF Closed, Built
<1> HIDE DEF value
<1>8. CASE TooDeep(depth)
  BY <1>6, <1>8, Words, BlankIsNoWord DEF value, d
<1>9. CASE ~TooDeep(depth)
  BY <1>1, <1>4, <1>6, <1>7, <1>9, Words DEF value, d
<1>. QED
  BY <1>8, <1>9

\* Where every field that was written reads back, the record does.
LEMMA RecordReadsBack ==
  ASSUME NEW fields, GoodSchema(fields), NEW v, IsStruct(fields, v), NEW code, NEW depth, NEW read,
         ReadRecord(fields, EncRecord(fields, v, code), depth, read).word = Blank,
         \A n \in 1..Cardinality(Written(fields, v)) :
            LET k == Nth(Written(fields, v), n)
            IN read[n].word = Blank => read[n].value = v[fields[k].name]
  PROVE  ReadRecord(fields, EncRecord(fields, v, code), depth, read) = Accept(v)
<1> DEFINE d == EncRecord(fields, v, code)
           written == Written(fields, v)
           c == Cardinality(written)
           value == Built(fields, d, read)
<1>1. /\ c \in Nat /\ DOMAIN d.fields = 1..c
      /\ \A n \in 1..c : /\ Nth(written, n) \in written /\ Nth(written, n) \in DOMAIN fields
                         /\ d.fields[n][1] = fields[Nth(written, n)].name
      /\ \A m, n \in 1..c : d.fields[m][1] = d.fields[n][1] => m = n
      /\ \A k \in written : \E n \in 1..c : Nth(written, n) = k
  BY WrittenEntries
<1>2. /\ ReadRecord(fields, d, depth, read) = Accept(value)
      /\ \A n \in 1..c : read[n].word = Blank
  BY <1>1, WrittenIsRead
<1> HIDE DEF d, c
<1>3. ASSUME NEW x \in Names(fields) PROVE value[x] = v[x]
  <2>0. value[x] = IF x \in Keys(d) THEN read[EntryOf(d, x)].value ELSE Zero(FieldOf(fields, x))
    BY DEF Built
  <2> HIDE DEF value
  <2>1. PICK k \in DOMAIN fields : x = fields[k].name
    BY DEF Names, ToSet
  <2>2. CASE k \in written
    <3>1. PICK n \in 1..c : Nth(written, n) = k
      BY <1>1, <2>2
    <3>2. d.fields[n][1] = x /\ n \in DOMAIN d.fields
      BY <1>1, <2>1, <3>1
    <3>3. x \in Keys(d)
      BY <3>2 DEF Keys
    <3>4. {i \in DOMAIN d.fields : d.fields[i][1] = x} = {n}
      BY <1>1, <3>2
    <3>5. EntryOf(d, x) = n
      <4>1. n \in Nat
        BY <1>1
      <4>2. Max({n}) = n
        BY <4>1 DEF Max
      <4>. QED
        BY <3>4, <4>2 DEF EntryOf
    <3>6. read[n].value = v[x]
      BY <1>2, <2>1, <3>1 DEF c
    <3>. QED
      BY <2>0, <3>3, <3>5, <3>6
  <2>3. CASE k \notin written
    <3>1. v[x] = Zero(fields[k])
      BY <2>1, <2>3 DEF Written, Omitted
    <3>2. x \notin Keys(d)
      <4> SUFFICES ASSUME NEW n \in DOMAIN d.fields, d.fields[n][1] = x PROVE FALSE
        BY DEF Keys
      <4>1. fields[Nth(written, n)].name = fields[k].name /\ Nth(written, n) \in written
            /\ Nth(written, n) \in DOMAIN fields
        BY <1>1, <2>1
      <4>2. Nth(written, n) = k
        BY <4>1 DEF GoodSchema
      <4>. QED
        BY <2>3, <4>1, <4>2
    <3>3. FieldOf(fields, x) = fields[k]
      BY <2>1, FieldFound
    <3>. QED
      BY <2>0, <3>1, <3>2, <3>3
  <2>. QED
    BY <2>2, <2>3
<1>4. value = v
  BY <1>3, Zenon DEF IsStruct, Built
<1>. QED
  BY <1>2, <1>4 DEF d

-----------------------------------------------------------------------------
(***************************************************************************)
(* The records of this package.                                            *)
(***************************************************************************)
Key(name) == name # NoKey /\ name # BadText

\* A name that is not one of the two marks is a key.
LEMMA KeyAccepted == ASSUME NEW key, Key(key) PROVE KeyRefusal(key) = Blank
BY DEF KeyRefusal, Key

\* No field is named like one of the marks.
LEMMA NamesAreKeys ==
  /\ Key("registry") /\ Key("repo") /\ Key("revision") /\ Key("quant")
  /\ Key("file") /\ Key("credential") /\ Key("outcome") /\ Key("request")
  /\ Key("manifest") /\ Key("resolved_revision") /\ Key("ref") /\ Key("version")
  /\ Key("service") /\ Key("method") /\ Key("arguments") /\ Key("ok")
  /\ Key("payload") /\ Key("code") /\ Key("message") /\ Key("value")
  /\ Key("digest")
BY Zenon DEF Key, NoKey, BadText

\* The fields of Ref.
LEMMA RefFields ==
  /\ DOMAIN RefSchema = 1..6
  /\ RefSchema[1].name = "registry"
  /\ RefSchema[2].name = "repo"
  /\ RefSchema[3].name = "revision"
  /\ RefSchema[4].name = "quant"
  /\ RefSchema[5].name = "file"
  /\ RefSchema[6].name = "credential"
BY DEF RefSchema, Field, Optional

\* The schema of Ref is good.
LEMMA RefGood == GoodSchema(RefSchema)
<1>1. \A i \in 1..6 : Key(RefSchema[i].name)
  BY RefFields, NamesAreKeys
<1>2. \A i, j \in 1..6 : RefSchema[i].name = RefSchema[j].name => i = j
  BY RefFields
<1>. QED
  BY <1>1, <1>2, RefFields, KeyAccepted DEF GoodSchema

\* The fields of LookupResult.
LEMMA LookupResultFields ==
  /\ DOMAIN LookupResultSchema = 1..2
  /\ LookupResultSchema[1].name = "outcome"
  /\ LookupResultSchema[2].name = "request"
BY DEF LookupResultSchema, Field, Optional

\* The schema of LookupResult is good.
LEMMA LookupResultGood == GoodSchema(LookupResultSchema)
<1>1. \A i \in 1..2 : Key(LookupResultSchema[i].name)
  BY LookupResultFields, NamesAreKeys
<1>2. \A i, j \in 1..2 : LookupResultSchema[i].name = LookupResultSchema[j].name => i = j
  BY LookupResultFields
<1>. QED
  BY <1>1, <1>2, LookupResultFields, KeyAccepted DEF GoodSchema

\* The fields of ManifestResult.
LEMMA ManifestResultFields ==
  /\ DOMAIN ManifestResultSchema = 1..3
  /\ ManifestResultSchema[1].name = "outcome"
  /\ ManifestResultSchema[2].name = "manifest"
  /\ ManifestResultSchema[3].name = "resolved_revision"
BY DEF ManifestResultSchema, Field, Optional

\* The schema of ManifestResult is good.
LEMMA ManifestResultGood == GoodSchema(ManifestResultSchema)
<1>1. \A i \in 1..3 : Key(ManifestResultSchema[i].name)
  BY ManifestResultFields, NamesAreKeys
<1>2. \A i, j \in 1..3 : ManifestResultSchema[i].name = ManifestResultSchema[j].name => i = j
  BY ManifestResultFields
<1>. QED
  BY <1>1, <1>2, ManifestResultFields, KeyAccepted DEF GoodSchema

\* The fields of Arguments.
LEMMA ArgumentsFields ==
  /\ DOMAIN ArgumentsSchema = 1..1
  /\ ArgumentsSchema[1].name = "ref" /\ ArgumentsSchema[1].type = "Ref"
BY DEF ArgumentsSchema, Field, Optional

\* The schema of Arguments is good.
LEMMA ArgumentsGood == GoodSchema(ArgumentsSchema)
<1>1. \A i \in 1..1 : Key(ArgumentsSchema[i].name)
  BY ArgumentsFields, NamesAreKeys
<1>2. \A i, j \in 1..1 : ArgumentsSchema[i].name = ArgumentsSchema[j].name => i = j
  BY ArgumentsFields
<1>. QED
  BY <1>1, <1>2, ArgumentsFields, KeyAccepted DEF GoodSchema

\* The fields of Frame.
LEMMA FrameFields ==
  /\ DOMAIN FrameSchema = 1..4
  /\ FrameSchema[1].name = "version" /\ FrameSchema[1].type = "int32"
  /\ FrameSchema[2].name = "service" /\ FrameSchema[2].type = "string"
  /\ FrameSchema[3].name = "method" /\ FrameSchema[3].type = "string"
  /\ FrameSchema[4].name = "arguments" /\ FrameSchema[4].type = "raw"
BY DEF FrameSchema, Field, Optional

\* The schema of Frame is good.
LEMMA FrameGood == GoodSchema(FrameSchema)
<1>1. \A i \in 1..4 : Key(FrameSchema[i].name)
  BY FrameFields, NamesAreKeys
<1>2. \A i, j \in 1..4 : FrameSchema[i].name = FrameSchema[j].name => i = j
  BY FrameFields
<1>. QED
  BY <1>1, <1>2, FrameFields, KeyAccepted DEF GoodSchema

\* The fields of Reply.
LEMMA ReplyFields ==
  /\ DOMAIN ReplySchema = 1..5
  /\ ReplySchema[1].name = "version" /\ ReplySchema[1].type = "int32"
  /\ ReplySchema[2].name = "service" /\ ReplySchema[2].type = "string"
  /\ ReplySchema[3].name = "method" /\ ReplySchema[3].type = "string"
  /\ ReplySchema[4].name = "ok" /\ ReplySchema[4].type = "bool"
  /\ ReplySchema[5].name = "payload" /\ ReplySchema[5].type = "raw"
BY DEF ReplySchema, Field, Optional

\* The schema of Reply is good.
LEMMA ReplyGood == GoodSchema(ReplySchema)
<1>1. \A i \in 1..5 : Key(ReplySchema[i].name)
  BY ReplyFields, NamesAreKeys
<1>2. \A i, j \in 1..5 : ReplySchema[i].name = ReplySchema[j].name => i = j
  BY ReplyFields
<1>. QED
  BY <1>1, <1>2, ReplyFields, KeyAccepted DEF GoodSchema

\* The fields of Error.
LEMMA ErrorFields ==
  /\ DOMAIN ErrorSchema = 1..2
  /\ ErrorSchema[1].name = "code" /\ ErrorSchema[1].type = "string"
  /\ ErrorSchema[2].name = "message" /\ ErrorSchema[2].type = "string"
BY DEF ErrorSchema, Field, Optional

\* The schema of Error is good.
LEMMA ErrorGood == GoodSchema(ErrorSchema)
<1>1. \A i \in 1..2 : Key(ErrorSchema[i].name)
  BY ErrorFields, NamesAreKeys
<1>2. \A i, j \in 1..2 : ErrorSchema[i].name = ErrorSchema[j].name => i = j
  BY ErrorFields
<1>. QED
  BY <1>1, <1>2, ErrorFields, KeyAccepted DEF GoodSchema

\* The fields of ResolveResult.
LEMMA ResolveResultFields ==
  /\ DOMAIN ResolveResultSchema = 1..1
  /\ ResolveResultSchema[1].name = "value" /\ ResolveResultSchema[1].type = "LookupResult"
BY DEF ResolveResultSchema, Field, Optional

\* The schema of ResolveResult is good.
LEMMA ResolveResultGood == GoodSchema(ResolveResultSchema)
<1>1. \A i \in 1..1 : Key(ResolveResultSchema[i].name)
  BY ResolveResultFields, NamesAreKeys
<1>2. \A i, j \in 1..1 : ResolveResultSchema[i].name = ResolveResultSchema[j].name => i = j
  BY ResolveResultFields
<1>. QED
  BY <1>1, <1>2, ResolveResultFields, KeyAccepted DEF GoodSchema

\* The fields of ManifestResolveResult.
LEMMA ManifestResolveResultFields ==
  /\ DOMAIN ManifestResolveResultSchema = 1..1
  /\ ManifestResolveResultSchema[1].name = "value" /\ ManifestResolveResultSchema[1].type = "ManifestResult"
BY DEF ManifestResolveResultSchema, Field, Optional

\* The schema of ManifestResolveResult is good.
LEMMA ManifestResolveResultGood == GoodSchema(ManifestResolveResultSchema)
<1>1. \A i \in 1..1 : Key(ManifestResolveResultSchema[i].name)
  BY ManifestResolveResultFields, NamesAreKeys
<1>2. \A i, j \in 1..1 : ManifestResolveResultSchema[i].name = ManifestResolveResultSchema[j].name => i = j
  BY ManifestResolveResultFields
<1>. QED
  BY <1>1, <1>2, ManifestResolveResultFields, KeyAccepted DEF GoodSchema

\* The fields of Imported.
LEMMA ImportedFields ==
  /\ DOMAIN ImportedSchema = 1..1
  /\ ImportedSchema[1].name = "digest"
BY DEF ImportedSchema, Field, Optional

\* The schema of Imported is good.
LEMMA ImportedGood == GoodSchema(ImportedSchema)
<1>1. \A i \in 1..1 : Key(ImportedSchema[i].name)
  BY ImportedFields, NamesAreKeys
<1>2. \A i, j \in 1..1 : ImportedSchema[i].name = ImportedSchema[j].name => i = j
  BY ImportedFields
<1>. QED
  BY <1>1, <1>2, ImportedFields, KeyAccepted DEF GoodSchema

\* Every record of the package has a good schema.
LEMMA SchemasGood == \A t \in DOMAIN Schema : GoodSchema(Schema[t])
BY RefGood, LookupResultGood, ManifestResultGood, ArgumentsGood, FrameGood, ReplyGood, ErrorGood,
   ResolveResultGood, ManifestResolveResultGood, ImportedGood DEF Schema

\* No record is a text or a closed vocabulary.
LEMMA RecordsAreRecords ==
  ASSUME NEW t, IsRecord(t)
  PROVE  t # "string" /\ ~IsEnum(t)
BY DEF IsRecord, IsEnum, Schema, Vocabulary

\* What is read of a field that was written.
LEMMA LeafReadsBack ==
  ASSUME NEW t, NEW x, GoLeaf(t, x), NEW depth, ReadLeaf(t, EncLeaf(t, x), depth).word = Blank
  PROVE  ReadLeaf(t, EncLeaf(t, x), depth) = Accept(x)
<1>1. CASE t = "string"
  BY <1>1, Words, BlankIsNoWord DEF ReadLeaf, EncLeaf, ReadString, Str, Leaf, Value
<1>2. CASE t = "int32"
  BY <1>2, Words, BlankIsNoWord DEF ReadLeaf, EncLeaf, ReadInteger, Leaf, Value
<1>3. CASE t = "bool"
  BY <1>3, Words, BlankIsNoWord DEF ReadLeaf, EncLeaf, ReadBoolean, Leaf, Value, GoLeaf
<1>4. CASE t = "raw"
  BY <1>4, Words DEF ReadLeaf, EncLeaf, ReadRaw, Carried
<1>5. CASE t \notin {"string", "int32", "bool", "raw"}
  BY <1>5, Words, BlankIsNoWord DEF ReadLeaf, EncLeaf, ReadEnum, ReadString, Str, Leaf, Value
<1>. QED
  BY <1>1, <1>2, <1>3, <1>4, <1>5

-----------------------------------------------------------------------------
(***************************************************************************)
(* Reading back, level by level of nesting.                                *)
(***************************************************************************)
\* An entry of a written record is its field's value, under its field's type.
LEMMA EntryIsField ==
  ASSUME NEW fields, GoodSchema(fields), NEW v, NEW code, NEW n \in 1..Cardinality(Written(fields, v))
  PROVE  LET d == EncRecord(fields, v, code)
             k == Nth(Written(fields, v), n)
         IN /\ k \in DOMAIN fields /\ ~Omitted(fields[k], v[fields[k].name]) /\ n \in DOMAIN d.fields
            /\ TypeAt(fields, d, n) = fields[k].type /\ d.fields[n][2] = code[k]
<1> DEFINE d == EncRecord(fields, v, code)
           k == Nth(Written(fields, v), n)
<1>1. /\ k \in Written(fields, v) /\ k \in DOMAIN fields /\ n \in DOMAIN d.fields
      /\ d.fields[n][1] = fields[k].name /\ d.fields[n][2] = code[k]
  BY WrittenEntries
<1> HIDE DEF d, k
<1>2. FieldOf(fields, d.fields[n][1]) = fields[k]
  BY <1>1, FieldFound
<1>3. ~Omitted(fields[k], v[fields[k].name])
  BY <1>1 DEF Written
<1>. QED
  BY <1>1, <1>2, <1>3 DEF TypeAt, d, k

\* A record of leaves reads back.
LEMMA FlatReadsBack ==
  ASSUME NEW fields, GoodSchema(fields), NEW v, GoFlat(fields, v), NEW depth,
         ReadFlat(fields, EncFlat(fields, v), depth).word = Blank
  PROVE  ReadFlat(fields, EncFlat(fields, v), depth) = Accept(v)
<1> DEFINE code == [i \in DOMAIN fields |-> EncLeaf(fields[i].type, v[fields[i].name])]
           d == EncRecord(fields, v, code)
           read == [i \in DOMAIN d.fields |-> ReadLeaf(TypeAt(fields, d, i), d.fields[i][2], depth + 1)]
<1>1. EncFlat(fields, v) = d /\ ReadFlat(fields, d, depth) = ReadRecord(fields, d, depth, read)
  BY DEF EncFlat, ReadFlat
<1>2. ASSUME NEW n \in 1..Cardinality(Written(fields, v)), read[n].word = Blank
      PROVE  read[n].value = v[fields[Nth(Written(fields, v), n)].name]
  <2> DEFINE k == Nth(Written(fields, v), n)
  <2> HIDE DEF code
  <2>1. k \in DOMAIN fields /\ TypeAt(fields, d, n) = fields[k].type /\ d.fields[n][2] = code[k] /\ n \in DOMAIN d.fields
    BY EntryIsField
  <2> HIDE DEF k, d
  <2>2. code[k] = EncLeaf(fields[k].type, v[fields[k].name])
    BY <2>1 DEF code
  <2>3. read[n] = ReadLeaf(fields[k].type, EncLeaf(fields[k].type, v[fields[k].name]), depth + 1)
    BY <2>1, <2>2
  <2>4. GoLeaf(fields[k].type, v[fields[k].name])
    BY <2>1 DEF GoFlat
  <2> HIDE DEF read
  <2>5. read[n] = Accept(v[fields[k].name])
    BY <1>2, <2>3, <2>4, LeafReadsBack
  <2>. QED
    BY <2>5, Words DEF k
<1> HIDE DEF read, code
<1>3. IsStruct(fields, v)
  BY DEF GoFlat
<1>. QED
  BY <1>1, <1>2, <1>3, RecordReadsBack

\* A field of a record with records of leaves in it.
LEMMA FlatFieldReadsBack ==
  ASSUME NEW f, NEW x, GoFlatField(f, x), ~Omitted(f, x), NEW depth,
         ReadFlatField(f.type, EncFlatField(f.type, x), depth).word = Blank
  PROVE  ReadFlatField(f.type, EncFlatField(f.type, x), depth) = Accept(x)
<1>1. CASE IsRecord(f.type)
  <2>1. Zero(f) = Nil
    BY <1>1, RecordsAreRecords DEF Zero
  <2>2. GoFlat(Schema[f.type], x)
    BY <1>1, <2>1 DEF GoFlatField, Omitted
  <2>3. GoodSchema(Schema[f.type])
    BY <1>1, SchemasGood DEF IsRecord
  <2>. QED
    BY <1>1, <2>2, <2>3, FlatReadsBack DEF ReadFlatField, EncFlatField
<1>2. CASE ~IsRecord(f.type)
  BY <1>2, LeafReadsBack DEF ReadFlatField, EncFlatField, GoFlatField
<1>. QED
  BY <1>1, <1>2

\* A record with records of leaves in it reads back.
LEMMA NestedReadsBack ==
  ASSUME NEW fields, GoodSchema(fields), NEW v, GoNested(fields, v), NEW depth,
         ReadNested(fields, EncNested(fields, v), depth).word = Blank
  PROVE  ReadNested(fields, EncNested(fields, v), depth) = Accept(v)
<1> DEFINE code == [i \in DOMAIN fields |-> EncFlatField(fields[i].type, v[fields[i].name])]
           d == EncRecord(fields, v, code)
           read == [i \in DOMAIN d.fields |-> ReadFlatField(TypeAt(fields, d, i), d.fields[i][2], depth + 1)]
<1>1. EncNested(fields, v) = d /\ ReadNested(fields, d, depth) = ReadRecord(fields, d, depth, read)
  BY DEF EncNested, ReadNested
<1>2. ASSUME NEW n \in 1..Cardinality(Written(fields, v)), read[n].word = Blank
      PROVE  read[n].value = v[fields[Nth(Written(fields, v), n)].name]
  <2> DEFINE k == Nth(Written(fields, v), n)
  <2> HIDE DEF code
  <2>1. /\ k \in DOMAIN fields /\ TypeAt(fields, d, n) = fields[k].type /\ d.fields[n][2] = code[k]
        /\ n \in DOMAIN d.fields /\ ~Omitted(fields[k], v[fields[k].name])
    BY EntryIsField
  <2> HIDE DEF k, d
  <2>2. code[k] = EncFlatField(fields[k].type, v[fields[k].name])
    BY <2>1 DEF code
  <2>3. read[n] = ReadFlatField(fields[k].type, EncFlatField(fields[k].type, v[fields[k].name]), depth + 1)
    BY <2>1, <2>2
  <2>4. GoFlatField(fields[k], v[fields[k].name])
    BY <2>1 DEF GoNested
  <2> HIDE DEF read
  <2>5. read[n] = Accept(v[fields[k].name])
    BY <1>2, <2>1, <2>3, <2>4, FlatFieldReadsBack
  <2>. QED
    BY <2>5, Words DEF k
<1> HIDE DEF read, code
<1>3. IsStruct(fields, v)
  BY DEF GoNested
<1>. QED
  BY <1>1, <1>2, <1>3, RecordReadsBack

\* The Go values of a record with such records in it.
GoNestedField(f, x) ==
  IF IsRecord(f.type) THEN (~f.required /\ x = Nil) \/ GoNested(Schema[f.type], x) ELSE GoLeaf(f.type, x)
GoValue(fields, v) ==
  IsStruct(fields, v) /\ \A i \in DOMAIN fields : GoNestedField(fields[i], v[fields[i].name])

\* A field of a record that nests twice.
LEMMA NestedFieldReadsBack ==
  ASSUME NEW f, NEW x, GoNestedField(f, x), ~Omitted(f, x), NEW depth,
         ReadNestedField(f.type, EncNestedField(f.type, x), depth).word = Blank
  PROVE  ReadNestedField(f.type, EncNestedField(f.type, x), depth) = Accept(x)
<1>1. CASE IsRecord(f.type)
  <2>1. Zero(f) = Nil
    BY <1>1, RecordsAreRecords DEF Zero
  <2>2. GoNested(Schema[f.type], x)
    BY <1>1, <2>1 DEF GoNestedField, Omitted
  <2>3. GoodSchema(Schema[f.type])
    BY <1>1, SchemasGood DEF IsRecord
  <2>. QED
    BY <1>1, <2>2, <2>3, NestedReadsBack DEF ReadNestedField, EncNestedField
<1>2. CASE ~IsRecord(f.type)
  BY <1>2, LeafReadsBack DEF ReadNestedField, EncNestedField, GoNestedField
<1>. QED
  BY <1>1, <1>2

\* What a reader of this package accepts of what its writer wrote is the value
\* that was written, for every value of every record (rec.go, enc* and decode*).
THEOREM ReadsBack ==
  ASSUME NEW fields, GoodSchema(fields), NEW v, GoValue(fields, v), NEW depth,
         Read(fields, Enc(fields, v), depth).word = Blank
  PROVE  Read(fields, Enc(fields, v), depth) = Accept(v)
<1> DEFINE code == [i \in DOMAIN fields |-> EncNestedField(fields[i].type, v[fields[i].name])]
           d == EncRecord(fields, v, code)
           read == [i \in DOMAIN d.fields |-> ReadNestedField(TypeAt(fields, d, i), d.fields[i][2], depth + 1)]
<1>1. Enc(fields, v) = d /\ Read(fields, d, depth) = ReadRecord(fields, d, depth, read)
  BY DEF Enc, Read
<1>2. ASSUME NEW n \in 1..Cardinality(Written(fields, v)), read[n].word = Blank
      PROVE  read[n].value = v[fields[Nth(Written(fields, v), n)].name]
  <2> DEFINE k == Nth(Written(fields, v), n)
  <2> HIDE DEF code
  <2>1. /\ k \in DOMAIN fields /\ TypeAt(fields, d, n) = fields[k].type /\ d.fields[n][2] = code[k]
        /\ n \in DOMAIN d.fields /\ ~Omitted(fields[k], v[fields[k].name])
    BY EntryIsField
  <2> HIDE DEF k, d
  <2>2. code[k] = EncNestedField(fields[k].type, v[fields[k].name])
    BY <2>1 DEF code
  <2>3. read[n] = ReadNestedField(fields[k].type, EncNestedField(fields[k].type, v[fields[k].name]), depth + 1)
    BY <2>1, <2>2
  <2>4. GoNestedField(fields[k], v[fields[k].name])
    BY <2>1 DEF GoValue
  <2> HIDE DEF read
  <2>5. read[n] = Accept(v[fields[k].name])
    BY <1>2, <2>1, <2>3, <2>4, NestedFieldReadsBack
  <2>. QED
    BY <2>5, Words DEF k
<1> HIDE DEF read, code
<1>3. IsStruct(fields, v)
  BY DEF GoValue
<1>. QED
  BY <1>1, <1>2, <1>3, RecordReadsBack

-----------------------------------------------------------------------------
(***************************************************************************)
(* The records the service's frames are made of.                           *)
(***************************************************************************)
\* A record's names, by position.
LEMMA NamesByPosition ==
  ASSUME NEW fields PROVE Names(fields) = {fields[i].name : i \in DOMAIN fields}
BY DEF Names, ToSet

\* The Go values of an envelope.
LEMMA FrameGo ==
  ASSUME NEW version, NEW service, NEW method, NEW arguments
  PROVE  GoFlat(FrameSchema, [version |-> version, service |-> service, method |-> method, arguments |-> arguments])
<1> DEFINE v == [version |-> version, service |-> service, method |-> method, arguments |-> arguments]
<1>1. Names(FrameSchema) = {"version", "service", "method", "arguments"}
  BY FrameFields, NamesByPosition
<1>2. IsStruct(FrameSchema, v)
  BY <1>1 DEF IsStruct
<1>3. \A i \in DOMAIN FrameSchema : FrameSchema[i].type # "bool"
  BY FrameFields
<1>. QED
  BY <1>2, <1>3 DEF GoFlat, GoLeaf

\* The Go values of a reply.
LEMMA ReplyGo ==
  ASSUME NEW version, NEW service, NEW method, NEW ok \in BOOLEAN, NEW payload
  PROVE  GoFlat(ReplySchema,
                [version |-> version, service |-> service, method |-> method, ok |-> ok, payload |-> payload])
<1> DEFINE v == [version |-> version, service |-> service, method |-> method, ok |-> ok, payload |-> payload]
<1>1. Names(ReplySchema) = {"version", "service", "method", "ok", "payload"}
  BY ReplyFields, NamesByPosition
<1>2. IsStruct(ReplySchema, v)
  BY <1>1 DEF IsStruct
<1>3. \A i \in DOMAIN ReplySchema : ReplySchema[i].type = "bool" => ReplySchema[i].name = "ok"
  BY ReplyFields
<1>4. v["ok"] \in BOOLEAN
  OBVIOUS
<1>. QED
  BY <1>2, <1>3, <1>4, Zenon DEF GoFlat, GoLeaf

\* The Go values of an error.
LEMMA ErrorGo ==
  ASSUME NEW code, NEW message PROVE GoFlat(ErrorSchema, [code |-> code, message |-> message])
<1> DEFINE v == [code |-> code, message |-> message]
<1>1. Names(ErrorSchema) = {"code", "message"}
  BY ErrorFields, NamesByPosition
<1>2. IsStruct(ErrorSchema, v)
  BY <1>1 DEF IsStruct
<1>3. \A i \in DOMAIN ErrorSchema : ErrorSchema[i].type # "bool"
  BY ErrorFields
<1>. QED
  BY <1>2, <1>3 DEF GoFlat, GoLeaf

\* The Go values of the arguments and of the results.
LEMMA ArgumentsGo ==
  ASSUME NEW ref, GoFlat(RefSchema, ref) PROVE GoNested(ArgumentsSchema, [ref |-> ref])
<1> DEFINE v == [ref |-> ref]
<1>1. Names(ArgumentsSchema) = {"ref"}
  BY ArgumentsFields, NamesByPosition
<1>2. IsStruct(ArgumentsSchema, v)
  BY <1>1 DEF IsStruct
<1>3. IsRecord("Ref") /\ Schema["Ref"] = RefSchema
  BY DEF IsRecord, Schema
<1>4. GoFlatField(ArgumentsSchema[1], v.ref)
  BY <1>3, ArgumentsFields DEF GoFlatField
<1>5. \A i \in DOMAIN ArgumentsSchema : i = 1
  BY ArgumentsFields
<1>6. v[ArgumentsSchema[1].name] = v.ref
  BY ArgumentsFields
<1>. QED
  BY <1>2, <1>4, <1>5, <1>6, Zenon DEF GoNested

\* The Go values of a result of the resolver.
LEMMA ResolveResultGo ==
  ASSUME NEW x, GoNested(LookupResultSchema, x) PROVE GoValue(ResolveResultSchema, [value |-> x])
<1> DEFINE v == [value |-> x]
<1>1. Names(ResolveResultSchema) = {"value"}
  BY ResolveResultFields, NamesByPosition
<1>2. IsStruct(ResolveResultSchema, v)
  BY <1>1 DEF IsStruct
<1>3. IsRecord("LookupResult") /\ Schema["LookupResult"] = LookupResultSchema
  BY DEF IsRecord, Schema
<1>4. GoNestedField(ResolveResultSchema[1], v.value)
  BY <1>3, ResolveResultFields DEF GoNestedField
<1>5. \A i \in DOMAIN ResolveResultSchema : i = 1
  BY ResolveResultFields
<1>6. v[ResolveResultSchema[1].name] = v.value
  BY ResolveResultFields
<1>. QED
  BY <1>2, <1>4, <1>5, <1>6, Zenon DEF GoValue

\* The Go values of a result of the manifest service.
LEMMA ManifestResolveResultGo ==
  ASSUME NEW x, GoNested(ManifestResultSchema, x) PROVE GoValue(ManifestResolveResultSchema, [value |-> x])
<1> DEFINE v == [value |-> x]
<1>1. Names(ManifestResolveResultSchema) = {"value"}
  BY ManifestResolveResultFields, NamesByPosition
<1>2. IsStruct(ManifestResolveResultSchema, v)
  BY <1>1 DEF IsStruct
<1>3. IsRecord("ManifestResult") /\ Schema["ManifestResult"] = ManifestResultSchema
  BY DEF IsRecord, Schema
<1>4. GoNestedField(ManifestResolveResultSchema[1], v.value)
  BY <1>3, ManifestResolveResultFields DEF GoNestedField
<1>5. \A i \in DOMAIN ManifestResolveResultSchema : i = 1
  BY ManifestResolveResultFields
<1>6. v[ManifestResolveResultSchema[1].name] = v.value
  BY ManifestResolveResultFields
<1>. QED
  BY <1>2, <1>4, <1>5, <1>6, Zenon DEF GoValue

\* Accepted arguments are a reference and nothing else.
LEMMA ArgumentsShape ==
  ASSUME NEW d, NEW depth, ReadNested(ArgumentsSchema, d, depth).word = Blank
  PROVE  ReadNested(ArgumentsSchema, d, depth) = Accept([ref |-> ReadNested(ArgumentsSchema, d, depth).value.ref])
<1>1. Names(ArgumentsSchema) = {"ref"}
  BY ArgumentsFields, NamesByPosition
<1>2. ASSUME NEW read, ReadRecord(ArgumentsSchema, d, depth, read).word = Blank
      PROVE  \E f \in [{"ref"} -> {read[i].value : i \in {EntryOf(d, "ref")}} \cup {Zero(FieldOf(ArgumentsSchema, "ref"))}] :
                ReadRecord(ArgumentsSchema, d, depth, read) = Accept(f)
  BY <1>1, <1>2, Words, BlankIsNoWord DEF ReadRecord, Closed
<1>3. PICK f : f = [n \in {"ref"} |-> f[n]] /\ ReadNested(ArgumentsSchema, d, depth) = Accept(f)
  BY <1>2 DEF ReadNested
<1>4. f = [ref |-> f.ref]
  BY <1>3
<1>. QED
  BY <1>3, <1>4, Words

\* The same, of an object that is known to be a written record.
LEMMA WrittenIsAccepted ==
  ASSUME NEW fields, GoodSchema(fields), NEW v, NEW code, NEW depth, NEW read, NEW d, d = EncRecord(fields, v, code)
  PROVE  ReadRecord(fields, d, depth, read).word = Blank
           <=> ~TooDeep(depth) /\ \A n \in DOMAIN d.fields : read[n].word = Blank
BY WrittenIsRead

\* A written record of leaves is read exactly when each leaf is.
LEMMA FlatIsRead ==
  ASSUME NEW fields, GoodSchema(fields), NEW v, NEW depth
  PROVE  ReadFlat(fields, EncFlat(fields, v), depth).word = Blank <=>
           /\ ~TooDeep(depth)
           /\ \A k \in Written(fields, v) :
                 ReadLeaf(fields[k].type, EncLeaf(fields[k].type, v[fields[k].name]), depth + 1).word = Blank
<1> DEFINE written == Written(fields, v)
           c == Cardinality(written)
           code == [i \in DOMAIN fields |-> EncLeaf(fields[i].type, v[fields[i].name])]
           d == EncRecord(fields, v, code)
           read == [i \in DOMAIN d.fields |-> ReadLeaf(TypeAt(fields, d, i), d.fields[i][2], depth + 1)]
           Leaf1(k) == ReadLeaf(fields[k].type, EncLeaf(fields[k].type, v[fields[k].name]), depth + 1)
<1>1. EncFlat(fields, v) = d /\ ReadFlat(fields, d, depth) = ReadRecord(fields, d, depth, read)
  BY DEF EncFlat, ReadFlat
<1> HIDE DEF code, read
<1>2. /\ DOMAIN d.fields = 1..c /\ \A n \in 1..c : Nth(written, n) \in written
      /\ \A k \in written : \E n \in 1..c : Nth(written, n) = k
  BY WrittenEntries
<1> USE DEF code, read
<1>3. ASSUME NEW n \in 1..c PROVE read[n] = Leaf1(Nth(written, n))
  <2> DEFINE k == Nth(written, n)
  <2> HIDE DEF code
  <2>1. k \in DOMAIN fields /\ TypeAt(fields, d, n) = fields[k].type /\ d.fields[n][2] = code[k] /\ n \in DOMAIN d.fields
    BY EntryIsField
  <2> HIDE DEF k, d
  <2>2. code[k] = EncLeaf(fields[k].type, v[fields[k].name])
    BY <2>1 DEF code
  <2>. QED
    BY <2>1, <2>2 DEF k
<1> HIDE DEF read, code, c, Leaf1
<1>4. ReadRecord(fields, d, depth, read).word = Blank <=> ~TooDeep(depth) /\ \A n \in DOMAIN d.fields : read[n].word = Blank
  BY WrittenIsAccepted
<1> HIDE DEF d, written
<1>5. ReadFlat(fields, EncFlat(fields, v), depth).word = Blank <=> ~TooDeep(depth) /\ \A k \in written : Leaf1(k).word = Blank
  BY <1>1, <1>2, <1>3, <1>4
<1>. QED
  BY <1>5 DEF Leaf1, written

-----------------------------------------------------------------------------
(***************************************************************************)
(* Opaque values: skipValue, which goes level by level, carries exactly the *)
(* values nothing is wrong with.                                           *)
(***************************************************************************)
\* The levels of a value, as a function that satisfies its own definition.
LevelsTo(d, m, g) == g = [n \in 0..m |-> IF n = 0 THEN {d} ELSE Inside(g[n - 1])]

\* There is such a function, to any depth.
LEMMA LevelsExist ==
  ASSUME NEW d, NEW m \in Nat
  PROVE  \E g : LevelsTo(d, m, g)
<1> DEFINE T == {k \in Nat : ~\E g : LevelsTo(d, k, g)}
<1> SUFFICES ASSUME T # {} PROVE FALSE
  BY DEF T
<1>1. PICK k \in T : \A y \in T : k <= y
  <2>1. T \in SUBSET Nat
    OBVIOUS
  <2> QED BY <2>1, MinOfPositions
<1>2. k \in Nat /\ ~\E g : LevelsTo(d, k, g)
  BY <1>1
<1>3. CASE k = 0
  <2> DEFINE g == [n \in 0..0 |-> {d}]
  <2>1. LevelsTo(d, 0, g)
    BY DEF LevelsTo
  <2> QED BY <1>2, <1>3, <2>1
<1>4. CASE k # 0
  <2>1. k - 1 \in Nat /\ k - 1 \notin T
    BY <1>1, <1>2, <1>4
  <2>2. PICK g : LevelsTo(d, k - 1, g)
    BY <2>1
  <2> DEFINE h == [n \in 0..k |-> IF n = k THEN Inside(g[k - 1]) ELSE g[n]]
  <2>3. LevelsTo(d, k, h)
    <3>1. ASSUME NEW n \in 0..k PROVE h[n] = IF n = 0 THEN {d} ELSE Inside(h[n - 1])
      <4>1. CASE n = k
        BY <1>2, <1>4, <4>1
      <4>2. CASE n # k
        <5>1. n \in 0..(k - 1) /\ h[n] = g[n] /\ (n # 0 => n - 1 \in 0..(k - 1) /\ h[n - 1] = g[n - 1])
          BY <1>2, <4>2
        <5>2. g[n] = IF n = 0 THEN {d} ELSE Inside(g[n - 1])
          BY <2>2, <5>1 DEF LevelsTo
        <5> HIDE DEF h
        <5> QED BY <5>1, <5>2
      <4> QED BY <4>1, <4>2
    <3>2. h = [n \in 0..k |-> h[n]]
      OBVIOUS
    <3> HIDE DEF h
    <3>3. h = [n \in 0..k |-> IF n = 0 THEN {d} ELSE Inside(h[n - 1])]
      BY <3>1, <3>2
    <3> QED BY <3>3 DEF LevelsTo
  <2> QED BY <1>2, <2>3
<1> QED BY <1>3, <1>4

\* A level is what is inside the level above it.
LEMMA LevelsUnfold ==
  ASSUME NEW d
  PROVE  /\ Levels(d)[0] = {d}
         /\ \A n \in 1..DepthLimit : Levels(d)[n] = Inside(Levels(d)[n - 1])
<1>1. \E g : LevelsTo(d, DepthLimit, g)
  BY LevelsExist, DepthAssumption
<1>2. LevelsTo(d, DepthLimit, Levels(d))
  BY <1>1 DEF Levels, LevelsTo
<1> DEFINE g == Levels(d)
<1> HIDE DEF g
<1>3. LevelsTo(d, DepthLimit, g)
  BY <1>2 DEF g
<1>4. ASSUME NEW n \in 0..DepthLimit PROVE g[n] = IF n = 0 THEN {d} ELSE Inside(g[n - 1])
  BY <1>3 DEF LevelsTo
<1>5. 0 \in 0..DepthLimit /\ \A n \in 1..DepthLimit : n \in 0..DepthLimit /\ n # 0
  BY DepthAssumption
<1>6. g[0] = {d}
  BY <1>4, <1>5
<1>7. \A n \in 1..DepthLimit : g[n] = Inside(g[n - 1])
  BY <1>4, <1>5
<1> QED BY <1>6, <1>7 DEF g

\* One level of a value is the level above it of the values in it.
LEMMA LevelsOfInside ==
  ASSUME NEW d, NEW n \in 0..(DepthLimit - 1)
  PROVE  Levels(d)[n + 1] = UNION {Levels(y)[n] : y \in Inside({d})}
<1> DEFINE Shifted(k) == Levels(d)[k + 1] = UNION {Levels(y)[k] : y \in Inside({d})}
           T == {k \in Nat : k <= DepthLimit - 1 /\ ~Shifted(k)}
<1>0. DepthLimit \in Nat /\ DepthLimit >= 1
  BY DepthAssumption
<1> SUFFICES ASSUME T # {} PROVE FALSE
  <2>1. n \in Nat /\ n <= DepthLimit - 1
    BY <1>0
  <2> QED BY <2>1
<1>1. PICK k \in T : \A y \in T : k <= y
  <2>1. T \in SUBSET Nat
    OBVIOUS
  <2> QED BY <2>1, MinOfPositions
<1>2. k \in Nat /\ k <= DepthLimit - 1 /\ ~Shifted(k)
  BY <1>1
<1>3. CASE k = 0
  <2>1. Levels(d)[1] = Inside({d})
    <3>1. 1 \in 1..DepthLimit /\ 1 - 1 = 0
      BY <1>0
    <3>2. Levels(d)[1] = Inside(Levels(d)[1 - 1])
      BY <3>1, LevelsUnfold
    <3> QED BY <3>1, <3>2, LevelsUnfold
  <2>2. \A y : Levels(y)[0] = {y}
    BY LevelsUnfold
  <2>3. UNION {Levels(y)[0] : y \in Inside({d})} = Inside({d})
    BY <2>2
  <2>4. k + 1 = 1
    BY <1>3
  <2>5. ~Shifted(0)
    BY <1>2, <1>3
  <2> QED BY <2>1, <2>3, <2>4, <2>5, <1>3
<1>4. CASE k # 0
  <2>1. k - 1 \in Nat /\ k - 1 \notin T /\ k - 1 <= DepthLimit - 1
    <3> HIDE DEF Shifted
    <3>1. k - 1 \in Nat /\ k - 1 <= DepthLimit - 1 /\ ~(k <= k - 1)
      BY <1>0, <1>2, <1>4
    <3>2. k - 1 \notin T
      <4> HIDE DEF T
      <4> QED BY <1>1, <3>1
    <3> QED BY <3>1, <3>2
  <2>2. Shifted(k - 1)
    BY <2>1
  <2>3. Levels(d)[k] = UNION {Levels(y)[k - 1] : y \in Inside({d})}
    <3>1. (k - 1) + 1 = k
      BY <1>2
    <3> QED BY <2>2, <3>1
  <2>4. Levels(d)[k + 1] = Inside(Levels(d)[k])
    <3>1. k + 1 \in 1..DepthLimit /\ (k + 1) - 1 = k
      BY <1>0, <1>2
    <3> QED BY <3>1, LevelsUnfold
  <2>5. \A y : Levels(y)[k] = Inside(Levels(y)[k - 1])
    <3>1. k \in 1..DepthLimit
      BY <1>0, <1>2, <1>4
    <3> QED BY <3>1, LevelsUnfold
  <2>6. Inside(UNION {Levels(y)[k - 1] : y \in Inside({d})})
          = UNION {Inside(Levels(y)[k - 1]) : y \in Inside({d})}
    BY DEF Inside
  <2> QED BY <1>2, <2>3, <2>4, <2>5, <2>6
<1> QED BY <1>3, <1>4

\* A value is sound when it is by itself and the values in it are.
LEMMA SoundUnfold ==
  ASSUME NEW d, NEW depth \in 0..DepthLimit
  PROVE  /\ depth = DepthLimit => (Sound(d, depth) <=> SoundAt(d, depth))
         /\ depth < DepthLimit =>
              (Sound(d, depth) <=> SoundAt(d, depth) /\ \A y \in Inside({d}) : Sound(y, depth + 1))
<1>0. DepthLimit \in Nat /\ DepthLimit >= 1
  BY DepthAssumption
<1>1. Levels(d)[0] = {d}
  BY LevelsUnfold
<1>2. CASE depth = DepthLimit
  <2>1. 0..(DepthLimit - depth) = {0} /\ depth + 0 = depth
    BY <1>0, <1>2
  <2> QED BY <1>0, <1>1, <1>2, <2>1 DEF Sound
<1>3. CASE depth < DepthLimit
  <2>1. ASSUME Sound(d, depth)
        PROVE  SoundAt(d, depth) /\ \A y \in Inside({d}) : Sound(y, depth + 1)
    <3>1. SoundAt(d, depth)
      <4>1. 0 \in 0..(DepthLimit - depth) /\ depth + 0 = depth /\ d \in Levels(d)[0]
        BY <1>0, <1>1
      <4>2. SoundAt(d, depth + 0)
        BY <2>1, <4>1 DEF Sound
      <4> QED BY <4>1, <4>2
    <3>2. ASSUME NEW y \in Inside({d}), NEW n \in 0..(DepthLimit - (depth + 1)), NEW x \in Levels(y)[n]
          PROVE  SoundAt(x, (depth + 1) + n)
      <4>1. n + 1 \in 0..(DepthLimit - depth) /\ n \in 0..(DepthLimit - 1) /\ depth + (n + 1) = (depth + 1) + n
        BY <1>0
      <4>2. x \in Levels(d)[n + 1]
        BY <3>2, <4>1, LevelsOfInside
      <4>3. SoundAt(x, depth + (n + 1))
        BY <2>1, <4>1, <4>2 DEF Sound
      <4> QED BY <4>1, <4>3
    <3>3. \A y \in Inside({d}) : Sound(y, depth + 1)
      BY <3>2 DEF Sound
    <3> QED BY <3>1, <3>3
  <2>2. ASSUME SoundAt(d, depth), \A y \in Inside({d}) : Sound(y, depth + 1)
        PROVE  Sound(d, depth)
    <3>1. ASSUME NEW n \in 0..(DepthLimit - depth), NEW x \in Levels(d)[n]
          PROVE  SoundAt(x, depth + n)
      <4>1. CASE n = 0
        <5>1. x = d /\ depth + n = depth
          BY <1>0, <1>1, <4>1
        <5> QED BY <2>2, <5>1
      <4>2. CASE n # 0
        <5>1. /\ n - 1 \in 0..(DepthLimit - 1) /\ (n - 1) + 1 = n
              /\ n - 1 \in 0..(DepthLimit - (depth + 1)) /\ (depth + 1) + (n - 1) = depth + n
          BY <1>0, <4>2
        <5>2. PICK y \in Inside({d}) : x \in Levels(y)[n - 1]
          BY <5>1, LevelsOfInside
        <5>3. SoundAt(x, (depth + 1) + (n - 1))
          BY <2>2, <5>1, <5>2 DEF Sound
        <5> QED BY <5>1, <5>3
      <4> QED BY <4>1, <4>2
    <3> QED BY <3>1 DEF Sound
  <2> QED BY <1>3, <2>1, <2>2
<1> QED BY <1>0, <1>2, <1>3

\* A reader that may go no deeper does not look inside.
LEMMA SkipAtLimit ==
  ASSUME NEW d, NEW b, NEW c PROVE skipLevel(d, 0, b) = skipLevel(d, 0, c)
<1>1. TooDeep(DepthLimit - 0)
  BY DepthAssumption DEF TooDeep
<1>2. ASSUME NEW x, NEW i, NEW j PROVE skipContainer(x, DepthLimit - 0, i) = skipContainer(x, DepthLimit - 0, j)
  BY <1>1, Zenon DEF skipContainer
<1> DEFINE Of(b1, x) == IF IsContainer(x) THEN skipContainer(x, DepthLimit - 0, [i \in DOMAIN x.fields |-> b1[x.fields[i][2]]])
                       ELSE skipLeaf(x)
<1>3. \A x : Of(b, x) = Of(c, x)
  BY <1>2, Zenon
<1>4. skipLevel(d, 0, b) = [x \in Nested(d) |-> Of(b, x)] /\ skipLevel(d, 0, c) = [x \in Nested(d) |-> Of(c, x)]
  BY Zenon DEF skipLevel
<1> HIDE DEF Of
<1> QED BY <1>3, <1>4, Zenon

\* skipValue's levels, as a function that satisfies its own definition.
SkipTo(d, m, g) == g = [left \in 0..m |-> skipLevel(d, left, g[left - 1])]

\* There is such a function, to any depth.
LEMMA SkipExists ==
  ASSUME NEW d, NEW m \in Nat
  PROVE  \E g : SkipTo(d, m, g)
<1> DEFINE T == {k \in Nat : ~\E g : SkipTo(d, k, g)}
<1> SUFFICES ASSUME T # {} PROVE FALSE
  BY DEF T
<1>1. PICK k \in T : \A y \in T : k <= y
  <2>1. T \in SUBSET Nat
    OBVIOUS
  <2> QED BY <2>1, MinOfPositions
<1>2. k \in Nat /\ ~\E g : SkipTo(d, k, g)
  BY <1>1
<1>3. CASE k = 0
  <2> DEFINE g == [n \in 0..0 |-> skipLevel(d, 0, {})]
  <2>1. skipLevel(d, 0, {}) = skipLevel(d, 0, g[0 - 1])
    BY SkipAtLimit
  <2>2. g[0] = skipLevel(d, 0, g[0 - 1])
    BY <2>1
  <2>3. g = [n \in 0..0 |-> g[n]]
    OBVIOUS
  <2> HIDE DEF g
  <2>4. g = [n \in 0..0 |-> skipLevel(d, n, g[n - 1])]
    BY <2>2, <2>3
  <2>5. SkipTo(d, 0, g)
    BY <2>4 DEF SkipTo
  <2> QED BY <1>2, <1>3, <2>5
<1>4. CASE k # 0
  <2>1. k - 1 \in Nat /\ k - 1 \notin T
    BY <1>1, <1>2, <1>4
  <2>2. PICK g : SkipTo(d, k - 1, g)
    BY <2>1
  <2> DEFINE h == [n \in 0..k |-> IF n = k THEN skipLevel(d, k, g[k - 1]) ELSE g[n]]
  <2>3. SkipTo(d, k, h)
    <3>1. ASSUME NEW n \in 0..k PROVE h[n] = skipLevel(d, n, h[n - 1])
      <4>1. CASE n = k
        BY <1>2, <1>4, <4>1
      <4>2. CASE n # k /\ n # 0
        <5>1. n \in 0..(k - 1) /\ h[n] = g[n] /\ n - 1 \in 0..(k - 1) /\ h[n - 1] = g[n - 1]
          BY <1>2, <4>2
        <5>2. g[n] = skipLevel(d, n, g[n - 1])
          BY <2>2, <5>1 DEF SkipTo
        <5> HIDE DEF h
        <5> QED BY <5>1, <5>2
      <4>3. CASE n = 0
        <5>1. 0 \in 0..(k - 1) /\ h[0] = g[0]
          BY <1>2, <1>4
        <5>2. g[0] = skipLevel(d, 0, g[0 - 1])
          BY <2>2, <5>1 DEF SkipTo
        <5> HIDE DEF h
        <5>3. skipLevel(d, 0, g[0 - 1]) = skipLevel(d, 0, h[0 - 1])
          BY SkipAtLimit
        <5> QED BY <4>3, <5>1, <5>2, <5>3
      <4> HIDE DEF h
      <4> QED BY <4>1, <4>2, <4>3
    <3>2. h = [n \in 0..k |-> h[n]]
      OBVIOUS
    <3> HIDE DEF h
    <3>3. h = [n \in 0..k |-> skipLevel(d, n, h[n - 1])]
      BY <3>1, <3>2
    <3> QED BY <3>3 DEF SkipTo
  <2> QED BY <1>2, <2>3
<1> QED BY <1>3, <1>4

\* What skipValue says of a value, from what it says of the values in it.
LEMMA SkipUnfold ==
  ASSUME NEW d, NEW x \in Nested(d), NEW left \in 0..DepthLimit
  PROVE  SkipLevels(d)[left][x] =
           IF IsContainer(x)
           THEN skipContainer(x, DepthLimit - left, [i \in DOMAIN x.fields |-> SkipLevels(d)[left - 1][x.fields[i][2]]])
           ELSE skipLeaf(x)
<1>1. \E g : SkipTo(d, DepthLimit, g)
  BY SkipExists, DepthAssumption
<1>2. SkipTo(d, DepthLimit, SkipLevels(d))
  BY <1>1 DEF SkipLevels, SkipTo
<1> DEFINE g == SkipLevels(d)
<1> HIDE DEF g
<1>3. SkipTo(d, DepthLimit, g)
  BY <1>2 DEF g
<1>4. g[left] = skipLevel(d, left, g[left - 1])
  BY <1>3 DEF SkipTo
<1>5. g[left][x] =
           IF IsContainer(x)
           THEN skipContainer(x, DepthLimit - left, [i \in DOMAIN x.fields |-> g[left - 1][x.fields[i][2]]])
           ELSE skipLeaf(x)
  BY <1>4, Zenon DEF skipLevel
<1> QED BY <1>5 DEF g

-----------------------------------------------------------------------------
\* No key stands before one that equals it exactly when each stands once.
LEMMA OnceInOrder ==
  ASSUME NEW d, NEW n \in Nat, DOMAIN d.fields = 1..n
  PROVE  Once(d) <=> \A i \in DOMAIN d.fields : d.fields[i][1] \notin KeysBefore(d, i)
<1>1. ASSUME Once(d), NEW i \in DOMAIN d.fields PROVE d.fields[i][1] \notin KeysBefore(d, i)
  BY <1>1 DEF Once, KeysBefore
<1>2. ASSUME \A i \in DOMAIN d.fields : d.fields[i][1] \notin KeysBefore(d, i),
             NEW i \in DOMAIN d.fields, NEW j \in DOMAIN d.fields, d.fields[i][1] = d.fields[j][1]
      PROVE  i = j
  <2>1. i \in Nat /\ j \in Nat
    OBVIOUS
  <2>2. CASE i < j
    <3>1. d.fields[i][1] \in KeysBefore(d, j)
      BY <2>2 DEF KeysBefore
    <3> QED BY <1>2, <3>1
  <2>3. CASE j < i
    <3>1. d.fields[j][1] \in KeysBefore(d, i)
      BY <2>3 DEF KeysBefore
    <3> QED BY <1>2, <3>1
  <2> QED BY <2>1, <2>2, <2>3
<1> QED BY <1>1, <1>2 DEF Once

\* A key is refused when it is one of the marks.
LEMMA KeyRefused == ASSUME NEW key PROVE KeyRefusal(key) = Blank <=> key \notin {NoKey, BadText}
BY BlankIsNoWord DEF KeyRefusal

\* Neither of two refusals.
LEMMA EitherBlank == ASSUME NEW a, NEW b PROVE Either(a, b) = Blank <=> a = Blank /\ b = Blank
BY DEF Either

\* A container is carried when it is shut and not too deep, its keys are keys and
\* stand once, and what is in it is carried.
LEMMA ContainerSkipped ==
  ASSUME NEW d, IsContainer(d), NEW n \in Nat, DOMAIN d.fields = 1..n, NEW depth \in 0..DepthLimit, NEW inside
  PROVE  skipContainer(d, depth, inside) = Blank <=>
           SoundAt(d, depth) /\ \A i \in DOMAIN d.fields : inside[i] = Blank
<1> DEFINE words == [i \in DOMAIN d.fields |->
                       Either(EntryRefusal(d.kind, d.fields[i][1], KeysBefore(d, i)), inside[i])]
<1>1. TooDeep(depth) <=> ~(depth < DepthLimit)
  BY DepthAssumption DEF TooDeep
<1>2. FirstWord(words) = Blank <=> \A i \in DOMAIN d.fields : words[i] = Blank
  <2>1. DOMAIN words = DOMAIN d.fields /\ DOMAIN words \in SUBSET Nat
    OBVIOUS
  <2> HIDE DEF words
  <2> QED BY <2>1, FirstWordBlank
<1>3. ASSUME NEW i \in DOMAIN d.fields
      PROVE  words[i] = Blank <=> EntryRefusal(d.kind, d.fields[i][1], KeysBefore(d, i)) = Blank /\ inside[i] = Blank
  BY EitherBlank
<1>4. skipContainer(d, depth, inside) = IF TooDeep(depth) THEN "depth_exceeded" ELSE shut(d, FirstWord(words))
  BY Zenon DEF skipContainer
<1> HIDE DEF words
<1>5. skipContainer(d, depth, inside) = Blank <=> depth < DepthLimit /\ d.text # "open" /\ FirstWord(words) = Blank
  BY <1>1, <1>4, BlankIsNoWord DEF shut
<1>6. (\A i \in DOMAIN d.fields : EntryRefusal(d.kind, d.fields[i][1], KeysBefore(d, i)) = Blank) <=>
        (d.kind = "object" => Once(d) /\ Keys(d) \cap {NoKey, BadText} = {})
  <2>1. CASE d.kind = "object"
    <3>1. ASSUME NEW i \in DOMAIN d.fields
          PROVE  EntryRefusal(d.kind, d.fields[i][1], KeysBefore(d, i)) = Blank <=>
                   d.fields[i][1] \notin {NoKey, BadText} /\ d.fields[i][1] \notin KeysBefore(d, i)
      BY <2>1, KeyRefused, BlankIsNoWord DEF EntryRefusal
    <3>2. Keys(d) \cap {NoKey, BadText} = {} <=> \A i \in DOMAIN d.fields : d.fields[i][1] \notin {NoKey, BadText}
      BY DEF Keys
    <3>3. Once(d) <=> \A i \in DOMAIN d.fields : d.fields[i][1] \notin KeysBefore(d, i)
      BY OnceInOrder
    <3> QED BY <2>1, <3>1, <3>2, <3>3
  <2>2. CASE d.kind # "object"
    BY <2>2 DEF EntryRefusal
  <2> QED BY <2>1, <2>2
<1>7. SoundAt(d, depth) <=> /\ depth < DepthLimit /\ d.text # "open"
                            /\ d.kind = "object" => Once(d) /\ Keys(d) \cap {NoKey, BadText} = {}
  <2>1. d.kind # "string" /\ d.kind # "junk"
    BY DEF IsContainer
  <2> QED BY <2>1 DEF SoundAt
<1> QED BY <1>2, <1>3, <1>5, <1>6, <1>7

\* A text's tree: the value and everything in it.
IsTree(d) == \E T : d \in T /\ Whole(T)

\* A list's entries stand one after another.
LEMMA ListDomain == ASSUME NEW s, IsList(s) PROVE \E n \in Nat : DOMAIN s = 1..n
<1>1. s \in Seq({s[i] : i \in DOMAIN s})
  BY Zenon DEF IsList
<1> QED BY <1>1, LenProperties

\* What is inside whole values is among them.
LEMMA LevelsWithin ==
  ASSUME NEW T, Whole(T), NEW d \in T, NEW m \in 0..DepthLimit
  PROVE  \A x \in Levels(d)[m] : x \in T
<1> DEFINE In(k) == \A x \in Levels(d)[k] : x \in T
           S == {k \in Nat : k <= DepthLimit /\ ~In(k)}
<1>0. DepthLimit \in Nat
  BY DepthAssumption
<1> SUFFICES ASSUME S # {} PROVE FALSE
  <2>1. m \in Nat /\ m <= DepthLimit
    BY <1>0
  <2> QED BY <2>1
<1>1. PICK k \in S : \A y \in S : k <= y
  <2>1. S \in SUBSET Nat
    OBVIOUS
  <2> QED BY <2>1, MinOfPositions
<1>2. k \in Nat /\ k <= DepthLimit /\ ~In(k)
  BY <1>1
<1>3. CASE k = 0
  BY <1>2, <1>3, LevelsUnfold
<1>4. CASE k # 0
  <2>1. k - 1 \in Nat /\ k - 1 <= DepthLimit /\ ~(k <= k - 1) /\ k \in 1..DepthLimit
    BY <1>0, <1>2, <1>4
  <2>2. k - 1 \notin S
    <3> HIDE DEF S
    <3> QED BY <1>1, <2>1
  <2>3. In(k - 1)
    <3> HIDE DEF In
    <3> QED BY <2>1, <2>2
  <2>4. Levels(d)[k] = Inside(Levels(d)[k - 1])
    BY <2>1, LevelsUnfold
  <2> QED BY <1>2, <2>3, <2>4 DEF Inside, Whole
<1> QED BY <1>3, <1>4

\* The values in a container are one level further inside.
LEMMA OneLevelDown ==
  ASSUME NEW d, NEW m \in 0..(DepthLimit - 1), NEW x \in Levels(d)[m], IsContainer(x), NEW i \in DOMAIN x.fields
  PROVE  x.fields[i][2] \in Levels(d)[m + 1]
<1>1. m + 1 \in 1..DepthLimit /\ (m + 1) - 1 = m
  BY DepthAssumption
<1>2. Levels(d)[m + 1] = Inside(Levels(d)[m])
  BY <1>1, LevelsUnfold
<1>3. x.fields[i][2] \in Inside(Levels(d)[m])
  BY DEF Inside
<1> QED BY <1>2, <1>3

\* A leaf is skipped when it is sound.
LEMMA LeafSkipped ==
  ASSUME NEW x, ~IsContainer(x), NEW depth \in 0..DepthLimit
  PROVE  skipLeaf(x) = Blank <=> Sound(x, depth)
<1>1. Inside({x}) = {}
  BY DEF Inside
<1>2. Sound(x, depth) <=> SoundAt(x, depth)
  <2>1. depth = DepthLimit \/ depth < DepthLimit
    BY DepthAssumption
  <2> QED BY <1>1, <2>1, SoundUnfold
<1>3. skipLeaf(x) = Blank <=> SoundAt(x, depth)
  BY BlankIsNoWord DEF skipLeaf, SoundAt
<1> QED BY <1>2, <1>3

\* skipValue carries exactly the sound values.
LEMMA SkipIsSound ==
  ASSUME NEW d, IsTree(d), NEW depth \in 0..DepthLimit
  PROVE  SkipValue(d, depth) = Blank <=> Sound(d, depth)
<1> DEFINE Judged(left) == \A m \in 0..DepthLimit : \A x \in Levels(d)[m] :
                              m + left <= DepthLimit =>
                                (SkipLevels(d)[left][x] = Blank <=> Sound(x, DepthLimit - left))
           S == {k \in Nat : k <= DepthLimit /\ ~Judged(k)}
<1>0. DepthLimit \in Nat
  BY DepthAssumption
<1>a. PICK T : d \in T /\ Whole(T)
  BY DEF IsTree
<1>b. ASSUME NEW left \in Nat, left <= DepthLimit PROVE Judged(left)
  <2> SUFFICES ASSUME S # {} PROVE FALSE
    BY <1>b
  <2>1. PICK k \in S : \A y \in S : k <= y
    <3>1. S \in SUBSET Nat
      OBVIOUS
    <3> QED BY <3>1, MinOfPositions
  <2>2. k \in Nat /\ k <= DepthLimit /\ ~Judged(k)
    BY <2>1
  <2>3. PICK m \in 0..DepthLimit : \E x \in Levels(d)[m] :
           m + k <= DepthLimit /\ ~(SkipLevels(d)[k][x] = Blank <=> Sound(x, DepthLimit - k))
    BY <2>2
  <2>4. PICK x \in Levels(d)[m] :
           m + k <= DepthLimit /\ ~(SkipLevels(d)[k][x] = Blank <=> Sound(x, DepthLimit - k))
    BY <2>3
  <2>5. k - 1 \in Nat => Judged(k - 1)
    <3> SUFFICES ASSUME k - 1 \in Nat PROVE Judged(k - 1)
      OBVIOUS
    <3> HIDE DEF Judged
    <3>1. k - 1 <= DepthLimit /\ ~(k <= k - 1)
      BY <1>0, <2>2
    <3>2. k - 1 \notin S
      <4> HIDE DEF S
      <4> QED BY <2>1, <3>1
    <3> QED BY <3>1, <3>2
  <2> HIDE DEF S
  <2>6. x \in Nested(d) /\ k \in 0..DepthLimit /\ DepthLimit - k \in 0..DepthLimit
    BY <1>0, <2>2 DEF Nested
  <2>7. CASE ~IsContainer(x)
    <3>1. SkipLevels(d)[k][x] = skipLeaf(x)
      BY <2>6, <2>7, SkipUnfold
    <3>2. skipLeaf(x) = Blank <=> Sound(x, DepthLimit - k)
      BY <2>6, <2>7, LeafSkipped
    <3> QED BY <2>4, <3>1, <3>2
  <2>8. CASE IsContainer(x)
    <3> DEFINE inside == [i \in DOMAIN x.fields |-> SkipLevels(d)[k - 1][x.fields[i][2]]]
    <3>1. SkipLevels(d)[k][x] = skipContainer(x, DepthLimit - k, inside)
      BY <2>6, <2>8, SkipUnfold
    <3>2. x \in T
      BY <1>a, LevelsWithin
    <3>3. PICK n \in Nat : DOMAIN x.fields = 1..n
      BY <1>a, <2>8, <3>2, ListDomain DEF Whole
    <3> HIDE DEF inside
    <3>4. skipContainer(x, DepthLimit - k, inside) = Blank <=>
            SoundAt(x, DepthLimit - k) /\ \A i \in DOMAIN x.fields : inside[i] = Blank
      BY <2>6, <2>8, <3>3, ContainerSkipped
    <3>5. CASE k = 0
      <4>1. DepthLimit - k = DepthLimit /\ ~(DepthLimit < DepthLimit)
        BY <1>0, <3>5
      <4>2. ~SoundAt(x, DepthLimit)
        BY <2>8, <4>1 DEF SoundAt, IsContainer
      <4>3. ~Sound(x, DepthLimit)
        BY <2>6, <4>1, <4>2, SoundUnfold
      <4> QED BY <2>4, <3>1, <3>4, <4>1, <4>2, <4>3
    <3>6. CASE k # 0
      <4>1. /\ k - 1 \in Nat /\ DepthLimit - k < DepthLimit /\ (DepthLimit - k) + 1 = DepthLimit - (k - 1)
            /\ m \in 0..(DepthLimit - 1) /\ m + 1 \in 0..DepthLimit /\ (m + 1) + (k - 1) <= DepthLimit
        BY <1>0, <2>2, <2>4, <3>6
      <4>2. ASSUME NEW i \in DOMAIN x.fields
            PROVE  inside[i] = Blank <=> Sound(x.fields[i][2], (DepthLimit - k) + 1)
        <5>1. x.fields[i][2] \in Levels(d)[m + 1]
          BY <2>8, <4>1, OneLevelDown
        <5>2. SkipLevels(d)[k - 1][x.fields[i][2]] = Blank <=> Sound(x.fields[i][2], DepthLimit - (k - 1))
          BY <2>5, <4>1, <5>1
        <5> QED BY <4>1, <5>2 DEF inside
      <4>3. Sound(x, DepthLimit - k) <=>
              SoundAt(x, DepthLimit - k) /\ \A y \in Inside({x}) : Sound(y, (DepthLimit - k) + 1)
        BY <2>6, <4>1, SoundUnfold
      <4>4. Inside({x}) = {x.fields[i][2] : i \in DOMAIN x.fields}
        BY <2>8 DEF Inside
      <4> QED BY <2>4, <3>1, <3>4, <4>2, <4>3, <4>4
    <3> QED BY <3>5, <3>6
  <2> QED BY <2>7, <2>8
<1>1. DepthLimit - depth \in Nat /\ DepthLimit - depth <= DepthLimit /\ DepthLimit - (DepthLimit - depth) = depth
      /\ 0 \in 0..DepthLimit /\ 0 + (DepthLimit - depth) <= DepthLimit
  BY <1>0
<1>2. d \in Levels(d)[0]
  BY LevelsUnfold
<1>3. Judged(DepthLimit - depth)
  BY <1>1, <1>b
<1>4. SkipLevels(d)[DepthLimit - depth][d] = Blank <=> Sound(d, DepthLimit - (DepthLimit - depth))
  BY <1>1, <1>2, <1>3
<1> QED BY <1>1, <1>4 DEF SkipValue

\* The values in a tree are trees.
LEMMA TreeInside ==
  ASSUME NEW d, IsTree(d), IsContainer(d), NEW i \in DOMAIN d.fields PROVE IsTree(d.fields[i][2])
BY DEF IsTree, Whole

\* A container of a tree lists its entries.
LEMMA TreeList ==
  ASSUME NEW d, IsTree(d), IsContainer(d) PROVE \E n \in Nat : DOMAIN d.fields = 1..n
BY ListDomain DEF IsTree, Whole

-----------------------------------------------------------------------------
(***************************************************************************)
(* Reading and the schema: a record is read exactly when it fits.          *)
(***************************************************************************)
\* A leaf is read exactly when the schema admits it, and as what it means.
LEMMA LeafFits ==
  ASSUME NEW t, NEW d, IsTree(d), NEW depth \in 0..DepthLimit
  PROVE  /\ ReadLeaf(t, d, depth).word = Blank <=> FitsLeaf(t, d, depth)
         /\ ReadLeaf(t, d, depth).word = Blank => ReadLeaf(t, d, depth).value = MeaningLeaf(t, d)
<1>1. CASE t = "string"
  BY <1>1, Words, BlankIsNoWord DEF ReadLeaf, FitsLeaf, MeaningLeaf, ReadString
<1>2. CASE t = "int32"
  BY <1>2, Words, BlankIsNoWord DEF ReadLeaf, FitsLeaf, MeaningLeaf, ReadInteger
<1>3. CASE t = "bool"
  BY <1>3, Words, BlankIsNoWord DEF ReadLeaf, FitsLeaf, MeaningLeaf, ReadBoolean
<1>4. CASE t = "raw"
  <2>1. SkipValue(d, depth) = Blank <=> Sound(d, depth)
    BY SkipIsSound
  <2> QED BY <1>4, <2>1, Words DEF ReadLeaf, FitsLeaf, MeaningLeaf, ReadRaw, Carried
<1>5. CASE t \notin {"string", "int32", "bool", "raw"}
  <2>1. /\ ReadLeaf(t, d, depth) = ReadEnum(t, d) /\ MeaningLeaf(t, d) = d.text
        /\ FitsLeaf(t, d, depth) <=> (d.kind = "string" /\ d.text # BadText /\ d.text \in Vocabulary[t])
    BY <1>5 DEF ReadLeaf, FitsLeaf, MeaningLeaf
  <2>2. /\ ReadString(d).word = Blank <=> (d.kind = "string" /\ d.text # BadText)
        /\ ReadString(d).word = Blank => ReadString(d).value = d.text
    BY Words, BlankIsNoWord DEF ReadString
  <2> QED BY <2>1, <2>2, Words, BlankIsNoWord DEF ReadEnum
<1> QED BY <1>1, <1>2, <1>3, <1>4, <1>5

\* Which fields' keys are admitted, in the order of the text.
LEMMA KeysFit ==
  ASSUME NEW fields, GoodSchema(fields), NEW d, NEW n \in Nat, DOMAIN d.fields = 1..n
  PROVE  (\A i \in DOMAIN d.fields : FieldRefusal(fields, d.fields[i][1], KeysBefore(d, i)) = Blank)
           <=> Once(d) /\ Keys(d) \subseteq Names(fields)
<1>1. ASSUME NEW key, key \in Names(fields) PROVE KeyRefusal(key) = Blank
  <2>1. PICK k \in DOMAIN fields : key = fields[k].name
    BY <1>1, NamesByPosition
  <2> QED BY <2>1, Zenon DEF GoodSchema
<1>2. ASSUME NEW key, NEW seen
      PROVE  FieldRefusal(fields, key, seen) = Blank <=> key \in Names(fields) /\ key \notin seen
  BY <1>1, BlankIsNoWord DEF FieldRefusal
<1>3. Keys(d) \subseteq Names(fields) <=> \A i \in DOMAIN d.fields : d.fields[i][1] \in Names(fields)
  BY DEF Keys
<1>4. Once(d) <=> \A i \in DOMAIN d.fields : d.fields[i][1] \notin KeysBefore(d, i)
  BY OnceInOrder
<1> QED BY <1>2, <1>3, <1>4

\* When a record is read.
LEMMA RecordRead ==
  ASSUME NEW fields, GoodSchema(fields), NEW d, IsTree(d), NEW depth \in 0..DepthLimit, NEW read
  PROVE  LET r == ReadRecord(fields, d, depth, read)
         IN /\ r.word = Blank <=>
                 /\ d.kind = "object" /\ d.text # "open" /\ depth < DepthLimit
                 /\ Once(d) /\ Required(fields) \subseteq Keys(d) /\ Keys(d) \subseteq Names(fields)
                 /\ \A i \in DOMAIN d.fields : read[i].word = Blank
            /\ r.word = Blank => r = Accept(Built(fields, d, read))
<1> DEFINE r == ReadRecord(fields, d, depth, read)
           words == [i \in DOMAIN d.fields |->
                       Either(FieldRefusal(fields, d.fields[i][1], KeysBefore(d, i)), read[i].word)]
           value == Built(fields, d, read)
<1>1. CASE d.kind # "object"
  BY <1>1, Words, BlankIsNoWord DEF ReadRecord
<1>2. CASE d.kind = "object" /\ TooDeep(depth)
  <2>1. ~(depth < DepthLimit)
    BY <1>2, DepthAssumption DEF TooDeep
  <2>2. r = Refuse("depth_exceeded")
    BY <1>2, Zenon DEF ReadRecord
  <2> HIDE DEF r
  <2>3. r.word # Blank
    BY <2>2, Words, BlankIsNoWord
  <2> QED BY <2>1, <2>3 DEF r
<1>3. CASE d.kind = "object" /\ ~TooDeep(depth)
  <2>1. depth < DepthLimit /\ IsContainer(d)
    BY <1>3, DepthAssumption DEF TooDeep, IsContainer
  <2>2. PICK n \in Nat : DOMAIN d.fields = 1..n
    BY <2>1, TreeList
  <2>3. FirstWord(words) = Blank <=> \A i \in DOMAIN d.fields : words[i] = Blank
    <3>1. DOMAIN words = DOMAIN d.fields /\ DOMAIN words \in SUBSET Nat
      BY <2>2
    <3> HIDE DEF words
    <3> QED BY <3>1, FirstWordBlank
  <2>4. ASSUME NEW i \in DOMAIN d.fields
        PROVE  words[i] = Blank <=> FieldRefusal(fields, d.fields[i][1], KeysBefore(d, i)) = Blank /\ read[i].word = Blank
    BY EitherBlank
  <2>5. r = Closed(fields, d, read, FirstWord(words))
    BY <1>3, Zenon DEF ReadRecord
  <2> HIDE DEF words, r
  <2>6. FirstWord(words) = Blank <=> /\ Once(d) /\ Keys(d) \subseteq Names(fields)
                                     /\ \A i \in DOMAIN d.fields : read[i].word = Blank
    BY <2>2, <2>3, <2>4, KeysFit
  <2>7. /\ r.word = Blank <=> FirstWord(words) = Blank /\ d.text # "open" /\ Required(fields) \subseteq Keys(d)
        /\ r.word = Blank => r = Accept(value)
    <3>1. r = IF FirstWord(words) # Blank THEN Refuse(FirstWord(words))
              ELSE IF d.text = "open" THEN Refuse("malformed")
              ELSE IF ~(Required(fields) \subseteq Keys(d)) THEN Refuse("missing_field")
              ELSE Accept(value)
      BY <2>5, Zenon DEF Closed, Built
    <3> HIDE DEF value
    <3> QED BY <3>1, Words, BlankIsNoWord
  <2> HIDE DEF value
  <2>8. /\ r.word = Blank <=>
                 /\ d.kind = "object" /\ d.text # "open" /\ depth < DepthLimit
                 /\ Once(d) /\ Required(fields) \subseteq Keys(d) /\ Keys(d) \subseteq Names(fields)
                 /\ \A i \in DOMAIN d.fields : read[i].word = Blank
        /\ r.word = Blank => r = Accept(value)
    BY <1>3, <2>1, <2>6, <2>7
  <2> QED BY <2>8 DEF r, value
<1> QED BY <1>1, <1>2, <1>3

\* The entry that gives a key its value is the only one with that key.
LEMMA EntryFound ==
  ASSUME NEW d, NEW n \in Nat, DOMAIN d.fields = 1..n, Once(d), NEW i \in DOMAIN d.fields
  PROVE  /\ EntryOf(d, d.fields[i][1]) = i
         /\ (CHOOSE j \in DOMAIN d.fields : d.fields[j][1] = d.fields[i][1]) = i
<1>1. {j \in DOMAIN d.fields : d.fields[j][1] = d.fields[i][1]} = {i}
  BY DEF Once
<1>2. Max({i}) = i
  <2>1. i \in Nat
    OBVIOUS
  <2> QED BY <2>1 DEF Max
<1> QED BY <1>1, <1>2 DEF EntryOf, Once

\* The entries under the record's names are read when they fit, and as what they mean.
EntriesFit(fields, d, depth, read, fits, mean) ==
  (IsContainer(d) /\ depth < DepthLimit) =>
     \A i \in DOMAIN d.fields : d.fields[i][1] \in Names(fields) =>
        /\ read[i].word = Blank <=> fits[i]
        /\ read[i].word = Blank => read[i].value = mean[i]

\* A record is read exactly when it fits its schema, and as what it means, if that
\* is so of the entries.
LEMMA RecordFits ==
  ASSUME NEW fields, GoodSchema(fields), NEW d, IsTree(d), NEW depth \in 0..DepthLimit,
         NEW read, NEW fits, NEW mean, EntriesFit(fields, d, depth, read, fits, mean)
  PROVE  LET r == ReadRecord(fields, d, depth, read)
         IN /\ r.word = Blank <=> FitsRecord(fields, d, depth, fits)
            /\ r.word = Blank => r.value = MeaningRecord(fields, d, mean)
<1> DEFINE r == ReadRecord(fields, d, depth, read)
<1>1. /\ r.word = Blank <=>
                 /\ d.kind = "object" /\ d.text # "open" /\ depth < DepthLimit
                 /\ Once(d) /\ Required(fields) \subseteq Keys(d) /\ Keys(d) \subseteq Names(fields)
                 /\ \A i \in DOMAIN d.fields : read[i].word = Blank
      /\ r.word = Blank => r = Accept(Built(fields, d, read))
  BY RecordRead
<1> HIDE DEF r
<1>2. Keys(d) \subseteq Names(fields) => \A i \in DOMAIN d.fields : d.fields[i][1] \in Names(fields)
  BY DEF Keys
<1>3. d.kind = "object" => IsContainer(d)
  BY DEF IsContainer
<1>4. r.word = Blank <=> FitsRecord(fields, d, depth, fits)
  BY <1>1, <1>2, <1>3 DEF FitsRecord, EntriesFit
<1>5. ASSUME r.word = Blank PROVE r.value = MeaningRecord(fields, d, mean)
  <2>1. PICK n \in Nat : DOMAIN d.fields = 1..n
    BY <1>1, <1>3, <1>5, TreeList
  <2>2. ASSUME NEW x \in Keys(d)
        PROVE  read[EntryOf(d, x)].value = mean[CHOOSE i \in DOMAIN d.fields : d.fields[i][1] = x]
    <3>1. PICK i \in DOMAIN d.fields : x = d.fields[i][1]
      BY <2>2 DEF Keys
    <3>2. EntryOf(d, x) = i /\ (CHOOSE j \in DOMAIN d.fields : d.fields[j][1] = x) = i
      BY <1>1, <1>5, <2>1, <3>1, EntryFound
    <3>3. read[i].value = mean[i]
      BY <1>1, <1>2, <1>3, <1>5 DEF EntriesFit
    <3> QED BY <3>2, <3>3
  <2>3. r.value = Built(fields, d, read)
    BY <1>1, <1>5, Words
  <2>4. Built(fields, d, read) = MeaningRecord(fields, d, mean)
    BY <2>2, Zenon DEF Built, MeaningRecord
  <2> QED BY <2>3, <2>4
<1> QED BY <1>4, <1>5 DEF r

\* The values in a container are read one level deeper.
LEMMA Deeper ==
  ASSUME NEW depth \in 0..DepthLimit, depth < DepthLimit
  PROVE  depth + 1 \in 0..DepthLimit
BY DepthAssumption

\* A record of leaves is read exactly when it fits, and as what it means.
LEMMA FlatFits ==
  ASSUME NEW fields, GoodSchema(fields), NEW d, IsTree(d), NEW depth \in 0..DepthLimit
  PROVE  /\ ReadFlat(fields, d, depth).word = Blank <=> FitsFlat(fields, d, depth)
         /\ ReadFlat(fields, d, depth).word = Blank => ReadFlat(fields, d, depth).value = MeaningFlat(fields, d)
<1> DEFINE read == [i \in DOMAIN d.fields |-> ReadLeaf(TypeAt(fields, d, i), d.fields[i][2], depth + 1)]
           fits == [i \in DOMAIN d.fields |-> FitsLeaf(TypeAt(fields, d, i), d.fields[i][2], depth + 1)]
           mean == [i \in DOMAIN d.fields |-> MeaningLeaf(TypeAt(fields, d, i), d.fields[i][2])]
<1>1. ASSUME IsContainer(d), depth < DepthLimit, NEW i \in DOMAIN d.fields
      PROVE  /\ read[i].word = Blank <=> fits[i]
             /\ read[i].word = Blank => read[i].value = mean[i]
  <2>1. depth + 1 \in 0..DepthLimit /\ IsTree(d.fields[i][2])
    BY <1>1, Deeper, TreeInside
  <2> DEFINE t == TypeAt(fields, d, i)
             y == d.fields[i][2]
  <2>2. /\ ReadLeaf(t, y, depth + 1).word = Blank <=> FitsLeaf(t, y, depth + 1)
        /\ ReadLeaf(t, y, depth + 1).word = Blank => ReadLeaf(t, y, depth + 1).value = MeaningLeaf(t, y)
    BY <2>1, LeafFits
  <2>3. read[i] = ReadLeaf(t, y, depth + 1) /\ mean[i] = MeaningLeaf(t, y)
    OBVIOUS
  <2>4. fits[i] = FitsLeaf(t, y, depth + 1)
    BY Zenon
  <2> HIDE DEF read, fits, mean, t, y
  <2> QED BY <2>2, <2>3, <2>4
<1>2. /\ ReadFlat(fields, d, depth) = ReadRecord(fields, d, depth, read)
      /\ MeaningFlat(fields, d) = MeaningRecord(fields, d, mean)
  BY DEF ReadFlat, MeaningFlat
<1>3. FitsFlat(fields, d, depth) <=> FitsRecord(fields, d, depth, fits)
  BY Zenon DEF FitsFlat
<1> HIDE DEF read, fits, mean
<1>4. EntriesFit(fields, d, depth, read, fits, mean)
  BY <1>1 DEF EntriesFit
<1>5. /\ ReadRecord(fields, d, depth, read).word = Blank <=> FitsRecord(fields, d, depth, fits)
      /\ ReadRecord(fields, d, depth, read).word = Blank =>
            ReadRecord(fields, d, depth, read).value = MeaningRecord(fields, d, mean)
  BY <1>4, RecordFits
<1> QED BY <1>2, <1>3, <1>5

\* A field of a record with records of leaves in it.
LEMMA FlatFieldFits ==
  ASSUME NEW t, NEW d, IsTree(d), NEW depth \in 0..DepthLimit
  PROVE  /\ ReadFlatField(t, d, depth).word = Blank <=> FitsFlatField(t, d, depth)
         /\ ReadFlatField(t, d, depth).word = Blank => ReadFlatField(t, d, depth).value = MeaningFlatField(t, d)
<1>1. CASE IsRecord(t)
  <2>1. GoodSchema(Schema[t])
    BY <1>1, SchemasGood DEF IsRecord
  <2>2. /\ ReadFlatField(t, d, depth) = ReadFlat(Schema[t], d, depth)
        /\ MeaningFlatField(t, d) = MeaningFlat(Schema[t], d)
    BY <1>1 DEF ReadFlatField, MeaningFlatField
  <2>3. FitsFlatField(t, d, depth) <=> FitsFlat(Schema[t], d, depth)
    BY <1>1, Zenon DEF FitsFlatField
  <2> QED BY <2>1, <2>2, <2>3, FlatFits
<1>2. CASE ~IsRecord(t)
  <2>2. /\ ReadFlatField(t, d, depth) = ReadLeaf(t, d, depth)
        /\ MeaningFlatField(t, d) = MeaningLeaf(t, d)
    BY <1>2 DEF ReadFlatField, MeaningFlatField
  <2>3. FitsFlatField(t, d, depth) <=> FitsLeaf(t, d, depth)
    BY <1>2, Zenon DEF FitsFlatField
  <2> QED BY <2>2, <2>3, LeafFits
<1> QED BY <1>1, <1>2
\* A record with records of leaves in it.
LEMMA NestedFits ==
  ASSUME NEW fields, GoodSchema(fields), NEW d, IsTree(d), NEW depth \in 0..DepthLimit
  PROVE  /\ ReadNested(fields, d, depth).word = Blank <=> FitsNested(fields, d, depth)
         /\ ReadNested(fields, d, depth).word = Blank => ReadNested(fields, d, depth).value = MeaningNested(fields, d)
<1> DEFINE read == [i \in DOMAIN d.fields |-> ReadFlatField(TypeAt(fields, d, i), d.fields[i][2], depth + 1)]
           fits == [i \in DOMAIN d.fields |-> FitsFlatField(TypeAt(fields, d, i), d.fields[i][2], depth + 1)]
           mean == [i \in DOMAIN d.fields |-> MeaningFlatField(TypeAt(fields, d, i), d.fields[i][2])]
<1>1. ASSUME IsContainer(d), depth < DepthLimit, NEW i \in DOMAIN d.fields
      PROVE  /\ read[i].word = Blank <=> fits[i]
             /\ read[i].word = Blank => read[i].value = mean[i]
  <2>1. depth + 1 \in 0..DepthLimit /\ IsTree(d.fields[i][2])
    BY <1>1, Deeper, TreeInside
  <2> DEFINE t == TypeAt(fields, d, i)
             y == d.fields[i][2]
  <2>2. /\ ReadFlatField(t, y, depth + 1).word = Blank <=> FitsFlatField(t, y, depth + 1)
        /\ ReadFlatField(t, y, depth + 1).word = Blank => ReadFlatField(t, y, depth + 1).value = MeaningFlatField(t, y)
    BY <2>1, FlatFieldFits
  <2>3. read[i] = ReadFlatField(t, y, depth + 1) /\ mean[i] = MeaningFlatField(t, y)
    OBVIOUS
  <2>4. fits[i] = FitsFlatField(t, y, depth + 1)
    BY Zenon
  <2> HIDE DEF read, fits, mean, t, y
  <2> QED BY <2>2, <2>3, <2>4
<1>2. /\ ReadNested(fields, d, depth) = ReadRecord(fields, d, depth, read)
      /\ MeaningNested(fields, d) = MeaningRecord(fields, d, mean)
  BY DEF ReadNested, MeaningNested
<1>3. FitsNested(fields, d, depth) <=> FitsRecord(fields, d, depth, fits)
  BY Zenon DEF FitsNested
<1> HIDE DEF read, fits, mean
<1>4. EntriesFit(fields, d, depth, read, fits, mean)
  BY <1>1 DEF EntriesFit
<1>5. /\ ReadRecord(fields, d, depth, read).word = Blank <=> FitsRecord(fields, d, depth, fits)
      /\ ReadRecord(fields, d, depth, read).word = Blank =>
            ReadRecord(fields, d, depth, read).value = MeaningRecord(fields, d, mean)
  BY <1>4, RecordFits
<1> QED BY <1>2, <1>3, <1>5

\* A field of a record that nests twice.
LEMMA NestedFieldFits ==
  ASSUME NEW t, NEW d, IsTree(d), NEW depth \in 0..DepthLimit
  PROVE  /\ ReadNestedField(t, d, depth).word = Blank <=> FitsNestedField(t, d, depth)
         /\ ReadNestedField(t, d, depth).word = Blank => ReadNestedField(t, d, depth).value = MeaningNestedField(t, d)
<1>1. CASE IsRecord(t)
  <2>1. GoodSchema(Schema[t])
    BY <1>1, SchemasGood DEF IsRecord
  <2>2. /\ ReadNestedField(t, d, depth) = ReadNested(Schema[t], d, depth)
        /\ MeaningNestedField(t, d) = MeaningNested(Schema[t], d)
    BY <1>1 DEF ReadNestedField, MeaningNestedField
  <2>3. FitsNestedField(t, d, depth) <=> FitsNested(Schema[t], d, depth)
    BY <1>1, Zenon DEF FitsNestedField
  <2> QED BY <2>1, <2>2, <2>3, NestedFits
<1>2. CASE ~IsRecord(t)
  <2>2. /\ ReadNestedField(t, d, depth) = ReadLeaf(t, d, depth)
        /\ MeaningNestedField(t, d) = MeaningLeaf(t, d)
    BY <1>2 DEF ReadNestedField, MeaningNestedField
  <2>3. FitsNestedField(t, d, depth) <=> FitsLeaf(t, d, depth)
    BY <1>2, Zenon DEF FitsNestedField
  <2> QED BY <2>2, <2>3, LeafFits
<1> QED BY <1>1, <1>2
\* A record that nests twice.
LEMMA ValueFits ==
  ASSUME NEW fields, GoodSchema(fields), NEW d, IsTree(d), NEW depth \in 0..DepthLimit
  PROVE  /\ Read(fields, d, depth).word = Blank <=> Fits(fields, d, depth)
         /\ Read(fields, d, depth).word = Blank => Read(fields, d, depth).value = Meaning(fields, d)
<1> DEFINE read == [i \in DOMAIN d.fields |-> ReadNestedField(TypeAt(fields, d, i), d.fields[i][2], depth + 1)]
           fits == [i \in DOMAIN d.fields |-> FitsNestedField(TypeAt(fields, d, i), d.fields[i][2], depth + 1)]
           mean == [i \in DOMAIN d.fields |-> MeaningNestedField(TypeAt(fields, d, i), d.fields[i][2])]
<1>1. ASSUME IsContainer(d), depth < DepthLimit, NEW i \in DOMAIN d.fields
      PROVE  /\ read[i].word = Blank <=> fits[i]
             /\ read[i].word = Blank => read[i].value = mean[i]
  <2>1. depth + 1 \in 0..DepthLimit /\ IsTree(d.fields[i][2])
    BY <1>1, Deeper, TreeInside
  <2> DEFINE t == TypeAt(fields, d, i)
             y == d.fields[i][2]
  <2>2. /\ ReadNestedField(t, y, depth + 1).word = Blank <=> FitsNestedField(t, y, depth + 1)
        /\ ReadNestedField(t, y, depth + 1).word = Blank => ReadNestedField(t, y, depth + 1).value = MeaningNestedField(t, y)
    BY <2>1, NestedFieldFits
  <2>3. read[i] = ReadNestedField(t, y, depth + 1) /\ mean[i] = MeaningNestedField(t, y)
    OBVIOUS
  <2>4. fits[i] = FitsNestedField(t, y, depth + 1)
    BY Zenon
  <2> HIDE DEF read, fits, mean, t, y
  <2> QED BY <2>2, <2>3, <2>4
<1>2. /\ Read(fields, d, depth) = ReadRecord(fields, d, depth, read)
      /\ Meaning(fields, d) = MeaningRecord(fields, d, mean)
  BY DEF Read, Meaning
<1>3. Fits(fields, d, depth) <=> FitsRecord(fields, d, depth, fits)
  BY Zenon DEF Fits
<1> HIDE DEF read, fits, mean
<1>4. EntriesFit(fields, d, depth, read, fits, mean)
  BY <1>1 DEF EntriesFit
<1>5. /\ ReadRecord(fields, d, depth, read).word = Blank <=> FitsRecord(fields, d, depth, fits)
      /\ ReadRecord(fields, d, depth, read).word = Blank =>
            ReadRecord(fields, d, depth, read).value = MeaningRecord(fields, d, mean)
  BY <1>4, RecordFits
<1> QED BY <1>2, <1>3, <1>5

-----------------------------------------------------------------------------
\* Schemas without records in them, and with only such records in them.
LeavesOnly(fields) == \A i \in DOMAIN fields : ~IsRecord(fields[i].type)
NestsOnce(fields) == \A i \in DOMAIN fields :
                        IsRecord(fields[i].type) => LeavesOnly(Schema[fields[i].type])

\* The type of an entry under one of the record's names.
LEMMA TypeOfEntry ==
  ASSUME NEW fields, GoodSchema(fields), NEW d, NEW i, d.fields[i][1] \in Names(fields)
  PROVE  \E k \in DOMAIN fields : fields[k].name = d.fields[i][1] /\ TypeAt(fields, d, i) = fields[k].type
<1>1. PICK k \in DOMAIN fields : fields[k].name = d.fields[i][1]
  BY NamesByPosition
<1>2. FieldOf(fields, d.fields[i][1]) = fields[k]
  BY <1>1, FieldFound
<1> QED BY <1>1, <1>2 DEF TypeAt

\* Two ways to say what an entry is agree where the record reads it.
LEMMA SameFits ==
  ASSUME NEW fields, NEW d, NEW depth \in 0..DepthLimit, NEW f, NEW g,
         depth < DepthLimit => \A i \in DOMAIN d.fields : d.fields[i][1] \in Names(fields) => (f[i] <=> g[i])
  PROVE  FitsRecord(fields, d, depth, f) <=> FitsRecord(fields, d, depth, g)
<1>1. Keys(d) \subseteq Names(fields) => \A i \in DOMAIN d.fields : d.fields[i][1] \in Names(fields)
  BY DEF Keys
<1> QED BY <1>1 DEF FitsRecord

\* A value's meaning, said in two ways that agree on its entries.
LEMMA SameMeaning ==
  ASSUME NEW fields, NEW d, NEW f, NEW g,
         \A i \in DOMAIN d.fields : d.fields[i][1] \in Names(fields) => f[i] = g[i]
  PROVE  MeaningRecord(fields, d, f) = MeaningRecord(fields, d, g)
<1> DEFINE At(x) == CHOOSE i \in DOMAIN d.fields : d.fields[i][1] = x
           Of(k, x) == IF x \in Keys(d) THEN k[At(x)] ELSE Zero(FieldOf(fields, x))
<1>1. ASSUME NEW x \in Keys(d) PROVE At(x) \in DOMAIN d.fields /\ d.fields[At(x)][1] = x
  BY DEF Keys
<1>2. /\ MeaningRecord(fields, d, f) = [x \in Names(fields) |-> Of(f, x)]
      /\ MeaningRecord(fields, d, g) = [x \in Names(fields) |-> Of(g, x)]
  BY Zenon DEF MeaningRecord
<1> HIDE DEF At
<1>3. \A x \in Names(fields) : Of(f, x) = Of(g, x)
  BY <1>1
<1> HIDE DEF Of
<1> QED BY <1>2, <1>3

\* In a record of leaves there is nothing to nest.
LEMMA LeavesNested ==
  ASSUME NEW fields, GoodSchema(fields), LeavesOnly(fields), NEW d, NEW depth \in 0..DepthLimit
  PROVE  /\ FitsFlat(fields, d, depth) <=> FitsNested(fields, d, depth)
         /\ FitsFlat(fields, d, depth) <=> Fits(fields, d, depth)
         /\ MeaningFlat(fields, d) = MeaningNested(fields, d)
         /\ MeaningFlat(fields, d) = Meaning(fields, d)
<1> DEFINE f == [i \in DOMAIN d.fields |-> FitsLeaf(TypeAt(fields, d, i), d.fields[i][2], depth + 1)]
           g == [i \in DOMAIN d.fields |-> FitsFlatField(TypeAt(fields, d, i), d.fields[i][2], depth + 1)]
           h == [i \in DOMAIN d.fields |-> FitsNestedField(TypeAt(fields, d, i), d.fields[i][2], depth + 1)]
           l == [i \in DOMAIN d.fields |-> MeaningLeaf(TypeAt(fields, d, i), d.fields[i][2])]
           m == [i \in DOMAIN d.fields |-> MeaningFlatField(TypeAt(fields, d, i), d.fields[i][2])]
           n == [i \in DOMAIN d.fields |-> MeaningNestedField(TypeAt(fields, d, i), d.fields[i][2])]
<1>1. ASSUME NEW i \in DOMAIN d.fields, d.fields[i][1] \in Names(fields)
      PROVE  f[i] = g[i] /\ f[i] = h[i] /\ l[i] = m[i] /\ l[i] = n[i]
  <2>1. ~IsRecord(TypeAt(fields, d, i))
    BY <1>1, TypeOfEntry DEF LeavesOnly
  <2>2. f[i] = g[i] /\ f[i] = h[i]
    BY <2>1, Zenon DEF FitsFlatField, FitsNestedField
  <2>3. l[i] = m[i] /\ l[i] = n[i]
    BY <2>1, Zenon DEF MeaningFlatField, MeaningNestedField
  <2> QED BY <2>2, <2>3
<1>2. /\ FitsFlat(fields, d, depth) <=> FitsRecord(fields, d, depth, f)
      /\ FitsNested(fields, d, depth) <=> FitsRecord(fields, d, depth, g)
      /\ Fits(fields, d, depth) <=> FitsRecord(fields, d, depth, h)
  BY Zenon DEF FitsFlat, FitsNested, Fits
<1>3. /\ MeaningFlat(fields, d) = MeaningRecord(fields, d, l)
      /\ MeaningNested(fields, d) = MeaningRecord(fields, d, m)
      /\ Meaning(fields, d) = MeaningRecord(fields, d, n)
  BY Zenon DEF MeaningFlat, MeaningNested, Meaning
<1> HIDE DEF f, g, h, l, m, n
<1>4. /\ FitsRecord(fields, d, depth, f) <=> FitsRecord(fields, d, depth, g)
      /\ FitsRecord(fields, d, depth, f) <=> FitsRecord(fields, d, depth, h)
  BY <1>1, SameFits
<1>5. /\ MeaningRecord(fields, d, l) = MeaningRecord(fields, d, m)
      /\ MeaningRecord(fields, d, l) = MeaningRecord(fields, d, n)
  BY <1>1, SameMeaning
<1> QED BY <1>2, <1>3, <1>4, <1>5

\* In a record that nests once there is nothing to nest twice.
LEMMA NestedOnce ==
  ASSUME NEW fields, GoodSchema(fields), NestsOnce(fields), NEW d, NEW depth \in 0..DepthLimit
  PROVE  /\ FitsNested(fields, d, depth) <=> Fits(fields, d, depth)
         /\ MeaningNested(fields, d) = Meaning(fields, d)
<1> DEFINE g == [i \in DOMAIN d.fields |-> FitsFlatField(TypeAt(fields, d, i), d.fields[i][2], depth + 1)]
           h == [i \in DOMAIN d.fields |-> FitsNestedField(TypeAt(fields, d, i), d.fields[i][2], depth + 1)]
           m == [i \in DOMAIN d.fields |-> MeaningFlatField(TypeAt(fields, d, i), d.fields[i][2])]
           n == [i \in DOMAIN d.fields |-> MeaningNestedField(TypeAt(fields, d, i), d.fields[i][2])]
<1>1. ASSUME NEW i \in DOMAIN d.fields, d.fields[i][1] \in Names(fields)
      PROVE  (depth < DepthLimit => (g[i] <=> h[i])) /\ m[i] = n[i]
  <2> DEFINE t == TypeAt(fields, d, i)
             y == d.fields[i][2]
  <2>a. /\ g[i] = FitsFlatField(t, y, depth + 1) /\ h[i] = FitsNestedField(t, y, depth + 1)
        /\ m[i] = MeaningFlatField(t, y) /\ n[i] = MeaningNestedField(t, y)
    BY Zenon
  <2>b. IsRecord(t) => LeavesOnly(Schema[t]) /\ GoodSchema(Schema[t])
    BY <1>1, TypeOfEntry, SchemasGood DEF NestsOnce, IsRecord
  <2> HIDE DEF g, h, m, n, t, y
  <2>1. CASE IsRecord(t)
    <3>1. /\ FitsFlatField(t, y, depth + 1) <=> FitsFlat(Schema[t], y, depth + 1)
          /\ FitsNestedField(t, y, depth + 1) <=> FitsNested(Schema[t], y, depth + 1)
      BY <2>1, Zenon DEF FitsFlatField, FitsNestedField
    <3>2. MeaningFlatField(t, y) = MeaningFlat(Schema[t], y) /\ MeaningNestedField(t, y) = MeaningNested(Schema[t], y)
      BY <2>1, Zenon DEF MeaningFlatField, MeaningNestedField
    <3>3. depth < DepthLimit => (FitsFlat(Schema[t], y, depth + 1) <=> FitsNested(Schema[t], y, depth + 1))
      BY <2>1, <2>b, Deeper, LeavesNested
    <3>4. MeaningFlat(Schema[t], y) = MeaningNested(Schema[t], y)
      BY <2>1, <2>b, LeavesNested
    <3> QED BY <2>a, <3>1, <3>2, <3>3, <3>4
  <2>2. CASE ~IsRecord(t)
    <3>1. FitsFlatField(t, y, depth + 1) <=> FitsNestedField(t, y, depth + 1)
      BY <2>2, Zenon DEF FitsFlatField, FitsNestedField
    <3>2. MeaningFlatField(t, y) = MeaningNestedField(t, y)
      BY <2>2, Zenon DEF MeaningFlatField, MeaningNestedField
    <3> QED BY <2>a, <3>1, <3>2
  <2> QED BY <2>1, <2>2
<1>2. /\ FitsNested(fields, d, depth) <=> FitsRecord(fields, d, depth, g)
      /\ Fits(fields, d, depth) <=> FitsRecord(fields, d, depth, h)
  BY Zenon DEF FitsNested, Fits
<1>3. /\ MeaningNested(fields, d) = MeaningRecord(fields, d, m)
      /\ Meaning(fields, d) = MeaningRecord(fields, d, n)
  BY Zenon DEF MeaningNested, Meaning
<1> HIDE DEF g, h, m, n
<1>4. FitsRecord(fields, d, depth, g) <=> FitsRecord(fields, d, depth, h)
  BY <1>1, SameFits
<1>5. MeaningRecord(fields, d, m) = MeaningRecord(fields, d, n)
  BY <1>1, SameMeaning
<1> QED BY <1>2, <1>3, <1>4, <1>5

-----------------------------------------------------------------------------
(***************************************************************************)
(* The readers of this package, and a text that is walked before it is read. *)
(***************************************************************************)
\* How deep the schemas of the records with their own readers nest.
LEMMA SchemasNest ==
  /\ LeavesOnly(RefSchema) /\ LeavesOnly(ImportedSchema)
  /\ NestsOnce(LookupResultSchema) /\ NestsOnce(ManifestResultSchema)
<1>1. LeavesOnly(RefSchema)
  <2>1. \A i \in 1..6 : RefSchema[i].type = "string"
    BY DEF RefSchema, Field, Optional
  <2> QED BY <2>1, RefFields DEF LeavesOnly, IsRecord, Schema
<1>2. LeavesOnly(ImportedSchema)
  <2>1. \A i \in 1..1 : ImportedSchema[i].type = "string"
    BY DEF ImportedSchema, Field, Optional
  <2> QED BY <2>1, ImportedFields DEF LeavesOnly, IsRecord, Schema
<1>3. Schema["Imported"] = ImportedSchema
  BY DEF Schema
<1>4. NestsOnce(LookupResultSchema)
  <2>1. \A i \in 1..2 : LookupResultSchema[i].type \in {"LookupOutcome", "Imported"}
    BY DEF LookupResultSchema, Field, Optional
  <2>2. ~IsRecord("LookupOutcome")
    BY DEF IsRecord, Schema
  <2> QED BY <1>2, <1>3, <2>1, <2>2, LookupResultFields DEF NestsOnce
<1>5. NestsOnce(ManifestResultSchema)
  <2>1. \A i \in 1..3 : ManifestResultSchema[i].type \in {"ManifestOutcome", "Imported", "string"}
    BY DEF ManifestResultSchema, Field, Optional
  <2>2. ~IsRecord("ManifestOutcome") /\ ~IsRecord("string")
    BY DEF IsRecord, Schema
  <2> QED BY <1>2, <1>3, <2>1, <2>2, ManifestResultFields DEF NestsOnce
<1> QED BY <1>1, <1>2, <1>4, <1>5

\* The reader of each record.
LEMMA DecodeIs ==
  ASSUME NEW t, NEW d, NEW depth
  PROVE  /\ t = "Ref" => DecodeAt(t, d, depth) = ReadFlat(Schema[t], d, depth)
         /\ t \in {"LookupResult", "ManifestResult"} => DecodeAt(t, d, depth) = ReadNested(Schema[t], d, depth)
         /\ t \notin {"Ref", "LookupResult", "ManifestResult"} => DecodeAt(t, d, depth) = Read(Schema[t], d, depth)
<1>1. Schema["Ref"] = RefSchema /\ Schema["LookupResult"] = LookupResultSchema /\ Schema["ManifestResult"] = ManifestResultSchema
  BY DEF Schema
<1> QED BY <1>1 DEF DecodeAt, decodeRef, decodeLookupResult, decodeManifestResult

\* Whichever the reader, a record is read exactly when it fits its schema.
LEMMA DecodeFits ==
  ASSUME NEW t \in DOMAIN Schema, NEW d, IsTree(d), NEW depth \in 0..DepthLimit
  PROVE  /\ DecodeAt(t, d, depth).word = Blank <=> Fits(Schema[t], d, depth)
         /\ DecodeAt(t, d, depth).word = Blank => DecodeAt(t, d, depth).value = Meaning(Schema[t], d)
<1>1. GoodSchema(Schema[t])
  BY SchemasGood
<1>2. Schema["Ref"] = RefSchema /\ Schema["LookupResult"] = LookupResultSchema /\ Schema["ManifestResult"] = ManifestResultSchema
  BY DEF Schema
<1>3. CASE t = "Ref"
  BY <1>1, <1>2, <1>3, DecodeIs, FlatFits, LeavesNested, SchemasNest
<1>4. CASE t \in {"LookupResult", "ManifestResult"}
  <2>1. NestsOnce(Schema[t])
    BY <1>2, <1>4, SchemasNest
  <2> QED BY <1>1, <1>4, <2>1, DecodeIs, NestedFits, NestedOnce
<1>5. CASE t \notin {"Ref", "LookupResult", "ManifestResult"}
  BY <1>1, <1>5, DecodeIs, ValueFits
<1> QED BY <1>3, <1>4, <1>5

\* Every text that is a tree is read as the schema says (rec.go, decode*).
LEMMA TreesReadTheSchema ==
  ASSUME Types \subseteq DOMAIN Schema, IsTree(doc)
  PROVE  ReadsTheSchema
<1> SUFFICES ASSUME type \in Types
             PROVE  /\ (DecodeAt(type, doc, 0).word = Blank) = Fits(Schema[type], doc, 0)
                    /\ DecodeAt(type, doc, 0).word = Blank => DecodeAt(type, doc, 0).value = Meaning(Schema[type], doc)
  BY Zenon DEF ReadsTheSchema
<1>1. type \in DOMAIN Schema /\ 0 \in 0..DepthLimit
  BY DepthAssumption
<1>2. /\ DecodeAt(type, doc, 0).word = Blank <=> Fits(Schema[type], doc, 0)
      /\ DecodeAt(type, doc, 0).word = Blank => DecodeAt(type, doc, 0).value = Meaning(Schema[type], doc)
  BY <1>1, DecodeFits
<1>3. Fits(Schema[type], doc, 0) \in BOOLEAN
  BY Zenon DEF Fits, FitsRecord
<1> QED BY <1>2, <1>3, Zenon

-----------------------------------------------------------------------------
\* Faults of syntax, that the reader of an envelope already looked for.
Faults == {"malformed", "bad_string", "depth_exceeded", "duplicate_field", "duplicate_key"}

\* The other words, and no word, are no faults of syntax.
LEMMA FaultWords ==
  /\ Blank \notin Faults /\ "wrong_type" \notin Faults /\ "missing_field" \notin Faults
  /\ "unknown_field" \notin Faults /\ "bad_enum" \notin Faults /\ "number_spelling" \notin Faults
BY BlankIsNoWord DEF Faults

\* A leaf that was walked is not refused for a fault of syntax.
LEMMA LeafFaultless ==
  ASSUME NEW t, NEW d, IsTree(d), NEW depth \in 0..DepthLimit, Sound(d, depth)
  PROVE  ReadLeaf(t, d, depth).word \notin Faults
<1>1. SoundAt(d, depth)
  <2>1. depth = DepthLimit \/ depth < DepthLimit
    BY DepthAssumption
  <2> QED BY <2>1, SoundUnfold
<1>2. d.kind = "string" => d.text # BadText
  BY <1>1 DEF SoundAt, IsContainer
<1>3. ReadString(d).word \in {Blank, "wrong_type"}
  BY <1>2, Words DEF ReadString
<1>4. ReadInteger(d).word \in {Blank, "wrong_type", "number_spelling"}
  BY Words DEF ReadInteger
<1>5. ReadBoolean(d).word \in {Blank, "wrong_type"}
  BY Words DEF ReadBoolean
<1>6. ReadRaw(d, depth).word = Blank
  BY SkipIsSound, Words DEF ReadRaw, Carried
<1>7. ReadEnum(t, d).word \in {Blank, "wrong_type", "bad_enum"}
  BY <1>3, Words DEF ReadEnum
<1> QED BY <1>3, <1>4, <1>5, <1>6, <1>7, FaultWords DEF ReadLeaf

\* The first refusal is one of them.
LEMMA FirstWordIsOne ==
  ASSUME NEW words, DOMAIN words \in SUBSET Nat
  PROVE  FirstWord(words) = Blank \/ \E i \in DOMAIN words : FirstWord(words) = words[i]
<1> DEFINE wrong == {i \in DOMAIN words : words[i] # Blank}
<1>1. CASE wrong = {}
  BY <1>1 DEF FirstWord, FirstOf
<1>2. CASE wrong # {}
  <2>1. wrong \in SUBSET Nat
    OBVIOUS
  <2>2. Min(wrong) \in wrong
    BY <1>2, <2>1, MinOfPositions
  <2>3. FirstWord(words) = words[Min(wrong)]
    BY <1>2 DEF FirstWord, FirstOf
  <2> HIDE DEF wrong
  <2> QED BY <2>2, <2>3 DEF wrong
<1> QED BY <1>1, <1>2

\* A record that was walked is not, where its entries are not.
LEMMA RecordFaultless ==
  ASSUME NEW fields, NEW d, IsTree(d), NEW depth \in 0..DepthLimit, Sound(d, depth), NEW read,
         (IsContainer(d) /\ depth < DepthLimit) => \A i \in DOMAIN d.fields : read[i].word \notin Faults
  PROVE  ReadRecord(fields, d, depth, read).word \notin Faults
<1> DEFINE r == ReadRecord(fields, d, depth, read)
           words == [i \in DOMAIN d.fields |->
                       Either(FieldRefusal(fields, d.fields[i][1], KeysBefore(d, i)), read[i].word)]
<1>1. CASE d.kind # "object"
  BY <1>1, Words, FaultWords DEF ReadRecord
<1>2. CASE d.kind = "object"
  <2>0. IsContainer(d)
    BY <1>2 DEF IsContainer
  <2>1. SoundAt(d, depth)
    <3>1. depth = DepthLimit \/ depth < DepthLimit
      BY DepthAssumption
    <3> QED BY <3>1, SoundUnfold
  <2>2. depth < DepthLimit /\ d.text # "open" /\ Once(d) /\ Keys(d) \cap {NoKey, BadText} = {}
    BY <1>2, <2>0, <2>1 DEF SoundAt
  <2>3. PICK n \in Nat : DOMAIN d.fields = 1..n
    BY <2>0, TreeList
  <2>4. ASSUME NEW i \in DOMAIN d.fields PROVE words[i] \notin Faults
    <3>1. KeyRefusal(d.fields[i][1]) = Blank
      BY <2>2, KeyRefused DEF Keys
    <3>2. d.fields[i][1] \notin KeysBefore(d, i)
      BY <2>2, <2>3, OnceInOrder
    <3>3. FieldRefusal(fields, d.fields[i][1], KeysBefore(d, i)) \in {Blank, "unknown_field"}
      BY <3>1, <3>2 DEF FieldRefusal
    <3>4. read[i].word \notin Faults
      BY <2>0, <2>2
    <3> QED BY <3>3, <3>4, FaultWords DEF Either
  <2>5. FirstWord(words) \notin Faults
    <3>1. DOMAIN words = DOMAIN d.fields /\ DOMAIN words \in SUBSET Nat
      BY <2>3
    <3> HIDE DEF words
    <3>2. FirstWord(words) = Blank \/ \E i \in DOMAIN words : FirstWord(words) = words[i]
      BY <3>1, FirstWordIsOne
    <3> QED BY <2>4, <3>1, <3>2, FaultWords
  <2>6. ~TooDeep(depth)
    BY <2>2, DepthAssumption DEF TooDeep
  <2>7. r = Closed(fields, d, read, FirstWord(words))
    BY <1>2, <2>6, Zenon DEF ReadRecord
  <2> HIDE DEF words
  <2>8. r.word \in {FirstWord(words), "missing_field", Blank}
    BY <2>2, <2>7, Words DEF Closed
  <2> QED BY <2>5, <2>8, FaultWords
<1> QED BY <1>1, <1>2

\* What is in a sound container is sound.
LEMMA SoundInside ==
  ASSUME NEW d, IsContainer(d), NEW depth \in 0..DepthLimit, depth < DepthLimit, Sound(d, depth),
         NEW i \in DOMAIN d.fields
  PROVE  Sound(d.fields[i][2], depth + 1)
<1>1. d.fields[i][2] \in Inside({d})
  BY DEF Inside
<1> QED BY <1>1, SoundUnfold

\* A record of leaves that was walked.
LEMMA FlatFaultless ==
  ASSUME NEW fields, NEW d, IsTree(d), NEW depth \in 0..DepthLimit, Sound(d, depth)
  PROVE  ReadFlat(fields, d, depth).word \notin Faults
<1> DEFINE read == [i \in DOMAIN d.fields |-> ReadLeaf(TypeAt(fields, d, i), d.fields[i][2], depth + 1)]
<1>1. ASSUME IsContainer(d), depth < DepthLimit, NEW i \in DOMAIN d.fields
      PROVE  read[i].word \notin Faults
  <2>1. depth + 1 \in 0..DepthLimit /\ IsTree(d.fields[i][2]) /\ Sound(d.fields[i][2], depth + 1)
    BY <1>1, Deeper, TreeInside, SoundInside
  <2> QED BY <2>1, LeafFaultless
<1>2. ReadFlat(fields, d, depth) = ReadRecord(fields, d, depth, read)
  BY DEF ReadFlat
<1> HIDE DEF read
<1> QED BY <1>1, <1>2, RecordFaultless

\* A field of a record with records of leaves in it.
LEMMA FlatFieldFaultless ==
  ASSUME NEW t, NEW d, IsTree(d), NEW depth \in 0..DepthLimit, Sound(d, depth)
  PROVE  ReadFlatField(t, d, depth).word \notin Faults
BY LeafFaultless, FlatFaultless DEF ReadFlatField

\* A record with records of leaves in it.
LEMMA NestedFaultless ==
  ASSUME NEW fields, NEW d, IsTree(d), NEW depth \in 0..DepthLimit, Sound(d, depth)
  PROVE  ReadNested(fields, d, depth).word \notin Faults
<1> DEFINE read == [i \in DOMAIN d.fields |-> ReadFlatField(TypeAt(fields, d, i), d.fields[i][2], depth + 1)]
<1>1. ASSUME IsContainer(d), depth < DepthLimit, NEW i \in DOMAIN d.fields
      PROVE  read[i].word \notin Faults
  <2>1. depth + 1 \in 0..DepthLimit /\ IsTree(d.fields[i][2]) /\ Sound(d.fields[i][2], depth + 1)
    BY <1>1, Deeper, TreeInside, SoundInside
  <2> QED BY <2>1, FlatFieldFaultless
<1>2. ReadNested(fields, d, depth) = ReadRecord(fields, d, depth, read)
  BY DEF ReadNested
<1> HIDE DEF read
<1> QED BY <1>1, <1>2, RecordFaultless

\* A field of a record that nests twice.
LEMMA NestedFieldFaultless ==
  ASSUME NEW t, NEW d, IsTree(d), NEW depth \in 0..DepthLimit, Sound(d, depth)
  PROVE  ReadNestedField(t, d, depth).word \notin Faults
BY LeafFaultless, NestedFaultless DEF ReadNestedField

\* A record that nests twice.
LEMMA ValueFaultless ==
  ASSUME NEW fields, NEW d, IsTree(d), NEW depth \in 0..DepthLimit, Sound(d, depth)
  PROVE  Read(fields, d, depth).word \notin Faults
<1> DEFINE read == [i \in DOMAIN d.fields |-> ReadNestedField(TypeAt(fields, d, i), d.fields[i][2], depth + 1)]
<1>1. ASSUME IsContainer(d), depth < DepthLimit, NEW i \in DOMAIN d.fields
      PROVE  read[i].word \notin Faults
  <2>1. depth + 1 \in 0..DepthLimit /\ IsTree(d.fields[i][2]) /\ Sound(d.fields[i][2], depth + 1)
    BY <1>1, Deeper, TreeInside, SoundInside
  <2> QED BY <2>1, NestedFieldFaultless
<1>2. Read(fields, d, depth) = ReadRecord(fields, d, depth, read)
  BY DEF Read
<1> HIDE DEF read
<1> QED BY <1>1, <1>2, RecordFaultless

\* The opaque field of an envelope that was read.
LEMMA OpaqueSound ==
  ASSUME NEW fields, GoodSchema(fields), NEW k \in DOMAIN fields, fields[k].type = "raw", fields[k].required,
         NEW d, IsTree(d), Read(fields, d, 0).word = Blank
  PROVE  LET raw == Read(fields, d, 0).value[fields[k].name]
         IN IsTree(raw) /\ Sound(raw, 1)
<1> DEFINE read == [i \in DOMAIN d.fields |-> ReadNestedField(TypeAt(fields, d, i), d.fields[i][2], 0 + 1)]
           name == fields[k].name
<1>0. 0 \in 0..DepthLimit /\ 1 \in 0..DepthLimit /\ 0 + 1 = 1
  BY DepthAssumption
<1>1. Read(fields, d, 0) = ReadRecord(fields, d, 0, read)
  BY DEF Read
<1>a. \A i \in DOMAIN d.fields : read[i] = ReadNestedField(TypeAt(fields, d, i), d.fields[i][2], 1)
  BY <1>0
<1> HIDE DEF read
<1>2. /\ d.kind = "object" /\ Once(d) /\ Required(fields) \subseteq Keys(d)
      /\ \A i \in DOMAIN d.fields : read[i].word = Blank
      /\ Read(fields, d, 0) = Accept(Built(fields, d, read))
  BY <1>0, <1>1, RecordRead
<1>3. IsContainer(d)
  BY <1>2 DEF IsContainer
<1>4. PICK n \in Nat : DOMAIN d.fields = 1..n
  BY <1>3, TreeList
<1>5. name \in Keys(d) /\ name \in Names(fields)
  <2>1. fields[k] \in ToSet(fields)
    BY DEF ToSet
  <2>2. name \in Required(fields)
    BY <2>1 DEF Required
  <2> QED BY <1>2, <2>2, FieldFound
<1>6. PICK i \in DOMAIN d.fields : d.fields[i][1] = name
  BY <1>5 DEF Keys
<1>7. EntryOf(d, name) = i
  BY <1>2, <1>4, <1>6, EntryFound
<1>8. TypeAt(fields, d, i) = "raw"
  BY <1>6, FieldFound DEF TypeAt
<1>9. ~IsRecord("raw")
  BY DEF IsRecord, Schema
<1>10. read[i] = ReadLeaf("raw", d.fields[i][2], 1)
  BY <1>a, <1>8, <1>9 DEF ReadNestedField
<1>11. IsTree(d.fields[i][2])
  BY <1>3, TreeInside
<1>12. Sound(d.fields[i][2], 1) /\ read[i].value = d.fields[i][2]
  <2>1. ReadLeaf("raw", d.fields[i][2], 1).word = Blank
    BY <1>2, <1>10
  <2>2. /\ FitsLeaf("raw", d.fields[i][2], 1)
        /\ ReadLeaf("raw", d.fields[i][2], 1).value = MeaningLeaf("raw", d.fields[i][2])
    BY <1>0, <1>11, <2>1, LeafFits
  <2> QED BY <1>10, <2>2 DEF FitsLeaf, MeaningLeaf
<1>13. Built(fields, d, read)[name] = read[EntryOf(d, name)].value
  BY <1>5 DEF Built
<1> QED BY <1>2, <1>7, <1>11, <1>12, <1>13, Words

\* In every text that is a tree, the opaque part is walked and read alike (rec.go,
\* skipValue and the reader of the arguments or of the result).
LEMMA OpaqueTreesAgree ==
  ASSUME IsTree(doc)
  PROVE  OpaqueReadOnce
<1>0. 1 \in 0..DepthLimit
  BY DepthAssumption
<1>1. ASSUME type = "Frame", DecodeAt(type, doc, 0).word = Blank
      PROVE  decodeOAModelResolverResolveArguments(DecodeAt(type, doc, 0).value.arguments, 1).word \notin Faults
  <2> DEFINE raw == Read(FrameSchema, doc, 0).value[FrameSchema[4].name]
  <2>1. Schema["Frame"] = FrameSchema
    BY DEF Schema
  <2>2. DecodeAt(type, doc, 0) = Read(FrameSchema, doc, 0)
    BY <1>1, <2>1, DecodeIs
  <2>3. 4 \in DOMAIN FrameSchema /\ FrameSchema[4].type = "raw" /\ FrameSchema[4].required /\ FrameSchema[4].name = "arguments"
    BY FrameFields DEF FrameSchema, Field
  <2>4. IsTree(raw) /\ Sound(raw, 1)
    BY <1>1, <2>2, <2>3, FrameGood, OpaqueSound
  <2>5. raw = DecodeAt(type, doc, 0).value.arguments
    BY <2>2, <2>3
  <2> HIDE DEF raw
  <2> QED BY <1>0, <2>4, <2>5, NestedFaultless DEF decodeOAModelResolverResolveArguments
<1>2. ASSUME type = "Reply", DecodeAt(type, doc, 0).word = Blank
      PROVE  decodeOAModelResolverResolveResult(DecodeAt(type, doc, 0).value.payload, 1).word \notin Faults
  <2> DEFINE raw == Read(ReplySchema, doc, 0).value[ReplySchema[5].name]
  <2>1. Schema["Reply"] = ReplySchema
    BY DEF Schema
  <2>2. DecodeAt(type, doc, 0) = Read(ReplySchema, doc, 0)
    BY <1>2, <2>1, DecodeIs
  <2>3. 5 \in DOMAIN ReplySchema /\ ReplySchema[5].type = "raw" /\ ReplySchema[5].required /\ ReplySchema[5].name = "payload"
    BY ReplyFields DEF ReplySchema, Field
  <2>4. IsTree(raw) /\ Sound(raw, 1)
    BY <1>2, <2>2, <2>3, ReplyGood, OpaqueSound
  <2>5. raw = DecodeAt(type, doc, 0).value.payload
    BY <2>2, <2>3
  <2> HIDE DEF raw
  <2> QED BY <1>0, <2>4, <2>5, ValueFaultless DEF decodeOAModelResolverResolveResult
<1> QED BY <1>1, <1>2, Zenon DEF OpaqueReadOnce, Faults

-----------------------------------------------------------------------------
(***************************************************************************)
(* What was read can be written again and reads the same.                  *)
(***************************************************************************)
\* What is always in a record: its booleans and its words of a closed vocabulary.
AlwaysThere(fields) == \A i \in DOMAIN fields : IsEnum(fields[i].type) => fields[i].required

\* A leaf that was read is read again from what is written of it.
LEMMA LeafStable ==
  ASSUME NEW t, NEW d, NEW depth, ReadLeaf(t, d, depth).word = Blank
  PROVE  /\ ReadLeaf(t, EncLeaf(t, ReadLeaf(t, d, depth).value), depth) = ReadLeaf(t, d, depth)
         /\ IsEnum(t) => Known(t, ReadLeaf(t, d, depth).value)
<1> DEFINE r == ReadLeaf(t, d, depth)
<1>0. IsEnum(t) => t \notin {"string", "int32", "bool", "raw"}
  BY DEF IsEnum, Vocabulary
<1>1. CASE t = "string"
  BY <1>0, <1>1, Words, BlankIsNoWord DEF ReadLeaf, EncLeaf, ReadString, Str, Leaf, Value
<1>2. CASE t = "int32"
  BY <1>0, <1>2, Words, BlankIsNoWord DEF ReadLeaf, EncLeaf, ReadInteger, Leaf, Value
<1>3. CASE t = "bool"
  <2>1. r = Accept(d.text = "true")
    BY <1>3, Words, BlankIsNoWord DEF ReadLeaf, ReadBoolean
  <2>2. r.value \in BOOLEAN
    BY <2>1, Words
  <2> DEFINE b == r.value
  <2>3. r = Accept(b)
    BY <2>1, Words
  <2> HIDE DEF r, b
  <2>4. ReadLeaf(t, EncLeaf(t, b), depth) = Accept(b)
    BY <1>3, <2>2, Words DEF ReadLeaf, EncLeaf, ReadBoolean, Leaf, Value, b
  <2> QED BY <1>0, <1>3, <2>3, <2>4 DEF r, b
<1>4. CASE t = "raw"
  BY <1>0, <1>4, Words DEF ReadLeaf, EncLeaf, ReadRaw, Carried
<1>5. CASE t \notin {"string", "int32", "bool", "raw"}
  <2>1. r = ReadEnum(t, d)
    BY <1>5 DEF ReadLeaf
  <2>2. ReadString(d) = Accept(d.text) /\ d.text # BadText /\ r = Accept(d.text) /\ d.text \in Vocabulary[t]
    <3>1. ReadString(d).word = Blank => (ReadString(d) = Accept(d.text) /\ d.text # BadText)
      BY Words, BlankIsNoWord DEF ReadString
    <3> HIDE DEF r
    <3>2. r.word = Blank
      BY DEF r
    <3> QED BY <2>1, <3>1, <3>2, Words, BlankIsNoWord DEF ReadEnum
  <2>3. EncLeaf(t, d.text) = Str(d.text)
    BY <1>5 DEF EncLeaf
  <2>4. ReadString(Str(d.text)) = Accept(d.text)
    BY <2>2 DEF ReadString, Str, Leaf, Value
  <2>5. ReadLeaf(t, Str(d.text), depth) = ReadEnum(t, Str(d.text))
    BY <1>5 DEF ReadLeaf
  <2>6. ReadEnum(t, Str(d.text)) = Accept(d.text)
    BY <2>2, <2>4, Words DEF ReadEnum
  <2>7. r.value = d.text
    BY <2>2, Words
  <2> QED BY <2>2, <2>3, <2>5, <2>6, <2>7 DEF Known
<1> QED BY <1>1, <1>2, <1>3, <1>4, <1>5

\* The fields of a record that was read: each as its entry reads, or left out.
LEMMA FieldsRead ==
  ASSUME NEW fields, GoodSchema(fields), NEW d, IsTree(d), NEW depth \in 0..DepthLimit, NEW read,
         ReadRecord(fields, d, depth, read).word = Blank
  PROVE  LET v == ReadRecord(fields, d, depth, read).value
         IN /\ ReadRecord(fields, d, depth, read) = Accept(v) /\ IsStruct(fields, v) /\ depth < DepthLimit
            /\ \A k \in DOMAIN fields :
                  \/ ~fields[k].required /\ v[fields[k].name] = Zero(fields[k])
                  \/ \E i \in DOMAIN d.fields : /\ TypeAt(fields, d, i) = fields[k].type
                                                /\ read[i].word = Blank /\ read[i].value = v[fields[k].name]
                                                /\ IsTree(d.fields[i][2])
<1> DEFINE r == ReadRecord(fields, d, depth, read)
           v == r.value
<1>1. /\ d.kind = "object" /\ depth < DepthLimit /\ Once(d) /\ Required(fields) \subseteq Keys(d)
      /\ \A i \in DOMAIN d.fields : read[i].word = Blank
      /\ r = Accept(Built(fields, d, read))
  BY RecordRead
<1>2. v = Built(fields, d, read)
  BY <1>1, Words
<1> HIDE DEF r, v
<1>3. IsStruct(fields, v)
  BY <1>2 DEF IsStruct, Built
<1>4. IsContainer(d)
  BY <1>1 DEF IsContainer
<1>5. PICK n \in Nat : DOMAIN d.fields = 1..n
  BY <1>4, TreeList
<1>6. ASSUME NEW k \in DOMAIN fields
      PROVE  \/ ~fields[k].required /\ v[fields[k].name] = Zero(fields[k])
             \/ \E i \in DOMAIN d.fields : /\ TypeAt(fields, d, i) = fields[k].type
                                           /\ read[i].word = Blank /\ read[i].value = v[fields[k].name]
                                           /\ IsTree(d.fields[i][2])
  <2> DEFINE name == fields[k].name
  <2>1. FieldOf(fields, name) = fields[k] /\ name \in Names(fields)
    BY FieldFound
  <2>2. v[name] = IF name \in Keys(d) THEN read[EntryOf(d, name)].value ELSE Zero(fields[k])
    BY <1>2, <2>1 DEF Built
  <2>3. CASE name \in Keys(d)
    <3>1. PICK i \in DOMAIN d.fields : d.fields[i][1] = name
      BY <2>3 DEF Keys
    <3>2. EntryOf(d, name) = i
      BY <1>1, <1>5, <3>1, EntryFound
    <3>3. TypeAt(fields, d, i) = fields[k].type
      BY <2>1, <3>1 DEF TypeAt
    <3>4. IsTree(d.fields[i][2])
      BY <1>4, TreeInside
    <3> QED BY <1>1, <2>2, <2>3, <3>2, <3>3, <3>4
  <2>4. CASE name \notin Keys(d)
    <3>1. fields[k] \in ToSet(fields)
      BY DEF ToSet
    <3>2. ~fields[k].required
      BY <1>1, <2>4, <3>1 DEF Required
    <3> QED BY <2>2, <2>4, <3>2
  <2> QED BY <2>3, <2>4
<1>7. r = Accept(v)
  BY <1>1, <1>2
<1> QED BY <1>1, <1>3, <1>6, <1>7 DEF r, v

\* A record that was read is read again from what is written of it, where its
\* fields are.
LEMMA RecordStable ==
  ASSUME NEW fields, GoodSchema(fields), NEW v, IsStruct(fields, v), NEW code, NEW depth \in 0..DepthLimit,
         depth < DepthLimit, NEW read,
         \A n \in 1..Cardinality(Written(fields, v)) : read[n] = Accept(v[fields[Nth(Written(fields, v), n)].name])
  PROVE  ReadRecord(fields, EncRecord(fields, v, code), depth, read) = Accept(v)
<1> DEFINE d == EncRecord(fields, v, code)
           c == Cardinality(Written(fields, v))
<1>1. ~TooDeep(depth)
  BY DepthAssumption DEF TooDeep
<1>2. DOMAIN d.fields = 1..c
  BY WrittenEntries
<1>3. \A n \in DOMAIN d.fields : read[n].word = Blank
  BY <1>2, Words
<1>4. ReadRecord(fields, d, depth, read).word = Blank
  BY <1>1, <1>3, WrittenIsAccepted
<1>5. \A n \in 1..c : LET k == Nth(Written(fields, v), n) IN read[n].word = Blank => read[n].value = v[fields[k].name]
  BY Words
<1> QED BY <1>4, <1>5, RecordReadsBack

\* The only words of a closed vocabulary are the outcomes, which are always there.
LEMMA SchemasAlways == \A t \in DOMAIN Schema : AlwaysThere(Schema[t])
<1>0. \A t : IsEnum(t) => t \in {"LookupOutcome", "ManifestOutcome"}
  BY DEF IsEnum, Vocabulary
<1>1. AlwaysThere(RefSchema)
  <2>1. \A i \in 1..6 : RefSchema[i].type = "string"
    BY DEF RefSchema, Field, Optional
  <2> QED BY <1>0, <2>1, RefFields DEF AlwaysThere
<1>2. AlwaysThere(LookupResultSchema)
  <2>1. LookupResultSchema[1].required /\ LookupResultSchema[2].type = "Imported"
    BY DEF LookupResultSchema, Field, Optional
  <2>2. \A i \in DOMAIN LookupResultSchema : i = 1 \/ i = 2
    BY LookupResultFields
  <2> QED BY <1>0, <2>1, <2>2 DEF AlwaysThere
<1>3. AlwaysThere(ManifestResultSchema)
  <2>1. /\ ManifestResultSchema[1].required /\ ManifestResultSchema[2].type = "Imported"
        /\ ManifestResultSchema[3].type = "string"
    BY DEF ManifestResultSchema, Field, Optional
  <2>2. \A i \in DOMAIN ManifestResultSchema : i = 1 \/ i = 2 \/ i = 3
    BY ManifestResultFields
  <2> QED BY <1>0, <2>1, <2>2 DEF AlwaysThere
<1>4. AlwaysThere(ArgumentsSchema) /\ AlwaysThere(ResolveResultSchema) /\ AlwaysThere(ManifestResolveResultSchema)
  BY <1>0, ArgumentsFields, ResolveResultFields, ManifestResolveResultFields DEF AlwaysThere
<1>5. AlwaysThere(FrameSchema)
  BY <1>0, FrameFields DEF AlwaysThere
<1>6. AlwaysThere(ReplySchema)
  BY <1>0, ReplyFields DEF AlwaysThere
<1>7. AlwaysThere(ErrorSchema)
  BY <1>0, ErrorFields DEF AlwaysThere
<1>8. AlwaysThere(ImportedSchema)
  <2>1. ImportedSchema[1].type = "string"
    BY DEF ImportedSchema, Field
  <2> QED BY <1>0, <2>1, ImportedFields DEF AlwaysThere
<1> QED BY <1>1, <1>2, <1>3, <1>4, <1>5, <1>6, <1>7, <1>8 DEF Schema

\* Values no writer panics on: their words of a closed vocabulary are known, and
\* so are those of the records in them.
Worded(fields, v) == ~BadWord(fields, v)
LeafSafe(t, x) == IsEnum(t) => Known(t, x)
FlatSafe(t, x) == LeafSafe(t, x) /\ (IsRecord(t) => Worded(Schema[t], x))
WordedOnce(fields, v) ==
  /\ Worded(fields, v)
  /\ \A f \in ToSet(fields) : (IsRecord(f.type) /\ v[f.name] # Nil) => Worded(Schema[f.type], v[f.name])
NestedSafe(t, x) == LeafSafe(t, x) /\ (IsRecord(t) => WordedOnce(Schema[t], x))
WordedTwice(fields, v) ==
  /\ Worded(fields, v)
  /\ \A f \in ToSet(fields) : (IsRecord(f.type) /\ v[f.name] # Nil) => WordedOnce(Schema[f.type], v[f.name])

\* What a leaf's reader accepts is what it read, and what it reads again.
LEMMA LeafKept ==
  ASSUME NEW t, NEW d, NEW depth, ReadLeaf(t, d, depth).word = Blank
  PROVE  LET x == ReadLeaf(t, d, depth).value
         IN ReadLeaf(t, EncLeaf(t, x), depth) = Accept(x) /\ LeafSafe(t, x)
<1>1. ReadLeaf(t, d, depth) = Accept(ReadLeaf(t, d, depth).value)
  BY Words, BlankIsNoWord DEF ReadLeaf, ReadString, ReadInteger, ReadBoolean, ReadRaw, Carried, ReadEnum
<1> QED BY <1>1, LeafStable DEF LeafSafe

\* A record of leaves that was read is written without a panic and read again.
LEMMA FlatKept ==
  ASSUME NEW fields, GoodSchema(fields), AlwaysThere(fields), NEW d, IsTree(d), NEW depth \in 0..DepthLimit,
         ReadFlat(fields, d, depth).word = Blank
  PROVE  LET v == ReadFlat(fields, d, depth).value
         IN ReadFlat(fields, EncFlat(fields, v), depth) = Accept(v) /\ ReadFlat(fields, d, depth) = Accept(v) /\ Worded(fields, v)
<1> DEFINE read == [i \in DOMAIN d.fields |-> ReadLeaf(TypeAt(fields, d, i), d.fields[i][2], depth + 1)]
           v == ReadFlat(fields, d, depth).value
           code == [i \in DOMAIN fields |-> EncLeaf(fields[i].type, v[fields[i].name])]
           e == EncRecord(fields, v, code)
           again == [i \in DOMAIN e.fields |-> ReadLeaf(TypeAt(fields, e, i), e.fields[i][2], depth + 1)]
<1>1. ReadFlat(fields, d, depth) = ReadRecord(fields, d, depth, read)
  BY DEF ReadFlat
<1>2. EncFlat(fields, v) = e /\ ReadFlat(fields, e, depth) = ReadRecord(fields, e, depth, again)
  BY DEF ReadFlat, EncFlat
<1>3. \A i \in DOMAIN d.fields : read[i] = ReadLeaf(TypeAt(fields, d, i), d.fields[i][2], depth + 1)
  OBVIOUS
<1> HIDE DEF read
<1>4. /\ ReadFlat(fields, d, depth) = Accept(v) /\ IsStruct(fields, v) /\ depth < DepthLimit
      /\ \A k \in DOMAIN fields :
            \/ ~fields[k].required /\ v[fields[k].name] = Zero(fields[k])
            \/ \E i \in DOMAIN d.fields : /\ TypeAt(fields, d, i) = fields[k].type
                                          /\ read[i].word = Blank /\ read[i].value = v[fields[k].name]
                                          /\ IsTree(d.fields[i][2])
  BY <1>1, FieldsRead
<1> HIDE DEF v
<1>5. ASSUME NEW k \in DOMAIN fields, ~Omitted(fields[k], v[fields[k].name])
      PROVE  /\ ReadLeaf(fields[k].type, EncLeaf(fields[k].type, v[fields[k].name]), depth + 1) = Accept(v[fields[k].name])
             /\ LeafSafe(fields[k].type, v[fields[k].name])
  <2> DEFINE t == fields[k].type
             x == v[fields[k].name]
  <2>1. PICK i \in DOMAIN d.fields : /\ TypeAt(fields, d, i) = t /\ read[i].word = Blank /\ read[i].value = x
                                     /\ IsTree(d.fields[i][2])
    BY <1>4, <1>5 DEF Omitted
  <2>2. read[i] = ReadLeaf(t, d.fields[i][2], depth + 1)
    BY <1>3, <2>1
  <2> HIDE DEF t, x
  <2>3. ReadLeaf(t, EncLeaf(t, x), depth + 1) = Accept(x) /\ LeafSafe(t, x)
    BY <2>1, <2>2, LeafKept
  <2> QED BY <2>3 DEF t, x
<1>6. Worded(fields, v)
  <2> SUFFICES ASSUME NEW f \in ToSet(fields), IsEnum(f.type) PROVE Known(f.type, v[f.name])
    BY DEF Worded, BadWord
  <2>1. PICK k \in DOMAIN fields : f = fields[k]
    BY DEF ToSet
  <2>2. fields[k].required
    BY <2>1 DEF AlwaysThere
  <2> QED BY <1>5, <2>1, <2>2 DEF Omitted, LeafSafe
<1>7. ASSUME NEW n \in 1..Cardinality(Written(fields, v))
      PROVE  again[n] = Accept(v[fields[Nth(Written(fields, v), n)].name])
  <2> DEFINE k == Nth(Written(fields, v), n)
  <2> HIDE DEF code
  <2>1. /\ k \in DOMAIN fields /\ TypeAt(fields, e, n) = fields[k].type /\ e.fields[n][2] = code[k]
        /\ n \in DOMAIN e.fields /\ ~Omitted(fields[k], v[fields[k].name])
    BY EntryIsField
  <2> HIDE DEF k, e
  <2>2. code[k] = EncLeaf(fields[k].type, v[fields[k].name])
    BY <2>1 DEF code
  <2>3. again[n] = ReadLeaf(fields[k].type, EncLeaf(fields[k].type, v[fields[k].name]), depth + 1)
    BY <2>1, <2>2
  <2> HIDE DEF again
  <2> QED BY <1>5, <2>1, <2>3 DEF k
<1> HIDE DEF again, code
<1>8. ReadRecord(fields, e, depth, again) = Accept(v)
  BY <1>4, <1>7, RecordStable
<1>9. ReadFlat(fields, EncFlat(fields, v), depth) = Accept(v)
  BY <1>2, <1>8
<1> QED BY <1>4, <1>6, <1>9 DEF v

\* A field of a record with records of leaves in it.
LEMMA FlatFieldKept ==
  ASSUME NEW t, NEW d, IsTree(d), NEW depth \in 0..DepthLimit, ReadFlatField(t, d, depth).word = Blank
  PROVE  LET x == ReadFlatField(t, d, depth).value
         IN ReadFlatField(t, EncFlatField(t, x), depth) = Accept(x) /\ FlatSafe(t, x)
<1> DEFINE x == ReadFlatField(t, d, depth).value
<1>1. CASE IsRecord(t)
  <2>1. GoodSchema(Schema[t]) /\ AlwaysThere(Schema[t]) /\ ~IsEnum(t)
    BY <1>1, SchemasGood, SchemasAlways, RecordsAreRecords DEF IsRecord
  <2>2. ReadFlatField(t, d, depth) = ReadFlat(Schema[t], d, depth)
    BY <1>1 DEF ReadFlatField
  <2> HIDE DEF x
  <2>3. ReadFlat(Schema[t], EncFlat(Schema[t], x), depth) = Accept(x) /\ Worded(Schema[t], x)
    BY <2>1, <2>2, FlatKept DEF x
  <2>4. ReadFlatField(t, EncFlatField(t, x), depth) = Accept(x)
    BY <1>1, <2>3 DEF ReadFlatField, EncFlatField
  <2>5. FlatSafe(t, x)
    BY <2>1, <2>3 DEF FlatSafe, LeafSafe
  <2> QED BY <2>4, <2>5 DEF x
<1>2. CASE ~IsRecord(t)
  <2>1. ReadFlatField(t, d, depth) = ReadLeaf(t, d, depth)
    BY <1>2 DEF ReadFlatField
  <2> HIDE DEF x
  <2>2. ReadLeaf(t, EncLeaf(t, x), depth) = Accept(x) /\ LeafSafe(t, x)
    BY <2>1, LeafKept DEF x
  <2>3. ReadFlatField(t, EncFlatField(t, x), depth) = Accept(x)
    BY <1>2, <2>2 DEF ReadFlatField, EncFlatField
  <2>4. FlatSafe(t, x)
    BY <1>2, <2>2 DEF FlatSafe
  <2> QED BY <2>3, <2>4 DEF x
<1> QED BY <1>1, <1>2

\* The same of a record with records of leaves in it.
LEMMA NestedKept ==
  ASSUME NEW fields, GoodSchema(fields), AlwaysThere(fields), NEW d, IsTree(d), NEW depth \in 0..DepthLimit,
         ReadNested(fields, d, depth).word = Blank
  PROVE  LET v == ReadNested(fields, d, depth).value
         IN ReadNested(fields, EncNested(fields, v), depth) = Accept(v) /\ ReadNested(fields, d, depth) = Accept(v) /\ WordedOnce(fields, v)
<1> DEFINE read == [i \in DOMAIN d.fields |-> ReadFlatField(TypeAt(fields, d, i), d.fields[i][2], depth + 1)]
           v == ReadNested(fields, d, depth).value
           code == [i \in DOMAIN fields |-> EncFlatField(fields[i].type, v[fields[i].name])]
           e == EncRecord(fields, v, code)
           again == [i \in DOMAIN e.fields |-> ReadFlatField(TypeAt(fields, e, i), e.fields[i][2], depth + 1)]
<1>1. ReadNested(fields, d, depth) = ReadRecord(fields, d, depth, read)
  BY DEF ReadNested
<1>2. EncNested(fields, v) = e /\ ReadNested(fields, e, depth) = ReadRecord(fields, e, depth, again)
  BY DEF ReadNested, EncNested
<1>3. \A i \in DOMAIN d.fields : read[i] = ReadFlatField(TypeAt(fields, d, i), d.fields[i][2], depth + 1)
  OBVIOUS
<1> HIDE DEF read
<1>4. /\ ReadNested(fields, d, depth) = Accept(v) /\ IsStruct(fields, v) /\ depth < DepthLimit
      /\ \A k \in DOMAIN fields :
            \/ ~fields[k].required /\ v[fields[k].name] = Zero(fields[k])
            \/ \E i \in DOMAIN d.fields : /\ TypeAt(fields, d, i) = fields[k].type
                                          /\ read[i].word = Blank /\ read[i].value = v[fields[k].name]
                                          /\ IsTree(d.fields[i][2])
  BY <1>1, FieldsRead
<1> HIDE DEF v
<1>5. ASSUME NEW k \in DOMAIN fields, ~Omitted(fields[k], v[fields[k].name])
      PROVE  /\ ReadFlatField(fields[k].type, EncFlatField(fields[k].type, v[fields[k].name]), depth + 1) = Accept(v[fields[k].name])
             /\ FlatSafe(fields[k].type, v[fields[k].name])
  <2> DEFINE t == fields[k].type
             x == v[fields[k].name]
  <2>1. PICK i \in DOMAIN d.fields : /\ TypeAt(fields, d, i) = t /\ read[i].word = Blank /\ read[i].value = x
                                     /\ IsTree(d.fields[i][2])
    BY <1>4, <1>5 DEF Omitted
  <2>2. read[i] = ReadFlatField(t, d.fields[i][2], depth + 1)
    BY <1>3, <2>1
  <2> HIDE DEF t, x
  <2>3. ReadFlatField(t, EncFlatField(t, x), depth + 1) = Accept(x) /\ FlatSafe(t, x)
    BY <1>4, <2>1, <2>2, Deeper, FlatFieldKept
  <2> QED BY <2>3 DEF t, x
<1>6. WordedOnce(fields, v)
  <2>1. ASSUME NEW f \in ToSet(fields), IsEnum(f.type) PROVE Known(f.type, v[f.name])
    <3>1. PICK k \in DOMAIN fields : f = fields[k]
      BY DEF ToSet
    <3>2. fields[k].required
      BY <2>1, <3>1 DEF AlwaysThere
    <3> QED BY <1>5, <2>1, <3>1, <3>2 DEF Omitted, FlatSafe, LeafSafe
  <2>2. ASSUME NEW f \in ToSet(fields), IsRecord(f.type), v[f.name] # Nil PROVE Worded(Schema[f.type], v[f.name])
    <3>1. PICK k \in DOMAIN fields : f = fields[k]
      BY DEF ToSet
    <3>2. Zero(fields[k]) = Nil
      BY <2>2, <3>1, RecordsAreRecords DEF Zero
    <3>3. ~Omitted(fields[k], v[fields[k].name])
      BY <2>2, <3>1, <3>2 DEF Omitted
    <3> QED BY <1>5, <2>2, <3>1, <3>3 DEF FlatSafe
  <2> QED BY <2>1, <2>2 DEF WordedOnce, Worded, BadWord
<1>7. ASSUME NEW n \in 1..Cardinality(Written(fields, v))
      PROVE  again[n] = Accept(v[fields[Nth(Written(fields, v), n)].name])
  <2> DEFINE k == Nth(Written(fields, v), n)
  <2> HIDE DEF code
  <2>1. /\ k \in DOMAIN fields /\ TypeAt(fields, e, n) = fields[k].type /\ e.fields[n][2] = code[k]
        /\ n \in DOMAIN e.fields /\ ~Omitted(fields[k], v[fields[k].name])
    BY EntryIsField
  <2> HIDE DEF k, e
  <2>2. code[k] = EncFlatField(fields[k].type, v[fields[k].name])
    BY <2>1 DEF code
  <2>3. again[n] = ReadFlatField(fields[k].type, EncFlatField(fields[k].type, v[fields[k].name]), depth + 1)
    BY <2>1, <2>2
  <2> HIDE DEF again
  <2> QED BY <1>5, <2>1, <2>3 DEF k
<1> HIDE DEF again, code
<1>8. ReadRecord(fields, e, depth, again) = Accept(v)
  BY <1>4, <1>7, RecordStable
<1>9. ReadNested(fields, EncNested(fields, v), depth) = Accept(v)
  BY <1>2, <1>8
<1> QED BY <1>4, <1>6, <1>9 DEF v

\* A field of a record that nests twice.
LEMMA NestedFieldKept ==
  ASSUME NEW t, NEW d, IsTree(d), NEW depth \in 0..DepthLimit, ReadNestedField(t, d, depth).word = Blank
  PROVE  LET x == ReadNestedField(t, d, depth).value
         IN ReadNestedField(t, EncNestedField(t, x), depth) = Accept(x) /\ NestedSafe(t, x)
<1> DEFINE x == ReadNestedField(t, d, depth).value
<1>1. CASE IsRecord(t)
  <2>1. GoodSchema(Schema[t]) /\ AlwaysThere(Schema[t]) /\ ~IsEnum(t)
    BY <1>1, SchemasGood, SchemasAlways, RecordsAreRecords DEF IsRecord
  <2>2. ReadNestedField(t, d, depth) = ReadNested(Schema[t], d, depth)
    BY <1>1 DEF ReadNestedField
  <2> HIDE DEF x
  <2>3. ReadNested(Schema[t], EncNested(Schema[t], x), depth) = Accept(x) /\ WordedOnce(Schema[t], x)
    BY <2>1, <2>2, NestedKept DEF x
  <2>4. ReadNestedField(t, EncNestedField(t, x), depth) = Accept(x)
    BY <1>1, <2>3 DEF ReadNestedField, EncNestedField
  <2>5. NestedSafe(t, x)
    BY <2>1, <2>3 DEF NestedSafe, LeafSafe
  <2> QED BY <2>4, <2>5 DEF x
<1>2. CASE ~IsRecord(t)
  <2>1. ReadNestedField(t, d, depth) = ReadLeaf(t, d, depth)
    BY <1>2 DEF ReadNestedField
  <2> HIDE DEF x
  <2>2. ReadLeaf(t, EncLeaf(t, x), depth) = Accept(x) /\ LeafSafe(t, x)
    BY <2>1, LeafKept DEF x
  <2>3. ReadNestedField(t, EncNestedField(t, x), depth) = Accept(x)
    BY <1>2, <2>2 DEF ReadNestedField, EncNestedField
  <2>4. NestedSafe(t, x)
    BY <1>2, <2>2 DEF NestedSafe
  <2> QED BY <2>3, <2>4 DEF x
<1> QED BY <1>1, <1>2

\* The same of a record that nests twice.
LEMMA ValueKept ==
  ASSUME NEW fields, GoodSchema(fields), AlwaysThere(fields), NEW d, IsTree(d), NEW depth \in 0..DepthLimit,
         Read(fields, d, depth).word = Blank
  PROVE  LET v == Read(fields, d, depth).value
         IN Read(fields, Enc(fields, v), depth) = Accept(v) /\ Read(fields, d, depth) = Accept(v) /\ WordedTwice(fields, v)
<1> DEFINE read == [i \in DOMAIN d.fields |-> ReadNestedField(TypeAt(fields, d, i), d.fields[i][2], depth + 1)]
           v == Read(fields, d, depth).value
           code == [i \in DOMAIN fields |-> EncNestedField(fields[i].type, v[fields[i].name])]
           e == EncRecord(fields, v, code)
           again == [i \in DOMAIN e.fields |-> ReadNestedField(TypeAt(fields, e, i), e.fields[i][2], depth + 1)]
<1>1. Read(fields, d, depth) = ReadRecord(fields, d, depth, read)
  BY DEF Read
<1>2. Enc(fields, v) = e /\ Read(fields, e, depth) = ReadRecord(fields, e, depth, again)
  BY DEF Read, Enc
<1>3. \A i \in DOMAIN d.fields : read[i] = ReadNestedField(TypeAt(fields, d, i), d.fields[i][2], depth + 1)
  OBVIOUS
<1> HIDE DEF read
<1>4. /\ Read(fields, d, depth) = Accept(v) /\ IsStruct(fields, v) /\ depth < DepthLimit
      /\ \A k \in DOMAIN fields :
            \/ ~fields[k].required /\ v[fields[k].name] = Zero(fields[k])
            \/ \E i \in DOMAIN d.fields : /\ TypeAt(fields, d, i) = fields[k].type
                                          /\ read[i].word = Blank /\ read[i].value = v[fields[k].name]
                                          /\ IsTree(d.fields[i][2])
  BY <1>1, FieldsRead
<1> HIDE DEF v
<1>5. ASSUME NEW k \in DOMAIN fields, ~Omitted(fields[k], v[fields[k].name])
      PROVE  /\ ReadNestedField(fields[k].type, EncNestedField(fields[k].type, v[fields[k].name]), depth + 1) = Accept(v[fields[k].name])
             /\ NestedSafe(fields[k].type, v[fields[k].name])
  <2> DEFINE t == fields[k].type
             x == v[fields[k].name]
  <2>1. PICK i \in DOMAIN d.fields : /\ TypeAt(fields, d, i) = t /\ read[i].word = Blank /\ read[i].value = x
                                     /\ IsTree(d.fields[i][2])
    BY <1>4, <1>5 DEF Omitted
  <2>2. read[i] = ReadNestedField(t, d.fields[i][2], depth + 1)
    BY <1>3, <2>1
  <2> HIDE DEF t, x
  <2>3. ReadNestedField(t, EncNestedField(t, x), depth + 1) = Accept(x) /\ NestedSafe(t, x)
    BY <1>4, <2>1, <2>2, Deeper, NestedFieldKept
  <2> QED BY <2>3 DEF t, x
<1>6. WordedTwice(fields, v)
  <2>1. ASSUME NEW f \in ToSet(fields), IsEnum(f.type) PROVE Known(f.type, v[f.name])
    <3>1. PICK k \in DOMAIN fields : f = fields[k]
      BY DEF ToSet
    <3>2. fields[k].required
      BY <2>1, <3>1 DEF AlwaysThere
    <3> QED BY <1>5, <2>1, <3>1, <3>2 DEF Omitted, NestedSafe, LeafSafe
  <2>2. ASSUME NEW f \in ToSet(fields), IsRecord(f.type), v[f.name] # Nil PROVE WordedOnce(Schema[f.type], v[f.name])
    <3>1. PICK k \in DOMAIN fields : f = fields[k]
      BY DEF ToSet
    <3>2. Zero(fields[k]) = Nil
      BY <2>2, <3>1, RecordsAreRecords DEF Zero
    <3>3. ~Omitted(fields[k], v[fields[k].name])
      BY <2>2, <3>1, <3>2 DEF Omitted
    <3> QED BY <1>5, <2>2, <3>1, <3>3 DEF NestedSafe
  <2> QED BY <2>1, <2>2 DEF WordedTwice, Worded, BadWord
<1>7. ASSUME NEW n \in 1..Cardinality(Written(fields, v))
      PROVE  again[n] = Accept(v[fields[Nth(Written(fields, v), n)].name])
  <2> DEFINE k == Nth(Written(fields, v), n)
  <2> HIDE DEF code
  <2>1. /\ k \in DOMAIN fields /\ TypeAt(fields, e, n) = fields[k].type /\ e.fields[n][2] = code[k]
        /\ n \in DOMAIN e.fields /\ ~Omitted(fields[k], v[fields[k].name])
    BY EntryIsField
  <2> HIDE DEF k, e
  <2>2. code[k] = EncNestedField(fields[k].type, v[fields[k].name])
    BY <2>1 DEF code
  <2>3. again[n] = ReadNestedField(fields[k].type, EncNestedField(fields[k].type, v[fields[k].name]), depth + 1)
    BY <2>1, <2>2
  <2> HIDE DEF again
  <2> QED BY <1>5, <2>1, <2>3 DEF k
<1> HIDE DEF again, code
<1>8. ReadRecord(fields, e, depth, again) = Accept(v)
  BY <1>4, <1>7, RecordStable
<1>9. Read(fields, Enc(fields, v), depth) = Accept(v)
  BY <1>2, <1>8
<1> QED BY <1>4, <1>6, <1>9 DEF v

\* A value that is worded all through does not make its writer panic.
LEMMA NoPanic ==
  ASSUME NEW fields, NEW v, WordedTwice(fields, v)
  PROVE  ~Panics(fields, v)
<1>1. ASSUME NEW g, NEW w, NEW x \in Inner(g, w)
      PROVE  \E f \in ToSet(g) : IsRecord(f.type) /\ w[f.name] # Nil /\ x[1] = Schema[f.type] /\ x[2] = w[f.name]
  <2>1. PICK f \in {h \in ToSet(g) : IsRecord(h.type) /\ w[h.name] # Nil} : x = <<Schema[f.type], w[f.name]>>
    BY DEF Inner
  <2> DEFINE a == Schema[f.type]
             b == w[f.name]
  <2>2. x = <<a, b>>
    BY <2>1
  <2> HIDE DEF a, b
  <2>3. x[1] = a /\ x[2] = b
    BY <2>2
  <2> QED BY <2>1, <2>3 DEF a, b
<1>2. ASSUME NEW x \in Inner(fields, v) PROVE WordedOnce(x[1], x[2])
  BY <1>1 DEF WordedTwice
<1>3. ASSUME NEW x \in Inner(fields, v), NEW y \in Inner(x[1], x[2]) PROVE Worded(y[1], y[2])
  BY <1>1, <1>2 DEF WordedOnce
<1> QED BY <1>2, <1>3 DEF Panics, WordedTwice, WordedOnce, Worded

\* Where there are no records to be worded, none is worded wrongly.
LEMMA LeavesWorded ==
  ASSUME NEW fields, LeavesOnly(fields), NEW v, Worded(fields, v)
  PROVE  WordedOnce(fields, v) /\ WordedTwice(fields, v)
BY DEF LeavesOnly, WordedOnce, WordedTwice, ToSet

\* In a record that nests once there is nothing to word twice.
LEMMA OnceWorded ==
  ASSUME NEW fields, NestsOnce(fields), NEW v, WordedOnce(fields, v)
  PROVE  WordedTwice(fields, v)
<1>1. ASSUME NEW f \in ToSet(fields), IsRecord(f.type), v[f.name] # Nil PROVE WordedOnce(Schema[f.type], v[f.name])
  <2>1. LeavesOnly(Schema[f.type])
    BY <1>1 DEF NestsOnce, ToSet
  <2>2. Worded(Schema[f.type], v[f.name])
    BY <1>1 DEF WordedOnce
  <2> QED BY <2>1, <2>2, LeavesWorded
<1> QED BY <1>1 DEF WordedOnce, WordedTwice

\* The writer of each record.
LEMMA EncodeIs ==
  ASSUME NEW t, NEW v
  PROVE  /\ t = "Ref" => EncodeOf(t, v) = EncFlat(Schema[t], v)
         /\ t \in {"LookupResult", "ManifestResult"} => EncodeOf(t, v) = EncNested(Schema[t], v)
         /\ t \notin {"Ref", "LookupResult", "ManifestResult"} => EncodeOf(t, v) = Enc(Schema[t], v)
<1>1. Schema["Ref"] = RefSchema /\ Schema["LookupResult"] = LookupResultSchema /\ Schema["ManifestResult"] = ManifestResultSchema
  BY DEF Schema
<1> QED BY <1>1 DEF EncodeOf, encRef, encLookupResult, encManifestResult

\* Whichever the record, what was read is written without a panic and reads the same.
LEMMA DecodedIsKept ==
  ASSUME NEW t \in DOMAIN Schema, NEW d, IsTree(d), NEW depth \in 0..DepthLimit, DecodeAt(t, d, depth).word = Blank
  PROVE  LET v == DecodeAt(t, d, depth).value
         IN /\ DecodeAt(t, d, depth) = Accept(v) /\ DecodeAt(t, EncodeOf(t, v), depth) = Accept(v)
            /\ ~Panics(Schema[t], v) /\ depth < DepthLimit
<1> DEFINE v == DecodeAt(t, d, depth).value
<1>1. GoodSchema(Schema[t]) /\ AlwaysThere(Schema[t])
  BY SchemasGood, SchemasAlways
<1>2. Schema["Ref"] = RefSchema /\ Schema["LookupResult"] = LookupResultSchema /\ Schema["ManifestResult"] = ManifestResultSchema
  BY DEF Schema
<1>3. depth < DepthLimit
  BY DecodeFits DEF Fits, FitsRecord
<1>4. CASE t = "Ref"
  <2>1. DecodeAt(t, d, depth) = ReadFlat(Schema[t], d, depth)
    BY <1>4, DecodeIs
  <2>2. /\ ReadFlat(Schema[t], EncFlat(Schema[t], v), depth) = Accept(v)
        /\ ReadFlat(Schema[t], d, depth) = Accept(v) /\ Worded(Schema[t], v)
    BY <1>1, <2>1, FlatKept
  <2> HIDE DEF v
  <2>3. ~Panics(Schema[t], v)
    BY <1>2, <1>4, <2>2, SchemasNest, LeavesWorded, NoPanic
  <2>4. DecodeAt(t, EncodeOf(t, v), depth) = Accept(v)
    BY <1>4, <2>2, DecodeIs, EncodeIs
  <2> QED BY <1>3, <2>1, <2>2, <2>3, <2>4 DEF v
<1>5. CASE t \in {"LookupResult", "ManifestResult"}
  <2>1. DecodeAt(t, d, depth) = ReadNested(Schema[t], d, depth)
    BY <1>5, DecodeIs
  <2>2. /\ ReadNested(Schema[t], EncNested(Schema[t], v), depth) = Accept(v)
        /\ ReadNested(Schema[t], d, depth) = Accept(v) /\ WordedOnce(Schema[t], v)
    BY <1>1, <2>1, NestedKept
  <2> HIDE DEF v
  <2>3. ~Panics(Schema[t], v)
    <3>1. NestsOnce(Schema[t])
      BY <1>2, <1>5, SchemasNest
    <3> QED BY <2>2, <3>1, OnceWorded, NoPanic
  <2>4. DecodeAt(t, EncodeOf(t, v), depth) = Accept(v)
    BY <1>5, <2>2, DecodeIs, EncodeIs
  <2> QED BY <1>3, <2>1, <2>2, <2>3, <2>4 DEF v
<1>6. CASE t \notin {"Ref", "LookupResult", "ManifestResult"}
  <2>1. DecodeAt(t, d, depth) = Read(Schema[t], d, depth)
    BY <1>6, DecodeIs
  <2>2. /\ Read(Schema[t], Enc(Schema[t], v), depth) = Accept(v)
        /\ Read(Schema[t], d, depth) = Accept(v) /\ WordedTwice(Schema[t], v)
    BY <1>1, <2>1, ValueKept
  <2> HIDE DEF v
  <2>3. ~Panics(Schema[t], v)
    BY <2>2, NoPanic
  <2>4. DecodeAt(t, EncodeOf(t, v), depth) = Accept(v)
    BY <1>6, <2>2, DecodeIs, EncodeIs
  <2> QED BY <1>3, <2>1, <2>2, <2>3, <2>4 DEF v
<1> QED BY <1>4, <1>5, <1>6

\* What was read of any text that is a tree is written and read again.
LEMMA TreesSurvive ==
  ASSUME Types \subseteq DOMAIN Schema, IsTree(doc)
  PROVE  RoundTrip
<1> DEFINE r == DecodeAt(type, doc, 0)
           v == r.value
           out == EncodeOf(type, v)
           e == EncodeAt(type, v, 0)
<1> SUFFICES ASSUME type \in Types, r.word = Blank PROVE e.word = Blank /\ DecodeAt(type, e.value, 0) = r
  BY Zenon DEF RoundTrip
<1>1. type \in DOMAIN Schema /\ 0 \in 0..DepthLimit /\ ~(0 >= DepthLimit)
  BY DepthAssumption
<1>2. r = Accept(v) /\ DecodeAt(type, out, 0) = Accept(v) /\ ~Panics(Schema[type], v)
  BY <1>1, DecodedIsKept
<1> HIDE DEF r, v
<1>3. e = Carried(out, DecodeAt(type, out, 0).word)
  BY <1>1, <1>2, Zenon DEF EncodeAt
<1> HIDE DEF out, e
<1>4. e = Accept(out)
  BY <1>2, <1>3, Words DEF Carried
<1> QED BY <1>2, <1>4, Words

-----------------------------------------------------------------------------
(***************************************************************************)
(* An error walked as a payload.                                           *)
(***************************************************************************)
\* The entries of a written record are a list.
LEMMA InOrderIsList ==
  ASSUME NEW fields, NEW written, Cardinality(written) \in Nat, NEW code
  PROVE  IsList(InOrder(fields, written, code))
<1> DEFINE s == InOrder(fields, written, code)
           c == Cardinality(written)
           S == {s[i] : i \in DOMAIN s}
<1>1. DOMAIN s = 1..c /\ s = [i \in 1..c |-> s[i]]
  BY DEF InOrder
<1> HIDE DEF s, c
<1>2. s \in [1..c -> S]
  BY <1>1
<1> HIDE DEF S
<1>3. s \in Seq(S)
  BY <1>2, SeqDef DEF c
<1> QED BY <1>3 DEF IsList, S, s

\* An error that was skipped as a payload is an error when it is read (the bytes of
\* a Raw are judged by the same string reader).
LEMMA SkippedErrorIsRead ==
  ASSUME NEW code, NEW message, NEW depth \in 0..DepthLimit,
         SkipValue(EncFlat(ErrorSchema, [code |-> code, message |-> message]), depth) = Blank
  PROVE  ReadFlat(ErrorSchema, EncFlat(ErrorSchema, [code |-> code, message |-> message]), depth)
           = Accept([code |-> code, message |-> message])
<1> DEFINE v == [code |-> code, message |-> message]
           fields == ErrorSchema
           written == Written(fields, v)
           c == Cardinality(written)
           enc == [i \in DOMAIN fields |-> EncLeaf(fields[i].type, v[fields[i].name])]
           d == EncRecord(fields, v, enc)
<1>1. EncFlat(fields, v) = d
  BY DEF EncFlat
<1>2. IsContainer(d)
  BY ErrorGood, WrittenEntries DEF IsContainer
<1>3. DOMAIN d.fields = 1..c /\ c \in Nat /\ \A k \in written : \E n \in 1..c : Nth(written, n) = k
  <2> HIDE DEF enc, v, fields
  <2>1. GoodSchema(fields)
    BY ErrorGood DEF fields
  <2>. QED
    BY <2>1, WrittenEntries, SMTT(40)
<1>4. ASSUME NEW n \in 1..c
      PROVE  LET k == Nth(written, n)
             IN k \in DOMAIN fields /\ fields[k].type = "string" /\ d.fields[n][2] = Str(v[fields[k].name])
  <2> DEFINE k == Nth(written, n)
  <2>1. k \in DOMAIN fields /\ d.fields[n][2] = enc[k]
    <3> HIDE DEF enc, fields, v
    <3>1. GoodSchema(fields)
      BY ErrorGood DEF fields
    <3>. QED
      BY <3>1, EntryIsField
  <2>2. fields[k].type = "string"
    BY <2>1, ErrorFields
  <2> HIDE DEF k
  <2>3. enc[k] = EncLeaf("string", v[fields[k].name])
    BY <2>1, <2>2
  <2>4. EncLeaf("string", v[fields[k].name]) = Str(v[fields[k].name])
    BY DEF EncLeaf
  <2> HIDE DEF v, d, enc, fields
  <2>. QED
    BY <2>1, <2>2, <2>3, <2>4 DEF k
<1>5. ~IsContainer(Str(code)) /\ \A x : ~IsContainer(Str(x)) /\ Str(x).kind = "string" /\ Str(x).text = x
  BY DEF IsContainer, Str, Leaf, Value
<1> HIDE DEF d, enc, v, fields
<1>6. IsTree(d)
  <2> DEFINE T == {d} \cup {d.fields[n][2] : n \in 1..c}
  <2>1. \A x \in T : IsContainer(x) => x = d
    BY <1>4, <1>5
  <2>2. \A n \in 1..c : d.fields[n][2] \in T
    OBVIOUS
  <2>3. d \in T
    OBVIOUS
  <2> HIDE DEF T
  <2>4. d = Value(d.kind, d.text, d.fields) /\ IsList(d.fields)
    <3>1. d = Object(InOrder(fields, written, enc))
      BY DEF d, EncRecord
    <3>2. d = Value("object", Blank, InOrder(fields, written, enc))
      BY <3>1 DEF Object
    <3>3. IsList(d.fields)
      BY <1>3, <3>2, InOrderIsList DEF Value
    <3>. QED
      BY <3>2, <3>3 DEF Value
  <2>5. Whole(T)
    BY <1>3, <2>1, <2>2, <2>4 DEF Whole
  <2>. QED
    BY <2>3, <2>5 DEF IsTree
<1>7. Sound(d, depth)
  BY <1>1, <1>6, SkipIsSound DEF v, fields
<1>8. depth < DepthLimit
  <2>1. SoundAt(d, depth)
    <3>1. depth = DepthLimit \/ depth < DepthLimit
      BY DepthAssumption
    <3>. QED
      BY <1>7, <3>1, SoundUnfold
  <2>. QED
    BY <1>2, <2>1 DEF SoundAt, IsContainer
<1>9. ASSUME NEW k \in written
      PROVE  ReadLeaf(fields[k].type, EncLeaf(fields[k].type, v[fields[k].name]), depth + 1).word = Blank
  <2> DEFINE x == v[fields[k].name]
  <2>1. PICK n \in 1..c : Nth(written, n) = k
    BY <1>3
  <2>2. fields[k].type = "string" /\ d.fields[n][2] = Str(x) /\ n \in DOMAIN d.fields
    BY <1>3, <1>4, <2>1
  <2> HIDE DEF x
  <2>3. Sound(Str(x), depth + 1) /\ depth + 1 \in 0..DepthLimit
    BY <1>2, <1>7, <1>8, <2>2, SoundInside, Deeper
  <2>4. skipLeaf(Str(x)) = Blank
    BY <1>5, <2>3, LeafSkipped
  <2>5. x # BadText
    BY <1>5, <2>4, BlankIsNoWord DEF skipLeaf
  <2>6. EncLeaf("string", x) = Str(x)
    BY DEF EncLeaf
  <2>7. ReadString(Str(x)).word = Blank
    BY <2>5, Words DEF ReadString, Str, Leaf, Value
  <2>. QED
    BY <2>2, <2>6, <2>7 DEF ReadLeaf, x
<1>10. ~TooDeep(depth)
  BY <1>8, DepthAssumption DEF TooDeep
<1> HIDE DEF written
<1>11. ReadFlat(fields, EncFlat(fields, v), depth).word = Blank
  BY <1>9, <1>10, ErrorGood, FlatIsRead DEF written, fields
<1>. QED
  BY <1>11, ErrorGood, ErrorGo, FlatReadsBack DEF v, fields

-----------------------------------------------------------------------------
(***************************************************************************)
(* Texts of other programs: an edit of a tree makes a tree.                *)
(***************************************************************************)
\* A value made of trees is one.
LEMMA MadeTree ==
  ASSUME NEW kind, NEW txt, NEW S, NEW fields \in Seq(S), \A p \in S : IsTree(p[2])
  PROVE  IsTree(Value(kind, txt, fields))
<1> DEFINE e == Value(kind, txt, fields)
           Of(p) == CHOOSE T : p[2] \in T /\ Whole(T)
           T == {e} \cup UNION {Of(p) : p \in S}
<1>1. \A p \in S : p[2] \in Of(p) /\ Whole(Of(p))
  BY DEF IsTree
<1> HIDE DEF Of
<1>2. e.kind = kind /\ e.text = txt /\ e.fields = fields /\ e = Value(e.kind, e.text, e.fields)
  BY DEF Value
<1>3. Len(fields) \in Nat /\ DOMAIN fields = 1..Len(fields) /\ \A i \in DOMAIN fields : fields[i] \in S
  BY LenProperties
<1>4. IsList(fields)
  <2> DEFINE R == {fields[i] : i \in DOMAIN fields}
  <2>1. fields \in [1..Len(fields) -> R]
    BY LenProperties
  <2> HIDE DEF R
  <2>2. fields \in Seq(R)
    BY <1>3, <2>1, SeqDef
  <2>. QED
    BY <2>2 DEF IsList, R
<1> HIDE DEF e
<1>5. Whole(T)
  <2> SUFFICES ASSUME NEW x \in T, IsContainer(x)
               PROVE  /\ x = Value(x.kind, x.text, x.fields) /\ IsList(x.fields)
                      /\ \A i \in DOMAIN x.fields : x.fields[i][2] \in T
    BY Zenon DEF Whole
  <2>1. CASE x = e
    BY <1>1, <1>2, <1>3, <1>4, <2>1
  <2>2. CASE x # e
    <3>1. PICK p \in S : x \in Of(p)
      BY <2>2
    <3>2. /\ x = Value(x.kind, x.text, x.fields) /\ IsList(x.fields)
          /\ \A i \in DOMAIN x.fields : x.fields[i][2] \in Of(p)
      BY <1>1, <3>1 DEF Whole
    <3>. QED
      BY <3>1, <3>2
  <2>. QED
    BY <2>1, <2>2
<1>6. e \in T
  OBVIOUS
<1> HIDE DEF T
<1>. QED
  BY <1>5, <1>6 DEF IsTree, e

\* A leaf is a tree.
LEMMA LeafTree ==
  ASSUME NEW kind, kind \notin {"object", "array"}, NEW txt PROVE IsTree(Leaf(kind, txt))
<1> DEFINE s == <<>>
           S == {}
<1>1. s \in Seq(S) /\ \A p \in S : IsTree(p[2])
  BY EmptySeq
<1> HIDE DEF s, S
<1>2. IsTree(Value(kind, txt, s))
  BY <1>1, MadeTree
<1>. QED
  BY <1>2 DEF Leaf, s

\* The entries of a tree that is a container.
LEMMA TreeEntries ==
  ASSUME NEW d, IsTree(d), IsContainer(d)
  PROVE  LET S == {d.fields[i] : i \in DOMAIN d.fields}
         IN d = Value(d.kind, d.text, d.fields) /\ d.fields \in Seq(S) /\ \A p \in S : IsTree(p[2])
<1>1. d = Value(d.kind, d.text, d.fields) /\ IsList(d.fields)
  BY DEF IsTree, Whole
<1>2. \A i \in DOMAIN d.fields : IsTree(d.fields[i][2])
  BY TreeInside
<1>. QED
  BY <1>1, <1>2 DEF IsList

\* A tree with one of its fields replaced.
LEMMA ValueExcept ==
  ASSUME NEW d, d = Value(d.kind, d.text, d.fields), NEW x
  PROVE  /\ [d EXCEPT !.text = x] = Value(d.kind, x, d.fields)
         /\ Refielded(d, x) = Value(d.kind, d.text, x)
BY DEF Value, Refielded

\* An entry given another key or another value.
LEMMA WithTree ==
  ASSUME NEW d, IsTree(d), IsContainer(d), NEW i \in DOMAIN d.fields, NEW key, NEW v, IsTree(v)
  PROVE  IsTree(With(d, i, <<key, v>>))
<1> DEFINE S == {d.fields[j] : j \in DOMAIN d.fields}
           p == <<key, v>>
           R == S \cup {p}
           s == ReplaceAt(d.fields, i, p)
<1>1. d = Value(d.kind, d.text, d.fields) /\ d.fields \in Seq(S) /\ \A q \in S : IsTree(q[2])
  BY TreeEntries
<1>2. p[2] = v
  OBVIOUS
<1> HIDE DEF p, S
<1>3. \A q \in R : IsTree(q[2])
  BY <1>1, <1>2
<1>4. s \in Seq(R)
  <2>1. d.fields \in Seq(R) /\ p \in R
    BY <1>1, SeqMonotonic
  <2>2. i \in 1..Len(d.fields)
    BY <1>1, LenProperties
  <2> HIDE DEF R
  <2>. QED
    BY <2>1, <2>2, ExceptSeq DEF ReplaceAt
<1>5. With(d, i, p) = Value(d.kind, d.text, s)
  BY <1>1, ValueExcept DEF With
<1> HIDE DEF R, s
<1>6. IsTree(Value(d.kind, d.text, s))
  BY <1>3, <1>4, MadeTree
<1>. QED
  BY <1>5, <1>6 DEF p

\* The odd values are trees.
LEMMA OddTrees == \A v \in OddValues : IsTree(v)
<1>1. \A x : IsTree(Str(x))
  BY LeafTree DEF Str
<1>2. \A x : /\ IsTree(Leaf("int", x)) /\ IsTree(Leaf("number", x)) /\ IsTree(Leaf("bool", x))
             /\ IsTree(Leaf("null", x)) /\ IsTree(Leaf("junk", x))
  BY LeafTree
<1>3. IsTree(Object(<<>>))
  <2> DEFINE s == <<>>
             S == {}
  <2>1. s \in Seq(S) /\ \A p \in S : IsTree(p[2])
    BY EmptySeq
  <2> HIDE DEF s, S
  <2>2. IsTree(Value("object", Blank, s))
    BY <2>1, MadeTree
  <2>. QED
    BY <2>2 DEF Object, s
<1>4. \A key, v, w : IsTree(v) /\ IsTree(w) => IsTree(Object(<< <<key, v>>, <<key, w>> >>))
  <2> SUFFICES ASSUME NEW key, NEW v, NEW w, IsTree(v), IsTree(w)
               PROVE  IsTree(Object(<< <<key, v>>, <<key, w>> >>))
    OBVIOUS
  <2> DEFINE p == <<key, v>>
             q == <<key, w>>
  <2>1. p[2] = v /\ q[2] = w
    OBVIOUS
  <2> HIDE DEF p, q
  <2> DEFINE s == <<p, q>>
             S == {p, q}
  <2>2. s \in Seq(S) /\ \A r \in S : IsTree(r[2])
    BY <2>1
  <2> HIDE DEF s, S
  <2>3. IsTree(Value("object", Blank, s))
    BY <2>2, MadeTree
  <2>. QED
    BY <2>3, Zenon DEF p, q, s, Object
<1>5. \A key, v : IsTree(v) => IsTree(Value("array", Blank, << <<key, v>> >>))
  <2> SUFFICES ASSUME NEW key, NEW v, IsTree(v) PROVE IsTree(Value("array", Blank, << <<key, v>> >>))
    OBVIOUS
  <2> DEFINE p == <<key, v>>
  <2>1. p[2] = v
    OBVIOUS
  <2> HIDE DEF p
  <2> DEFINE s == <<p>>
             S == {p}
  <2>2. s \in Seq(S) /\ \A r \in S : IsTree(r[2])
    BY <2>1
  <2> HIDE DEF s, S
  <2>3. IsTree(Value("array", Blank, s))
    BY <2>2, MadeTree
  <2>. QED
    BY <2>3, Zenon DEF p, s
<1>6. IsTree(Object(<< <<"a", Leaf("null", Blank)>>, <<"a", Str("x")>> >>))
  BY <1>1, <1>2, <1>4
<1>7. IsTree(Value("array", Blank, << <<Blank, Object(<<>>)>> >>))
  BY <1>3, <1>5
<1>. QED
  BY <1>1, <1>2, <1>3, <1>6, <1>7, Zenon DEF OddValues, Junk

\* A text that was changed in one place is a tree again.
LEMMA ChangedTree ==
  ASSUME NEW d, IsTree(d), IsContainer(d), NEW e \in Changes(d) PROVE IsTree(e)
<1> DEFINE S == {d.fields[j] : j \in DOMAIN d.fields}
<1>1. d = Value(d.kind, d.text, d.fields) /\ d.fields \in Seq(S) /\ \A q \in S : IsTree(q[2])
  BY TreeEntries
<1>2. \A i \in DOMAIN d.fields : d.fields[i] \in S
  OBVIOUS
<1>3. \A i \in DOMAIN d.fields : IsTree(d.fields[i][2])
  BY TreeInside
<1> HIDE DEF S
<1>4. DOMAIN d.fields = 1..Len(d.fields) /\ Len(d.fields) \in Nat
  BY <1>1, LenProperties
<1>5. ASSUME NEW i \in DOMAIN d.fields PROVE RemoveAt(d.fields, i) \in Seq(S)
  <2>1. SubSeq(d.fields, 1, i - 1) \in Seq(S) /\ SubSeq(d.fields, i + 1, Len(d.fields)) \in Seq(S)
    BY <1>2, <1>4, SubSeqProperties
  <2>. QED
    BY <2>1, ConcatProperties DEF RemoveAt
<1>6. ASSUME NEW s \in Seq(S) PROVE IsTree(Refielded(d, s))
  <2>1. Refielded(d, s) = Value(d.kind, d.text, s)
    BY <1>1, ValueExcept
  <2>. QED
    BY <1>1, <2>1, MadeTree
<1>7. IsTree([d EXCEPT !.text = "open"])
  <2>1. [d EXCEPT !.text = "open"] = Value(d.kind, "open", d.fields)
    BY <1>1, ValueExcept
  <2>. QED
    BY <1>1, <2>1, MadeTree
<1>8. ASSUME NEW s \in Seq(S), NEW i \in DOMAIN d.fields PROVE Append(s, d.fields[i]) \in Seq(S)
  BY <1>2
<1>9. ASSUME NEW i \in DOMAIN d.fields, e \in Moved(d, i) PROVE IsTree(e)
  BY <1>1, <1>5, <1>6, <1>8, <1>9 DEF Moved
<1>10. ASSUME NEW i \in DOMAIN d.fields, e \in Renamed(d, i) PROVE IsTree(e)
  BY <1>3, <1>10, WithTree DEF Renamed
<1>11. ASSUME NEW i \in DOMAIN d.fields, e \in Given(d, i) PROVE IsTree(e)
  BY <1>11, OddTrees, WithTree, ZenonT(60) DEF Given
<1>. QED
  BY <1>7, <1>9, <1>10, <1>11 DEF Changes

\* The levels of the edits, as a function that satisfies its own definition.
NoEdits(d) == [x \in Nested(d) |-> {}]
EditTo(d, m, g) == g = [n \in 0..m |-> editLevel(d, IF n = 0 THEN NoEdits(d) ELSE g[n - 1])]

\* There is such a function, to any depth.
LEMMA EditExists ==
  ASSUME NEW d, NEW m \in Nat
  PROVE  \E g : EditTo(d, m, g)
<1> DEFINE T == {k \in Nat : ~\E g : EditTo(d, k, g)}
<1> SUFFICES ASSUME T # {} PROVE FALSE
  BY DEF T
<1>1. PICK k \in T : \A y \in T : k <= y
  <2>1. T \in SUBSET Nat
    OBVIOUS
  <2>. QED
    BY <2>1, MinOfPositions
<1>2. k \in Nat /\ ~\E g : EditTo(d, k, g)
  BY <1>1
<1>3. CASE k = 0
  <2> DEFINE g == [n \in 0..0 |-> editLevel(d, NoEdits(d))]
  <2>1. EditTo(d, 0, g)
    BY DEF EditTo
  <2>. QED
    BY <1>2, <1>3, <2>1
<1>4. CASE k # 0
  <2>1. k - 1 \in Nat /\ k - 1 \notin T
    BY <1>1, <1>2, <1>4
  <2>2. PICK g : EditTo(d, k - 1, g)
    BY <2>1
  <2> DEFINE h == [n \in 0..k |-> IF n = k THEN editLevel(d, g[k - 1]) ELSE g[n]]
  <2>3. EditTo(d, k, h)
    <3>1. ASSUME NEW n \in 0..k PROVE h[n] = editLevel(d, IF n = 0 THEN NoEdits(d) ELSE h[n - 1])
      <4>1. CASE n = k
        BY <1>2, <1>4, <4>1
      <4>2. CASE n # k
        <5>1. n \in 0..(k - 1) /\ h[n] = g[n] /\ (n # 0 => n - 1 \in 0..(k - 1) /\ h[n - 1] = g[n - 1])
          BY <1>2, <4>2
        <5>2. g[n] = editLevel(d, IF n = 0 THEN NoEdits(d) ELSE g[n - 1])
          BY <2>2, <5>1 DEF EditTo
        <5> HIDE DEF h
        <5>. QED
          BY <5>1, <5>2
      <4>. QED
        BY <4>1, <4>2
    <3>2. h = [n \in 0..k |-> h[n]]
      OBVIOUS
    <3> HIDE DEF h
    <3>3. h = [n \in 0..k |-> editLevel(d, IF n = 0 THEN NoEdits(d) ELSE h[n - 1])]
      BY <3>1, <3>2
    <3>. QED
      BY <3>3 DEF EditTo
  <2>. QED
    BY <1>2, <2>3
<1>. QED
  BY <1>3, <1>4

\* The edits of one level, from those of the level below.
LEMMA EditUnfold ==
  ASSUME NEW d, NEW n \in 0..DepthLimit
  PROVE  EditLevels(d)[n] = editLevel(d, IF n = 0 THEN NoEdits(d) ELSE EditLevels(d)[n - 1])
<1>1. \E g : EditTo(d, DepthLimit, g)
  BY EditExists, DepthAssumption
<1>2. EditTo(d, DepthLimit, EditLevels(d))
  BY <1>1 DEF EditLevels, EditTo, NoEdits
<1> DEFINE g == EditLevels(d)
<1> HIDE DEF g
<1>3. EditTo(d, DepthLimit, g)
  BY <1>2 DEF g
<1>4. g[n] = editLevel(d, IF n = 0 THEN NoEdits(d) ELSE g[n - 1])
  BY <1>3 DEF EditTo
<1>. QED
  BY <1>4 DEF g

\* One level of edits of trees makes trees, if the level below does.
LEMMA LevelOfTrees ==
  ASSUME NEW d, \A x \in Nested(d) : IsTree(x),
         NEW below, \A x \in Nested(d) : \A e \in below[x] : IsTree(e),
         NEW x \in Nested(d), NEW e \in editLevel(d, below)[x]
  PROVE  IsTree(e)
<1> DEFINE Deep(i) == {With(x, i, <<x.fields[i][1], v>>) : v \in below[x.fields[i][2]]}
           inner == {k \in DOMAIN x.fields : x.fields[k][2] \in Nested(d)}
<1>1. editLevel(d, below)[x] = IF ~IsContainer(x) THEN {} ELSE Changes(x) \cup UNION {Deep(i) : i \in inner}
  BY Zenon DEF editLevel
<1>2. ASSUME IsContainer(x), NEW i \in inner, e \in Deep(i) PROVE IsTree(e)
  <2>1. i \in DOMAIN x.fields /\ x.fields[i][2] \in Nested(d)
    BY <1>2
  <2>2. PICK v \in below[x.fields[i][2]] : e = With(x, i, <<x.fields[i][1], v>>)
    BY <1>2
  <2>3. IsTree(v)
    BY <2>1
  <2>. QED
    BY <1>2, <2>1, <2>2, <2>3, WithTree
<1> HIDE DEF Deep, inner
<1>3. IsContainer(x)
  BY <1>1
<1>4. CASE e \in Changes(x)
  BY <1>3, <1>4, ChangedTree
<1>5. CASE e \notin Changes(x)
  <2>1. PICK i \in inner : e \in Deep(i)
    BY <1>1, <1>3, <1>5
  <2>. QED
    BY <1>2, <1>3, <2>1
<1>. QED
  BY <1>4, <1>5

\* A text that was edited is a tree again.
LEMMA EditedTree ==
  ASSUME NEW d, IsTree(d), NEW e \in Edits(d) PROVE IsTree(e)
<1> DEFINE Trees(k) == \A x \in Nested(d) : \A y \in EditLevels(d)[k][x] : IsTree(y)
           S == {k \in Nat : k <= DepthLimit /\ ~Trees(k)}
<1>0. DepthLimit \in Nat
  BY DepthAssumption
<1>1. \A x \in Nested(d) : IsTree(x)
  <2>1. PICK T : d \in T /\ Whole(T)
    BY DEF IsTree
  <2>2. ASSUME NEW x \in Nested(d) PROVE x \in T
    <3>1. PICK n \in 0..DepthLimit : x \in Levels(d)[n]
      BY DEF Nested
    <3>. QED
      BY <2>1, <3>1, LevelsWithin
  <2>. QED
    BY <2>1, <2>2 DEF IsTree
<1>2. S = {}
  <2> SUFFICES ASSUME S # {} PROVE FALSE
    OBVIOUS
  <2>1. PICK k \in S : \A y \in S : k <= y
    <3>1. S \in SUBSET Nat
      OBVIOUS
    <3>. QED
      BY <3>1, MinOfPositions
  <2>2. k \in Nat /\ k <= DepthLimit /\ ~Trees(k) /\ k \in 0..DepthLimit
    BY <1>0, <2>1
  <2> DEFINE below == IF k = 0 THEN NoEdits(d) ELSE EditLevels(d)[k - 1]
  <2>3. \A x \in Nested(d) : \A y \in below[x] : IsTree(y)
    <3>1. CASE k = 0
      BY <3>1 DEF NoEdits
    <3>2. CASE k # 0
      <4> HIDE DEF Trees
      <4>1. k - 1 \in Nat /\ k - 1 <= DepthLimit /\ ~(k <= k - 1)
        BY <1>0, <2>2, <3>2
      <4>2. k - 1 \notin S
        <5> HIDE DEF S
        <5>. QED
          BY <2>1, <4>1
      <4>3. Trees(k - 1)
        BY <4>1, <4>2
      <4>. QED
        BY <3>2, <4>3 DEF Trees
    <3>. QED
      BY <3>1, <3>2
  <2>4. EditLevels(d)[k] = editLevel(d, below)
    BY <2>2, EditUnfold
  <2> HIDE DEF below
  <2>. QED
    BY <1>1, <2>2, <2>3, <2>4, LevelOfTrees
<1>3. Trees(DepthLimit)
  BY <1>0, <1>2
<1>4. d \in Nested(d)
  <2>1. 0 \in 0..DepthLimit /\ d \in Levels(d)[0]
    BY <1>0, LevelsUnfold
  <2>. QED
    BY <2>1 DEF Nested
<1>. QED
  BY <1>3, <1>4 DEF Edits

\* What every text is, however often it was changed.
DocInv == type \in Types /\ IsTree(doc)

\* Whatever another program does to a text, it stays a tree, and stays a text of the
\* same record: what the three theorems below rest on.
THEOREM TextsAreTrees == DocSpec => []DocInv
<1>1. DocInit => DocInv
  <2> SUFFICES ASSUME DocInit PROVE DocInv
    OBVIOUS
  <2>1. type \in Types /\ \E v \in Samples(type) : doc = EncodeOf(type, v)
    BY DEF DocInit
  <2>2. PICK v \in Samples(type) : doc = EncodeOf(type, v)
    BY <2>1
  <2>3. Whole(Nested(doc))
    BY <2>1, <2>2, SamplesAssumption
  <2>4. doc \in Nested(doc)
    <3>1. 0 \in 0..DepthLimit /\ doc \in Levels(doc)[0]
      BY DepthAssumption, LevelsUnfold
    <3>. QED
      BY <3>1 DEF Nested
  <2>. QED
    BY <2>1, <2>3, <2>4 DEF DocInv, IsTree
<1>2. DocInv /\ [Edit]_docVars => DocInv'
  <2> SUFFICES ASSUME DocInv, [Edit]_docVars PROVE DocInv'
    OBVIOUS
  <2>1. CASE Edit
    <3>1. type' = type /\ doc' \in Edits(doc) /\ IsTree(doc) /\ type \in Types
      BY <2>1 DEF Edit, DocInv
    <3>2. IsTree(doc')
      BY <3>1, EditedTree
    <3>. QED
      BY <3>1, <3>2 DEF DocInv
  <2>2. CASE UNCHANGED docVars
    BY <2>2 DEF DocInv, docVars, IsTree
  <2>. QED
    BY <2>1, <2>2
<1>. QED
  BY <1>1, <1>2, PTL DEF DocSpec

\* The generated readers accept exactly the texts that fit the schema and give them
\* the schema's meaning, for every record, sample, number of edits and depth limit
\* (rec.go, decodeRef, decodeLookupResult, decodeManifestResult and the others).
THEOREM ReadersReadTheSchema == DocSpec => []ReadsTheSchema
<1>1. DocInv => ReadsTheSchema
  BY SamplesAssumption, TreesReadTheSchema DEF DocInv
<1>. QED
  BY <1>1, TextsAreTrees, PTL

\* What a reader accepted is encoded without a panic and reads the same again
\* (rec.go, EncodeRefAt, EncodeLookupResultAt, EncodeManifestResultAt).
THEOREM RecordsSurvive == DocSpec => []RoundTrip
<1>1. DocInv => RoundTrip
  BY SamplesAssumption, TreesSurvive DEF DocInv
<1>. QED
  BY <1>1, TextsAreTrees, PTL

\* A fault of syntax in the arguments or in the payload is found by the envelope's
\* reader, never by the second one (rec.go, skipValue against the typed readers).
THEOREM OpaqueReadingAgrees == DocSpec => []OpaqueReadOnce
<1>1. DocInv => OpaqueReadOnce
  BY OpaqueTreesAgree DEF DocInv
<1>. QED
  BY <1>1, TextsAreTrees, PTL

-----------------------------------------------------------------------------
(***************************************************************************)
(* What holds of every call of an endpoint, for all references, results,   *)
(* errors, foreign frames and calls: EndpointInv is inductive, and the     *)
(* four invariants of Endpoint follow from it.                             *)
(***************************************************************************)
\* What an endpoint that sent this reply to this frame had made of it.  The
\* reply reads back as an answer to the frame; an error in it has a name; a
\* payload in it is the description of the endpoint, or the result its handler
\* returned.
ReplyInv(k) ==
  LET v == servicePayload(k.frame)
      r == decodeOAServiceReply(k.reply, 0)
  IN /\ v.word = Blank /\ r.word = Blank /\ ~Trailing(k.reply) /\ r.value.version = "1"
     /\ r.value.service = v.value.service /\ r.value.method = v.value.method
     /\ IF r.value.ok
        THEN IF k.job = None THEN v.value.service = EndpointContract
             ELSE /\ k.returned.kind = "result"
                  /\ decodeAnswer(k.job.service, r.value.payload) = Accept([value |-> k.returned.result])
        ELSE LET e == decodeOAServiceError(r.value.payload, 1) IN e.word = Blank /\ e.value.code # Blank

\* A handler was given what the frame says, once.
JobInv(k, services) ==
  LET v == servicePayload(k.frame)
  IN /\ k.job.service \in {Resolver, Manifest} /\ k.job.service \in ToSet(services)
     /\ v.word = Blank /\ v.value = k.job.envelope
     /\ v.value.service = k.job.service /\ v.value.method = "Resolve"
     /\ decodeOAModelResolverResolveArguments(v.value.arguments, 1) = Accept([ref |-> k.job.ref])
     /\ k.ran = << <<k.job.service, k.job.ref>> >>

\* A typed client's frame says what it was asked.
TypedInv(k) ==
  LET v == servicePayload(k.frame)
      a == decodeOAModelResolverResolveArguments(v.value.arguments, 1)
  IN /\ k.service \in {Resolver, Manifest}
     /\ v.word = Blank /\ v.value.service = k.service /\ v.value.method = "Resolve"
     /\ a.word = Blank => a = Accept([ref |-> k.ref])

IsCall(k) ==
  /\ k = [at |-> k.at, waits |-> k.waits, service |-> k.service, ref |-> k.ref, frame |-> k.frame,
          job |-> k.job, ran |-> k.ran, returned |-> k.returned, reply |-> k.reply, result |-> k.result]
  /\ k.at \in {"idle", "sent", "handling", "replied", "done"} /\ k.waits \in BOOLEAN

CallInv(k, services) ==
  /\ IsCall(k)
  /\ k.at = "idle" => k = NoCall
  /\ k.at # "done" => k.result.word # Blank
  /\ k.at = "done" => ~k.waits
  /\ k.at \in {"sent", "handling", "replied"} /\ k.service # Blank => TypedInv(k)
  /\ IF k.job = None THEN k.ran = <<>> /\ k.returned = None ELSE JobInv(k, services)
  /\ k.at = "sent" => k.job = None /\ k.reply = Junk
  /\ k.at = "handling" => k.job # None /\ k.reply = Junk /\ k.returned = None
  /\ k.at = "replied" => k.reply # Junk
  /\ k.reply # Junk => ReplyInv(k)

Lists == {<<Resolver>>, <<Manifest>>, <<Resolver, Manifest>>, <<Manifest, OneWay, Resolver>>}

EndpointInv ==
  /\ around \in Surroundings
  /\ hosted \in Lists
  /\ call = [c \in DOMAIN call |-> call[c]]
  /\ \A c \in DOMAIN call : CallInv(call[c], hosted)
  /\ ResultIsTheHandlers
  /\ OwnServiceOnly

-----------------------------------------------------------------------------
\* The words of the endpoint are words, and the names it routes by differ.
LEMMA EndpointWords ==
  /\ Blank # "trailing_bytes" /\ Blank # "unknown_version" /\ Blank # "mismatched_response"
  /\ Blank # "invalid_error" /\ Blank # "service_error" /\ Blank # "handler_error"
  /\ Blank # "invalid_result" /\ Blank # "unknown_service" /\ Blank # "unknown_method"
  /\ Blank # "wrong_mode" /\ Blank # "closed" /\ Blank # "timeout" /\ Blank # "cancelled"
  /\ Blank # "none" /\ Blank # "inconsistent" /\ Blank # "unknown_field"
BY Zenon DEF Blank

\* The names an endpoint routes by differ, and none is empty.
LEMMA ServiceNames ==
  /\ Resolver # Manifest /\ Resolver # EndpointContract /\ Manifest # EndpointContract
  /\ Resolver # Blank /\ Manifest # Blank
BY Zenon DEF Resolver, Manifest, EndpointContract, Blank

-----------------------------------------------------------------------------
(***************************************************************************)
(* What goes out is read: by the sender before it is sent, and so by the   *)
(* peer.                                                                   *)
(***************************************************************************)
\* An error that goes out has a name.
Named(e) ==
  /\ e.kind \in {"service", "dispatch", "refusal", "plain"}
  /\ e.kind \in {"dispatch", "refusal"} => e.code # Blank

\* errorOf gives every such error a code.
LEMMA ErrorsHaveNames ==
  ASSUME NEW e, Named(e)
  PROVE  /\ e # None /\ errorOf(e).code # Blank
         /\ errorOf(e) = [code |-> errorOf(e).code, message |-> errorOf(e).message]
BY EndpointWords DEF Named, errorOf, None

\* A reply that goes out reads as what was to be said, to whom it was to be said.
LEMMA ReplySent ==
  ASSUME NEW v, NEW p, NEW e, e = None \/ Named(e), serviceReply(v, p, e).word = Blank
  PROVE  LET f == serviceReply(v, p, e).value
             r == decodeOAServiceReply(f, 0)
         IN /\ f # Junk /\ ~Trailing(f) /\ r.word = Blank
            /\ r.value.version = "1" /\ r.value.service = v.service /\ r.value.method = v.method
            /\ r.value.ok <=> e = None
            /\ e = None => r.value.payload = p
            /\ e # None => /\ decodeOAServiceError(r.value.payload, 1).word = Blank
                           /\ decodeOAServiceError(r.value.payload, 1).value.code # Blank
<1> DEFINE w == serviceReply(v, p, e)
           payload == IF e = None THEN p ELSE encOAServiceError(errorOf(e))
           reply == [version |-> "1", service |-> v.service, method |-> v.method, ok |-> e = None,
                     payload |-> payload]
           f == encOAServiceReply(reply)
           r == decodeOAServiceReply(f, 0)
<1>1. w = IF r.word # Blank THEN Refuse(r.word) ELSE Accept(f)
  BY DEF serviceReply, readable
<1>2. w.value = f /\ r.word = Blank
  BY <1>1, Words
<1>3. GoFlat(ReplySchema, reply)
  <2> (e = None) \in BOOLEAN
    OBVIOUS
  <2> HIDE DEF payload
  <2> QED BY ReplyGo
<1>4. r = Accept(reply)
  <2> HIDE DEF reply
  <2> QED BY <1>2, <1>3, FlatReadsBack, ReplyGood DEF encOAServiceReply, decodeOAServiceReply
<1>5. f.kind = "object" /\ f.text = Blank
  <2> HIDE DEF reply
  <2> QED BY ReplyGood, WrittenEntries DEF encOAServiceReply, EncFlat
<1>6. f # Junk /\ ~Trailing(f)
  <2> HIDE DEF f
  <2> QED BY <1>5, BlankIsNoWord DEF Junk, Leaf, Value, Trailing
<1>7. r.value = reply
  BY <1>4, Words
<1>8. ASSUME e # None
      PROVE  /\ decodeOAServiceError(reply.payload, 1).word = Blank
             /\ decodeOAServiceError(reply.payload, 1).value.code # Blank
  <2> DEFINE x == errorOf(e)
  <2>1. x.code # Blank /\ x = [code |-> x.code, message |-> x.message]
    BY <1>8, ErrorsHaveNames
  <2> HIDE DEF x
  <2>2. 5 \in Written(ReplySchema, reply)
    BY ReplyFields DEF Written, Omitted, ReplySchema, Field
  <2>3. ReadLeaf("raw", EncLeaf("raw", reply.payload), 1).word = Blank
    <3>1. ReadLeaf(ReplySchema[5].type, EncLeaf(ReplySchema[5].type, reply[ReplySchema[5].name]), 0 + 1).word = Blank
      <4> HIDE DEF reply
      <4> QED BY <1>2, <2>2, FlatIsRead, ReplyGood DEF encOAServiceReply, decodeOAServiceReply
    <3> QED BY <3>1, ReplyFields
  <2>4. SkipValue(reply.payload, 1) = Blank
    BY <2>3, Words DEF ReadLeaf, ReadRaw, Carried, EncLeaf
  <2>5. reply.payload = EncFlat(ErrorSchema, [code |-> x.code, message |-> x.message])
    BY <1>8, <2>1 DEF encOAServiceError, x
  <2> HIDE DEF reply
  <2>6. decodeOAServiceError(reply.payload, 1) = Accept([code |-> x.code, message |-> x.message])
    <3>1. 1 \in 0..DepthLimit
      BY DepthAssumption
    <3> QED BY <2>4, <2>5, <3>1, SkippedErrorIsRead DEF decodeOAServiceError
  <2> QED BY <2>1, <2>6, Words
<1>9. /\ reply.version = "1" /\ reply.service = v.service /\ reply.method = v.method
      /\ reply.ok <=> e = None
      /\ e = None => reply.payload = p
  OBVIOUS
<1> HIDE DEF reply, r, f, w
<1>10. /\ r.value.version = "1" /\ r.value.service = v.service /\ r.value.method = v.method
       /\ r.value.ok <=> e = None
       /\ e = None => r.value.payload = p
       /\ e # None => /\ decodeOAServiceError(r.value.payload, 1).word = Blank
                      /\ decodeOAServiceError(r.value.payload, 1).value.code # Blank
  BY <1>7, <1>8, <1>9
<1> QED BY <1>2, <1>6, <1>10 DEF w, r

-----------------------------------------------------------------------------
(***************************************************************************)
(* What a dispatcher does with a frame.                                    *)
(***************************************************************************)
\* f answers v at once: with a named error, or with a description.
AtOnce(f, v) ==
  LET r == decodeOAServiceReply(f, 0)
  IN /\ f # Junk /\ r.word = Blank /\ ~Trailing(f) /\ r.value.version = "1"
     /\ r.value.service = v.service /\ r.value.method = v.method
     /\ IF r.value.ok THEN v.service = EndpointContract
        ELSE LET e == decodeOAServiceError(r.value.payload, 1) IN e.word = Blank /\ e.value.code # Blank

Answered(d, v) == d.does = "refuse" \/ (d.does = "answer" /\ AtOnce(d.frame, v))

\* What is answered at once is a named error or a description.
LEMMA AnswerSent ==
  ASSUME NEW v, NEW p, NEW e, Named(e) \/ (e = None /\ v.service = EndpointContract)
  PROVE  Answered(Answer(serviceReply(v, p, e)), v)
<1> DEFINE w == serviceReply(v, p, e)
<1>1. CASE w.word # Blank
  <2> HIDE DEF w
  <2>1. Answer(w).does = "refuse"
    BY <1>1 DEF Answer
  <2> QED BY <2>1 DEF Answered, w
<1>2. CASE w.word = Blank
  <2>1. Answer(w).does = "answer" /\ Answer(w).frame = w.value
    <3> HIDE DEF w
    <3> QED BY <1>2 DEF Answer
  <2>2. Named(e) => e # None
    BY ErrorsHaveNames
  <2> DEFINE r == decodeOAServiceReply(w.value, 0)
  <2>3. /\ w.value # Junk /\ ~Trailing(w.value) /\ r.word = Blank
        /\ r.value.version = "1" /\ r.value.service = v.service /\ r.value.method = v.method
        /\ r.value.ok <=> e = None
        /\ e # None => /\ decodeOAServiceError(r.value.payload, 1).word = Blank
                       /\ decodeOAServiceError(r.value.payload, 1).value.code # Blank
    BY <1>2, ReplySent
  <2>4. AtOnce(w.value, v)
    <3> HIDE DEF w
    <3> QED BY <2>2, <2>3 DEF AtOnce
  <2> QED BY <2>1, <2>4 DEF Answered
<1> QED BY <1>1, <1>2

\* A failure the package itself names is answered, or the call refused.
LEMMA FailureSent ==
  ASSUME NEW v, NEW word, word # Blank
  PROVE  /\ Answered(Answer(Failed(v, DispatchError(word))), v)
         /\ Answered(Answer(Failed(v, Refusal(word))), v)
<1>1. Named(DispatchError(word)) /\ Named(Refusal(word))
  BY DEF Named, DispatchError, Refusal
<1> QED BY <1>1, AnswerSent DEF Failed

\* A frame for the endpoint itself is answered by its description or an error.
LEMMA Described ==
  ASSUME NEW v, v.service = EndpointContract, NEW services, NEW says
  PROVE  Answered(Answer(DescribeEndpoint(v, services, says)), v)
<1> DEFINE D == DescribeEndpoint(v, services, says)
<1>1. \/ D = Failed(v, DispatchError("unknown_method"))
      \/ D = Failed(v, Refusal("unknown_field"))
      \/ \E p : D = serviceReply(v, p, None)
  BY DEF DescribeEndpoint
<1> SUFFICES Answered(Answer(D), v)
  OBVIOUS
<1> HIDE DEF D
<1>2. CASE \E p : D = serviceReply(v, p, None)
  BY <1>2, AnswerSent
<1>3. CASE D = Failed(v, DispatchError("unknown_method"))
  BY <1>3, FailureSent, EndpointWords
<1>4. CASE D = Failed(v, Refusal("unknown_field"))
  BY <1>4, FailureSent, EndpointWords
<1> QED BY <1>1, <1>2, <1>3, <1>4

\* A dispatcher of a service hands over only what names its service and the method
\* Resolve and brings arguments that are read; everything else it answers or refuses.
Served(d, service, r, arguments) ==
  \/ d.does = "refuse"
  \/ r.word = Blank /\ Answered(d, r.value)
  \/ /\ r.word = Blank /\ r.value.service = service /\ r.value.method = "Resolve" /\ arguments.word = Blank
     /\ d = Handle(service, r.value, arguments.value.ref)

\* Exchange is such a dispatcher.
LEMMA Exchanged ==
  ASSUME NEW service \in {Resolver, Manifest}, NEW r, NEW arguments
  PROVE  Served(Exchange(service, r, arguments), service, r, arguments)
<1> DEFINE v == r.value
           D == Exchange(service, r, arguments)
<1>1. CASE r.word # Blank
  <2>1. D = Answer(r)
    BY <1>1 DEF Exchange
  <2>2. D.does = "refuse"
    BY <1>1, <2>1 DEF Answer
  <2> QED BY <2>2 DEF Served
<1>2. CASE r.word = Blank
  <2>1. CASE v.service = EndpointContract
    <3>1. \E says : D = Answer(DescribeEndpoint(v, <<service>>, says))
      BY <1>2, <2>1, ServiceNames DEF Exchange, Mine
    <3>2. Answered(D, v)
      BY <2>1, <3>1, Described
    <3> QED BY <1>2, <3>2 DEF Served
  <2>2. CASE v.service # EndpointContract /\ v.service # service
    <3>1. D = Answer(Failed(v, DispatchError("unknown_service")))
      BY <1>2, <2>2 DEF Exchange, Mine
    <3>2. Answered(D, v)
      BY <3>1, FailureSent, EndpointWords
    <3> QED BY <1>2, <3>2 DEF Served
  <2>3. CASE v.service = service /\ v.method # "Resolve"
    <3>1. D = Answer(Failed(v, DispatchError("unknown_method")))
      BY <1>2, <2>3, ServiceNames DEF Exchange, Mine
    <3>2. Answered(D, v)
      BY <3>1, FailureSent, EndpointWords
    <3> QED BY <1>2, <3>2 DEF Served
  <2>4. CASE v.service = service /\ v.method = "Resolve" /\ arguments.word # Blank
    <3>1. D = Answer(Failed(v, Refusal(arguments.word)))
      BY <1>2, <2>4, ServiceNames DEF Exchange, Mine
    <3>2. Answered(D, v)
      BY <2>4, <3>1, FailureSent
    <3> QED BY <1>2, <3>2 DEF Served
  <2>5. CASE v.service = service /\ v.method = "Resolve" /\ arguments.word = Blank
    <3>1. D = Handle(service, v, arguments.value.ref)
      BY <1>2, <2>5, ServiceNames DEF Exchange, Mine
    <3> QED BY <1>2, <2>5, <3>1 DEF Served
  <2> QED BY <2>1, <2>2, <2>3, <2>4, <2>5
<1> QED BY <1>1, <1>2

\* Routing hands a frame to a service this endpoint hosts and the frame names.
Dealt(d, frame, services) ==
  LET r == servicePayload(frame)
      a == decodeOAModelResolverResolveArguments(r.value.arguments, 1)
  IN \/ d.does = "refuse"
     \/ r.word = Blank /\ Answered(d, r.value)
     \/ \E s \in {Resolver, Manifest} \cap ToSet(services) :
           /\ r.word = Blank /\ r.value.service = s /\ r.value.method = "Resolve" /\ a.word = Blank
           /\ d = Handle(s, r.value, a.value.ref)

\* Each of the two dispatchers routes within what the endpoint hosts.
LEMMA ServiceDealt ==
  ASSUME NEW frame, NEW services
  PROVE  /\ Resolver \in ToSet(services) => Dealt(ModelResolverExchangeFrame(frame), frame, services)
         /\ Manifest \in ToSet(services) => Dealt(ModelManifestExchangeFrame(frame), frame, services)
<1> DEFINE r == servicePayload(frame)
           a == decodeOAModelResolverResolveArguments(r.value.arguments, 1)
<1>1. Served(ModelResolverExchangeFrame(frame), Resolver, r, a)
  BY Exchanged DEF ModelResolverExchangeFrame
<1>2. Served(ModelManifestExchangeFrame(frame), Manifest, r, a)
  BY Exchanged DEF ModelManifestExchangeFrame, decodeOAModelManifestResolveArguments,
                   decodeOAModelResolverResolveArguments
<1> QED BY <1>1, <1>2 DEF Served, Dealt

\* So does the endpoint, alone with one service or with several.
LEMMA Routes ==
  ASSUME hosted \in Lists, NEW frame
  PROVE  Dealt(Dispatch(frame), frame, hosted)
<1> DEFINE r == servicePayload(frame)
           v == r.value
           S == ServeEndpoint(frame, r, hosted, program)
<1>1. CASE hosted = <<Resolver>>
  <2>1. Resolver \in ToSet(hosted)
    BY <1>1 DEF ToSet
  <2> QED BY <1>1, <2>1, ServiceDealt DEF Dispatch
<1>2. CASE hosted = <<Manifest>>
  <2>1. Manifest \in ToSet(hosted) /\ hosted # <<Resolver>>
    BY <1>2, ServiceNames DEF ToSet
  <2> QED BY <1>2, <2>1, ServiceDealt DEF Dispatch
<1>3. CASE hosted # <<Resolver>> /\ hosted # <<Manifest>>
  <2>0. Dispatch(frame) = S
    BY <1>3 DEF Dispatch
  <2> SUFFICES Dealt(S, frame, hosted)
    BY <2>0
  <2>1. CASE r.word # Blank
    <3>1. S = Answer(r)
      BY <2>1 DEF ServeEndpoint
    <3>2. S.does = "refuse"
      BY <2>1, <3>1 DEF Answer
    <3> QED BY <3>2 DEF Dealt
  <2>2. CASE r.word = Blank /\ v.service = EndpointContract
    <3>1. S = Answer(DescribeEndpoint(v, hosted, program))
      BY <2>2 DEF ServeEndpoint
    <3>2. Answered(S, v)
      BY <2>2, <3>1, Described
    <3> QED BY <2>2, <3>2 DEF Dealt
  <2>3. CASE r.word = Blank /\ v.service # EndpointContract /\ v.service \notin ToSet(hosted)
    <3>1. S = Answer(Failed(v, DispatchError("unknown_service")))
      BY <2>3 DEF ServeEndpoint
    <3>2. Answered(S, v)
      BY <3>1, FailureSent, EndpointWords
    <3> QED BY <2>3, <3>2 DEF Dealt
  <2>4. CASE r.word = Blank /\ v.service # EndpointContract /\ v.service \in ToSet(hosted)
    <3>1. CASE v.service = Resolver
      <4>1. S = ModelResolverExchangeFrame(frame)
        BY <2>4, <3>1, ServiceNames DEF ServeEndpoint
      <4> QED BY <2>4, <3>1, <4>1, ServiceDealt
    <3>2. CASE v.service = Manifest
      <4>1. S = ModelManifestExchangeFrame(frame)
        BY <2>4, <3>2, ServiceNames DEF ServeEndpoint
      <4> QED BY <2>4, <3>2, <4>1, ServiceDealt
    <3>3. CASE v.service # Resolver /\ v.service # Manifest
      <4>1. S = Answer(Failed(v, DispatchError("wrong_mode")))
        BY <2>4, <3>3 DEF ServeEndpoint
      <4>2. Answered(S, v)
        BY <4>1, FailureSent, EndpointWords
      <4> QED BY <2>4, <4>2 DEF Dealt
    <3> QED BY <3>1, <3>2, <3>3
  <2> QED BY <2>1, <2>2, <2>3, <2>4
<1> QED BY <1>1, <1>2, <1>3

-----------------------------------------------------------------------------
(***************************************************************************)
(* What a handler's answer becomes, and what a client makes of it.         *)
(***************************************************************************)
\* What a handler of the service may give back.
Outcome(where, service, x) ==
  \/ x \in HandlerErrors[where]
  \/ \E y \in HandlerResults[where][service] : x = [kind |-> "result", result |-> y]

\* An answer is a named error, or the result as the peer will read it.
LEMMA Invoked ==
  ASSUME NEW where \in Surroundings, NEW service \in {Resolver, Manifest}, NEW x, Outcome(where, service, x)
  PROVE  LET i == Invoke(service, x)
         IN \/ Named(i.err)
            \/ /\ i.err = None /\ x.kind = "result"
               /\ decodeAnswer(service, i.payload) = Accept([value |-> x.result])
<1> DEFINE out == IF service = Resolver THEN encOAModelResolverResolveResult([value |-> x.result])
                  ELSE encOAModelManifestResolveResult([value |-> x.result])
           r == decodeAnswer(service, out)
           fields == IF service = Resolver THEN ResolveResultSchema ELSE ManifestResolveResultSchema
           i == invokeResolve(fields, out, r, x)
<1>1. Invoke(service, x) = i
  BY DEF Invoke, ModelResolverInvokeResolve, ModelManifestInvokeResolve, decodeAnswer
<1>2. /\ Named(ServiceError("invalid_result", Blank)) /\ Named(ServiceError("handler_error", HandlerFailed))
  BY DEF Named, ServiceError
<1>3. CASE x \in HandlerErrors[where]
  <2>1. /\ x.kind \in {"service", "dispatch", "refusal", "plain", "panic", "panic_refusal"}
        /\ x.kind \in {"dispatch", "refusal"} => x.code # Blank
    BY <1>3, ErrorsAssumption
  <2> HIDE DEF fields, out, r
  <2>2. \/ i.err = ServiceError("invalid_result", Blank)
        \/ i.err = ServiceError("handler_error", HandlerFailed)
        \/ i.err = x /\ x.kind \in {"service", "dispatch", "refusal", "plain"}
    BY <2>1 DEF invokeResolve
  <2>3. Named(i.err)
    BY <1>2, <2>1, <2>2 DEF Named
  <2> QED BY <1>1, <2>3
<1>4. CASE \E y \in HandlerResults[where][service] : x = [kind |-> "result", result |-> y]
  <2>1. PICK y \in HandlerResults[where][service] : x = [kind |-> "result", result |-> y]
    BY <1>4
  <2>2. x.kind = "result" /\ x.result = y
    BY <2>1
  <2>3. i = IF Panics(fields, [value |-> x.result])
            THEN [payload |-> Nil, err |-> ServiceError("invalid_result", Blank)]
            ELSE checked(out, r)
    <3> HIDE DEF fields, out, r
    <3> QED BY <2>2 DEF invokeResolve
  <2>4. r.word = Blank => r = Accept([value |-> x.result])
    <3>1. CASE service = Resolver
      <4>1. GoValue(ResolveResultSchema, [value |-> x.result])
        BY <2>2, <3>1, GoValuesAssumption, ResolveResultGo
      <4> QED BY <3>1, <4>1, ReadsBack, ResolveResultGood
              DEF decodeAnswer, decodeOAModelResolverResolveResult, encOAModelResolverResolveResult
    <3>2. CASE service = Manifest
      <4>1. GoValue(ManifestResolveResultSchema, [value |-> x.result])
        BY <2>2, <3>2, GoValuesAssumption, ManifestResolveResultGo
      <4> QED BY <3>2, <4>1, ReadsBack, ManifestResolveResultGood, ServiceNames
              DEF decodeAnswer, decodeOAModelManifestResolveResult, encOAModelManifestResolveResult
    <3> QED BY <3>1, <3>2
  <2>5. \/ i.err = ServiceError("invalid_result", Blank)
        \/ i.err = None /\ i.payload = out /\ r.word = Blank
    <3> HIDE DEF i, out, r, fields
    <3> QED BY <2>3 DEF checked
  <2> HIDE DEF i, out
  <2>6. \/ Named(i.err)
        \/ /\ i.err = None /\ x.kind = "result"
           /\ decodeAnswer(service, i.payload) = Accept([value |-> x.result])
    BY <1>2, <2>2, <2>4, <2>5
  <2> QED BY <1>1, <2>6
<1> QED BY <1>3, <1>4 DEF Outcome

\* A frame a typed client sends says which service it is for, and the reference.
LEMMA CallFrame ==
  ASSUME NEW s \in {Resolver, Manifest}, NEW ref, GoFlat(RefSchema, ref),
         servicePayload(ClientFrame(s, ref)).word = Blank
  PROVE  LET v == servicePayload(ClientFrame(s, ref)).value
             a == decodeOAModelResolverResolveArguments(v.arguments, 1)
         IN v.service = s /\ v.method = "Resolve" /\ (a.word = Blank => a = Accept([ref |-> ref]))
<1> DEFINE args == EncNested(ArgumentsSchema, [ref |-> ref])
           envelope == [version |-> "1", service |-> s, method |-> "Resolve", arguments |-> args]
           f == EncFlat(FrameSchema, envelope)
           r == ReadFlat(FrameSchema, f, 0)
<1>1. ClientFrame(s, ref) = f
  BY ServiceNames DEF ClientFrame, ModelResolverFrame, ModelManifestFrame, encOAServiceFrame,
                      encOAModelResolverResolveArguments, encOAModelManifestResolveArguments
<1>2. servicePayload(f) = knownVersion(f, r)
  BY DEF servicePayload, decodeOAServiceFrame
<1>3. servicePayload(f).word = Blank
  BY <1>1
<1>4. servicePayload(f) = r
  <2> HIDE DEF r, f
  <2> QED BY <1>2, <1>3, Words, EndpointWords DEF knownVersion
<1>5. GoFlat(FrameSchema, envelope)
  <2> HIDE DEF args
  <2> QED BY FrameGo
<1>6. r = Accept(envelope)
  <2> HIDE DEF envelope
  <2> QED BY <1>3, <1>4, <1>5, FlatReadsBack, FrameGood
<1> DEFINE v == servicePayload(ClientFrame(s, ref)).value
           a == decodeOAModelResolverResolveArguments(v.arguments, 1)
<1>7. v = envelope
  BY <1>1, <1>4, <1>6, Words
<1>8. v.service = s /\ v.method = "Resolve" /\ v.arguments = args
  <2> HIDE DEF v, args
  <2> QED BY <1>7
<1>9. a.word = Blank => a = Accept([ref |-> ref])
  <2>1. a = ReadNested(ArgumentsSchema, args, 1)
    BY <1>8 DEF decodeOAModelResolverResolveArguments
  <2>2. GoNested(ArgumentsSchema, [ref |-> ref])
    BY ArgumentsGo
  <2> HIDE DEF a
  <2> QED BY <2>1, <2>2, NestedReadsBack, ArgumentsGood
<1> HIDE DEF v
<1> QED BY <1>8, <1>9 DEF v

\* What a typed client believes is an answer of its service, in this version, and
\* not an error.
LEMMA Believed ==
  ASSUME NEW s \in {Resolver, Manifest}, NEW frame, ClientRead(s, frame).word = Blank
  PROVE  LET r == decodeOAServiceReply(frame, 0)
         IN /\ r.word = Blank /\ r.value.version = "1" /\ r.value.service = s /\ r.value.method = "Resolve"
            /\ r.value.ok
            /\ ClientRead(s, frame).value = decodeAnswer(s, r.value.payload).value.value
<1> DEFINE d == decodeOAServiceReply(frame, 0)
           r == knownVersion(frame, d)
           p == serviceResponse(frame, s, "Resolve")
           D == decodeAnswer(s, p.value)
<1>1. p.word = Blank /\ ClientRead(s, frame).value = D.value.value
  <2>1. CASE s = Resolver
    <3> HIDE DEF p
    <3>1. ClientRead(s, frame) = ModelResolverRead(p)
      BY <2>1 DEF ClientRead, p
    <3>2. p.word = Blank
      BY <3>1 DEF ModelResolverRead
    <3>3. decodeAnswer(Resolver, p.value).word = Blank
      BY <3>1, <3>2 DEF ModelResolverRead
    <3>4. ModelResolverRead(p) \in {Accept(decodeAnswer(Resolver, p.value).value.value), Refuse("inconsistent")}
      BY <3>2, <3>3 DEF ModelResolverRead
    <3> QED BY <2>1, <3>1, <3>2, <3>4, Words, EndpointWords
  <2>2. CASE s = Manifest
    <3> HIDE DEF p
    <3>1. ClientRead(s, frame) = ModelManifestRead(p)
      BY <2>2, ServiceNames DEF ClientRead, p
    <3>2. p.word = Blank
      BY <3>1 DEF ModelManifestRead
    <3>3. decodeAnswer(Manifest, p.value).word = Blank
      BY <3>1, <3>2 DEF ModelManifestRead
    <3> QED BY <2>2, <3>1, <3>2, <3>3, Words DEF ModelManifestRead
  <2> QED BY <2>1, <2>2
<1>2. r.word = Blank
  <2> HIDE DEF r
  <2> QED BY <1>1 DEF serviceResponse, r
<1>3. r = d /\ d.word = Blank /\ d.value.version = "1"
  <2> HIDE DEF d
  <2> QED BY <1>2, Words, EndpointWords DEF knownVersion
<1>4. answers(r.value, s, "Resolve")
  <2> HIDE DEF r
  <2> QED BY <1>1, <1>2, Words, EndpointWords DEF serviceResponse, r
<1>5. r.value.ok /\ p = Accept(r.value.payload)
  <2> DEFINE e == decodeOAServiceError(r.value.payload, 1)
  <2> HIDE DEF r
  <2>1. p = IF r.value.ok THEN Accept(r.value.payload) ELSE namedError(e)
    BY <1>2, <1>4 DEF serviceResponse, r
  <2>2. namedError(e).word # Blank
    <3> HIDE DEF e
    <3> QED BY Words, EndpointWords DEF namedError
  <2> QED BY <1>1, <2>1, <2>2
<1> QED BY <1>1, <1>3, <1>4, <1>5, Words DEF answers

-----------------------------------------------------------------------------
(***************************************************************************)
(* Every step of a call keeps the invariant.                               *)
(***************************************************************************)
\* A call that ended well, and why it may have.
EndedWell(k) == k.at = "done" /\ k.service # Blank /\ k.result.word = Blank
ByItsHandler(k) ==
  /\ k.ran = << <<k.service, k.ref>> >>
  /\ k.returned.kind = "result" /\ k.result.value = k.returned.result
ByAHandler(k) ==
  \E d \in DOMAIN call : /\ call[d].ran # <<>> /\ call[d].ran[1][1] = k.service
                         /\ call[d].returned.kind = "result"
                         /\ k.result.value = call[d].returned.result

\* What a step of one call must show for the whole state to keep the invariant.
Keeps(k, n, services) ==
  /\ CallInv(n, services)
  /\ k.returned.kind = "result" => n.ran = k.ran /\ n.returned = k.returned
  /\ EndedWell(n) => (Faithful => ByItsHandler(n)) /\ ByAHandler(n)

\* One call moves; the others keep their records, and so does what they prove.
LEMMA StepKeeps ==
  ASSUME EndpointInv, NEW c \in DOMAIN call, NEW n, Update(c, n), Keeps(call[c], n, hosted)
  PROVE  EndpointInv'
<1>1. /\ DOMAIN call' = DOMAIN call /\ call'[c] = n /\ around' = around /\ hosted' = hosted
      /\ \A d \in DOMAIN call : d # c => call'[d] = call[d]
      /\ call' = [d \in DOMAIN call' |-> call'[d]]
  BY DEF EndpointInv, Update
<1>2. \A d \in DOMAIN call' : CallInv(call'[d], hosted')
  BY <1>1 DEF EndpointInv, Keeps
<1>3. ResultIsTheHandlers'
  <2>1. Faithful' = Faithful
    BY <1>1 DEF Faithful
  <2>2. ASSUME NEW d \in DOMAIN call', Faithful', EndedWell(call'[d])
        PROVE  ByItsHandler(call'[d])
    <3>1. CASE d = c
      BY <1>1, <2>1, <2>2, <3>1 DEF Keeps
    <3>2. CASE d # c
      <4>1. d \in DOMAIN call /\ call'[d] = call[d]
        BY <1>1, <3>2
      <4> QED BY <2>1, <2>2, <4>1 DEF EndpointInv, ResultIsTheHandlers, Succeeded, EndedWell, ByItsHandler
    <3> QED BY <3>1, <3>2
  <2> QED BY <2>2 DEF ResultIsTheHandlers, Succeeded, EndedWell, ByItsHandler
<1>4. OwnServiceOnly'
  <2>1. ASSUME NEW d \in DOMAIN call', EndedWell(call'[d])
        PROVE  ByAHandler(call'[d])
    <3>1. CASE d = c
      BY <1>1, <2>1, <3>1 DEF Keeps
    <3>2. CASE d # c
      <4>1. d \in DOMAIN call /\ call'[d] = call[d]
        BY <1>1, <3>2
      <4> QED BY <2>1, <4>1 DEF EndpointInv, OwnServiceOnly, Succeeded, EndedWell, ByAHandler
    <3> QED BY <3>1, <3>2
  <2>2. ASSUME NEW d \in DOMAIN call', EndedWell(call'[d])
        PROVE  \E e \in DOMAIN call' : /\ call'[e].ran # <<>> /\ call'[e].ran[1][1] = call'[d].service
                                       /\ call'[e].returned.kind = "result"
                                       /\ call'[d].result.value = call'[e].returned.result
    <3> DEFINE k == call'[d]
    <3>1. ByAHandler(k)
      BY <2>1, <2>2
    <3>2. PICK e \in DOMAIN call : /\ call[e].ran # <<>> /\ call[e].ran[1][1] = k.service
                                   /\ call[e].returned.kind = "result"
                                   /\ k.result.value = call[e].returned.result
      BY <3>1 DEF ByAHandler
    <3>3. e \in DOMAIN call' /\ call'[e].ran = call[e].ran /\ call'[e].returned = call[e].returned
      BY <1>1, <3>2 DEF Keeps
    <3> QED BY <3>2, <3>3
  <2> QED BY <2>2 DEF OwnServiceOnly, Succeeded, EndedWell
<1> QED BY <1>1, <1>2, <1>3, <1>4 DEF EndpointInv

\* What was sent, run and answered is the same for a record that differs only in
\* how far the call is and what its caller knows.
LEMMA SameCall ==
  ASSUME NEW k, NEW n, n.service = k.service, n.ref = k.ref, n.frame = k.frame, n.job = k.job,
         n.ran = k.ran, n.returned = k.returned, n.reply = k.reply, NEW services
  PROVE  /\ TypedInv(k) => TypedInv(n)
         /\ JobInv(k, services) => JobInv(n, services)
         /\ ReplyInv(k) => ReplyInv(n)
BY DEF TypedInv, JobInv, ReplyInv

\* A call that has not been made.
LEMMA NotMade ==
  ASSUME NEW k, NEW services, CallInv(k, services), k.at = "idle"
  PROVE  /\ IsCall(k) /\ k.service = Blank /\ k.waits = FALSE /\ k.frame = Junk /\ k.job = None
         /\ k.ran = <<>> /\ k.returned = None /\ k.reply = Junk /\ k.result.word # Blank
<1>1. IsCall(k) /\ k = NoCall
  BY DEF CallInv
<1> QED BY <1>1, Words, EndpointWords DEF NoCall

\* A typed client is asked after its context ended.
LEMMA CallCancelledKeeps ==
  ASSUME NEW k, NEW services, CallInv(k, services), k.at = "idle", NEW service, NEW ref, NEW n,
         n = [k EXCEPT !.at = "done", !.service = service, !.ref = ref, !.result = Refuse("cancelled")]
  PROVE  Keeps(k, n, services)
<1>1. /\ IsCall(k) /\ k.waits = FALSE /\ k.job = None
      /\ k.ran = <<>> /\ k.returned = None /\ k.reply = Junk
  BY NotMade
<1>2. /\ IsCall(n) /\ n.at = "done" /\ n.waits = FALSE /\ n.result = Refuse("cancelled")
      /\ n.job = None /\ n.ran = <<>> /\ n.returned = None /\ n.reply = Junk
  BY <1>1 DEF IsCall
<1>3. n.result.word # Blank
  BY <1>2, Words, EndpointWords
<1>4. CallInv(n, services)
  BY <1>2, <1>3 DEF CallInv
<1>5. k.returned.kind # "result"
  BY <1>1 DEF None
<1> QED BY <1>3, <1>4, <1>5 DEF Keeps, EndedWell

\* A typed client is asked.
LEMMA CallKeeps ==
  ASSUME NEW k, NEW services, CallInv(k, services), k.at = "idle",
         NEW s \in {Resolver, Manifest}, NEW ref, GoFlat(RefSchema, ref), NEW n,
         n = [k EXCEPT !.service = s, !.ref = ref, !.frame = ClientFrame(s, ref),
                !.at = IF servicePayload(ClientFrame(s, ref)).word = Blank THEN "sent" ELSE "done",
                !.waits = servicePayload(ClientFrame(s, ref)).word = Blank,
                !.result = IF servicePayload(ClientFrame(s, ref)).word = Blank THEN @
                           ELSE servicePayload(ClientFrame(s, ref))]
  PROVE  Keeps(k, n, services)
<1> DEFINE f == ClientFrame(s, ref)
           r == servicePayload(f)
<1>1. /\ IsCall(k) /\ k.job = None /\ k.result.word # Blank
      /\ k.ran = <<>> /\ k.returned = None /\ k.reply = Junk
  BY NotMade
<1>2. k.returned.kind # "result"
  BY <1>1 DEF None
<1>3. /\ IsCall(n) /\ n.service = s /\ n.ref = ref /\ n.frame = f
      /\ n.at = (IF r.word = Blank THEN "sent" ELSE "done") /\ n.waits = (r.word = Blank)
      /\ n.result = (IF r.word = Blank THEN k.result ELSE r)
      /\ n.job = None /\ n.ran = <<>> /\ n.returned = None /\ n.reply = Junk
  <2> HIDE DEF f, r
  <2> n = [k EXCEPT !.service = s, !.ref = ref, !.frame = f,
                !.at = IF r.word = Blank THEN "sent" ELSE "done",
                !.waits = r.word = Blank,
                !.result = IF r.word = Blank THEN k.result ELSE r]
    BY <1>1 DEF f, r, IsCall
  <2> QED BY <1>1 DEF IsCall
<1>4. n.result.word # Blank
  <2> HIDE DEF r
  <2> QED BY <1>1, <1>3
<1>5. n.at = "sent" => TypedInv(n)
  <2> SUFFICES ASSUME n.at = "sent" PROVE TypedInv(n)
    OBVIOUS
  <2>1. r.word = Blank
    <3> HIDE DEF r
    <3> QED BY <1>3
  <2> QED BY <1>3, <2>1, CallFrame DEF TypedInv
<1>6. CallInv(n, services)
  <2> HIDE DEF r, f
  <2>1. CASE r.word = Blank
    <3>1. n.at = "sent"
      BY <1>3, <2>1
    <3> QED BY <1>3, <1>4, <1>5, <3>1 DEF CallInv
  <2>2. CASE r.word # Blank
    <3>1. n.at = "done" /\ n.waits = FALSE
      BY <1>3, <2>2
    <3> QED BY <1>3, <1>4, <3>1 DEF CallInv
  <2> QED BY <2>1, <2>2
<1> QED BY <1>2, <1>4, <1>6 DEF Keeps, EndedWell

\* Another program's frame arrives, by either transport.
LEMMA WriteKeeps ==
  ASSUME NEW k, NEW services, CallInv(k, services), k.at = "idle", NEW frame, NEW word, NEW n,
         \/ n = [k EXCEPT !.frame = frame, !.at = "sent", !.waits = TRUE]
         \/ n = [k EXCEPT !.frame = frame, !.at = "done", !.result = Refuse(word)]
  PROVE  Keeps(k, n, services)
<1>1. /\ IsCall(k) /\ k.service = Blank /\ k.waits = FALSE /\ k.job = None
      /\ k.ran = <<>> /\ k.returned = None /\ k.reply = Junk /\ k.result.word # Blank
  BY NotMade
<1>2. k.returned.kind # "result"
  BY <1>1 DEF None
<1>3. /\ n.job = None /\ n.ran = <<>> /\ n.returned = None /\ n.reply = Junk /\ n.service = Blank /\ IsCall(n)
      /\ \/ n.at = "sent" /\ n.result = k.result
         \/ n.at = "done" /\ n.waits = FALSE
  <2>1. CASE n = [k EXCEPT !.frame = frame, !.at = "sent", !.waits = TRUE]
    BY <1>1, <2>1 DEF IsCall
  <2>2. CASE n = [k EXCEPT !.frame = frame, !.at = "done", !.result = Refuse(word)]
    BY <1>1, <2>2 DEF IsCall
  <2> QED BY <2>1, <2>2
<1>4. CallInv(n, services)
  BY <1>1, <1>3 DEF CallInv
<1> QED BY <1>2, <1>3, <1>4 DEF Keeps, EndedWell

\* The connection is closed on a call that has no reply.
LEMMA Closes ==
  ASSUME NEW m, NEW services, IsCall(m), m.result.word # Blank, m.reply = Junk,
         IF m.job = None THEN m.ran = <<>> /\ m.returned = None ELSE JobInv(m, services),
         NEW n, n = Close(m)
  PROVE  CallInv(n, services) /\ ~EndedWell(n)
<1>1. /\ IsCall(n) /\ n.at = "done" /\ n.waits = FALSE
      /\ n.result = (IF m.waits THEN Refuse("closed") ELSE m.result)
      /\ n.service = m.service /\ n.ref = m.ref /\ n.frame = m.frame /\ n.job = m.job
      /\ n.ran = m.ran /\ n.returned = m.returned /\ n.reply = m.reply
  BY DEF Close, IsCall
<1>2. n.result.word # Blank
  BY <1>1, Words, EndpointWords
<1>3. JobInv(m, services) => JobInv(n, services)
  BY <1>1, SameCall
<1> QED BY <1>1, <1>2, <1>3 DEF CallInv, EndedWell

\* The frame is routed.
LEMMA RouteKeeps ==
  ASSUME NEW k, NEW services, CallInv(k, services), k.at = "sent",
         NEW d, Dealt(d, k.frame, services), NEW n, n = Routed(k, d)
  PROVE  Keeps(k, n, services)
<1>1. /\ IsCall(k) /\ k.job = None /\ k.ran = <<>> /\ k.returned = None /\ k.reply = Junk
      /\ k.result.word # Blank /\ (k.service # Blank => TypedInv(k))
  BY DEF CallInv
<1>2. k.returned.kind # "result"
  BY <1>1 DEF None
<1> DEFINE r == servicePayload(k.frame)
           a == decodeOAModelResolverResolveArguments(r.value.arguments, 1)
<1>3. CASE d.does = "refuse"
  <2>1. n = Close(k)
    BY <1>3 DEF Routed
  <2>2. CallInv(n, services) /\ ~EndedWell(n)
    BY <1>1, <2>1, Closes
  <2> QED BY <1>2, <2>2 DEF Keeps
<1>4. CASE d.does = "answer" /\ r.word = Blank /\ Answered(d, r.value)
  <2>1. n = [k EXCEPT !.at = "replied", !.reply = d.frame]
    BY <1>4 DEF Routed
  <2>2. /\ IsCall(n) /\ n.at = "replied" /\ n.reply = d.frame /\ n.result = k.result
        /\ n.service = k.service /\ n.ref = k.ref /\ n.frame = k.frame /\ n.job = None
        /\ n.ran = <<>> /\ n.returned = None
    BY <1>1, <2>1 DEF IsCall
  <2>3. AtOnce(d.frame, r.value)
    BY <1>4 DEF Answered
  <2>4. n.reply # Junk /\ ReplyInv(n)
    BY <1>4, <2>2, <2>3 DEF AtOnce, ReplyInv
  <2>5. TypedInv(k) => TypedInv(n)
    BY <2>2 DEF TypedInv
  <2>6. CallInv(n, services)
    BY <1>1, <2>2, <2>4, <2>5 DEF CallInv
  <2> QED BY <1>2, <2>2, <2>6 DEF Keeps, EndedWell
<1>5. ASSUME NEW s \in {Resolver, Manifest} \cap ToSet(services),
             r.word = Blank, r.value.service = s, r.value.method = "Resolve", a.word = Blank,
             d = Handle(s, r.value, a.value.ref)
      PROVE  Keeps(k, n, services)
  <2>1. d.does = "handle" /\ d.service = s /\ d.envelope = r.value /\ d.ref = a.value.ref /\ d # None
    <3> HIDE DEF r, a
    <3> QED BY <1>5 DEF Handle, None
  <2>2. n = [k EXCEPT !.at = "handling", !.job = d, !.ran = << <<d.service, d.ref>> >>]
    <3>1. n = [k EXCEPT !.at = "handling", !.job = d, !.ran = Append(@, <<d.service, d.ref>>)]
      BY <2>1 DEF Routed
    <3>2. Append(k.ran, <<d.service, d.ref>>) = << <<d.service, d.ref>> >>
      BY <1>1
    <3> HIDE DEF r, a
    <3> QED BY <1>1, <3>1, <3>2 DEF IsCall
  <2>3. /\ IsCall(n) /\ n.at = "handling" /\ n.job = d /\ n.ran = << <<d.service, d.ref>> >>
        /\ n.result = k.result /\ n.service = k.service /\ n.ref = k.ref /\ n.frame = k.frame
        /\ n.returned = None /\ n.reply = Junk
    BY <1>1, <2>2 DEF IsCall
  <2>4. a = Accept([ref |-> d.ref])
    <3> DEFINE g == r.value.arguments
    <3>1. a = ReadNested(ArgumentsSchema, g, 1)
      BY DEF decodeOAModelResolverResolveArguments
    <3>2. a.word = Blank
      BY <1>5
    <3> HIDE DEF g, r, a
    <3>3. a = Accept([ref |-> a.value.ref])
      BY <3>1, <3>2, ArgumentsShape
    <3> QED BY <2>1, <3>3
  <2>5. JobInv(n, services)
    BY <1>5, <2>1, <2>3, <2>4 DEF JobInv
  <2>6. TypedInv(k) => TypedInv(n)
    BY <2>3 DEF TypedInv
  <2>7. CallInv(n, services)
    BY <1>1, <2>1, <2>3, <2>5, <2>6 DEF CallInv
  <2> QED BY <1>2, <2>3, <2>7 DEF Keeps, EndedWell
<1>6. r.word = Blank /\ Answered(d, r.value) => d.does = "refuse" \/ d.does = "answer"
  BY DEF Answered
<1> QED BY <1>3, <1>4, <1>5, <1>6 DEF Dealt

\* A handler returns, fails or raises.
LEMMA HandlerKeeps ==
  ASSUME NEW k, NEW services, CallInv(k, services), k.at = "handling",
         NEW where \in Surroundings, NEW x, Outcome(where, k.job.service, x), NEW n,
         n = Replied([k EXCEPT !.returned = x], Reply(k.job.envelope, Invoke(k.job.service, x)))
  PROVE  Keeps(k, n, services)
<1> DEFINE i == Invoke(k.job.service, x)
           w == serviceReply(k.job.envelope, i.payload, i.err)
           m == [k EXCEPT !.returned = x]
<1>1. /\ IsCall(k) /\ k.job # None /\ JobInv(k, services) /\ k.returned = None /\ k.reply = Junk
      /\ k.result.word # Blank /\ (k.service # Blank => TypedInv(k))
  BY DEF CallInv
<1>2. k.returned.kind # "result"
  BY <1>1 DEF None
<1>3. \/ Named(i.err)
      \/ /\ i.err = None /\ x.kind = "result"
         /\ decodeAnswer(k.job.service, i.payload) = Accept([value |-> x.result])
  BY <1>1, Invoked DEF JobInv
<1>4. n = IF w.word = Blank THEN [m EXCEPT !.at = "replied", !.reply = w.value] ELSE Close(m)
  BY DEF Replied, Reply
<1>5. /\ IsCall(m) /\ m.job = k.job /\ m.ran = k.ran /\ m.returned = x /\ m.reply = Junk
      /\ m.result = k.result /\ m.service = k.service /\ m.ref = k.ref /\ m.frame = k.frame
  <2> HIDE DEF m
  <2>1. m = [k EXCEPT !.returned = x]
    BY DEF m
  <2> QED BY <1>1, <2>1 DEF IsCall
<1> HIDE DEF m, i
<1>6. JobInv(m, services)
  BY <1>1, <1>5 DEF JobInv
<1>7. CASE w.word # Blank
  <2>1. n = Close(m)
    <3> HIDE DEF w
    <3> QED BY <1>4, <1>7
  <2>2. CallInv(n, services) /\ ~EndedWell(n)
    BY <1>1, <1>5, <1>6, <2>1, Closes
  <2> QED BY <1>2, <2>2 DEF Keeps
<1>8. CASE w.word = Blank
  <2> DEFINE r == decodeOAServiceReply(w.value, 0)
  <2>1. /\ w.value # Junk /\ ~Trailing(w.value) /\ r.word = Blank
        /\ r.value.version = "1" /\ r.value.service = k.job.envelope.service
        /\ r.value.method = k.job.envelope.method
        /\ r.value.ok <=> i.err = None
        /\ i.err = None => r.value.payload = i.payload
        /\ i.err # None => /\ decodeOAServiceError(r.value.payload, 1).word = Blank
                           /\ decodeOAServiceError(r.value.payload, 1).value.code # Blank
    <3> DEFINE v == k.job.envelope
               p == i.payload
               e == i.err
    <3>1. e = None \/ Named(e)
      BY <1>3
    <3>2. serviceReply(v, p, e).word = Blank
      BY <1>8
    <3> HIDE DEF v, p, e
    <3>3. /\ serviceReply(v, p, e).value # Junk /\ ~Trailing(serviceReply(v, p, e).value)
          /\ decodeOAServiceReply(serviceReply(v, p, e).value, 0).word = Blank
      BY <3>1, <3>2, ReplySent
    <3> DEFINE q == decodeOAServiceReply(serviceReply(v, p, e).value, 0)
    <3>4. /\ q.value.version = "1" /\ q.value.service = v.service /\ q.value.method = v.method
          /\ q.value.ok <=> e = None
          /\ e = None => q.value.payload = p
          /\ e # None => /\ decodeOAServiceError(q.value.payload, 1).word = Blank
                         /\ decodeOAServiceError(q.value.payload, 1).value.code # Blank
      BY <3>1, <3>2, ReplySent
    <3> QED BY <3>3, <3>4, Zenon DEF v, p, e
  <2> HIDE DEF w
  <2>2. n = [m EXCEPT !.at = "replied", !.reply = w.value]
    BY <1>4, <1>8
  <2>3. /\ IsCall(n) /\ n.at = "replied" /\ n.reply = w.value /\ n.job = m.job /\ n.ran = m.ran
        /\ n.returned = m.returned /\ n.result = m.result /\ n.service = m.service /\ n.ref = m.ref
        /\ n.frame = m.frame
    BY <1>5, <2>2 DEF IsCall
  <2>4. Named(i.err) => i.err # None
    BY ErrorsHaveNames
  <2>5. ReplyInv(n)
    <3> DEFINE v == servicePayload(n.frame)
               q == decodeOAServiceReply(n.reply, 0)
    <3>1. v.word = Blank /\ v.value = k.job.envelope
      BY <1>1, <1>5, <2>3 DEF JobInv
    <3>2. q = r
      BY <2>3
    <3> HIDE DEF v, q, r
    <3>3. /\ q.word = Blank /\ ~Trailing(n.reply) /\ q.value.version = "1"
          /\ q.value.service = v.value.service /\ q.value.method = v.value.method
      BY <2>1, <2>3, <3>1, <3>2
    <3> DEFINE answer == IF n.job = None THEN v.value.service = EndpointContract
                         ELSE /\ n.returned.kind = "result"
                              /\ decodeAnswer(n.job.service, q.value.payload) = Accept([value |-> n.returned.result])
               e == decodeOAServiceError(q.value.payload, 1)
               refusal == e.word = Blank /\ e.value.code # Blank
    <3>4. ReplyInv(n) <=> /\ v.word = Blank /\ q.word = Blank /\ ~Trailing(n.reply) /\ q.value.version = "1"
                          /\ q.value.service = v.value.service /\ q.value.method = v.value.method
                          /\ IF q.value.ok THEN answer ELSE refusal
      BY Zenon DEF ReplyInv, v, q
    <3>5. CASE q.value.ok
      <4>1. i.err = None /\ q.value.payload = i.payload
        BY <2>1, <3>2, <3>5
      <4>2. n.returned.kind = "result" /\ n.job # None
        BY <1>1, <1>3, <1>5, <2>3, <2>4, <4>1
      <4>3. decodeAnswer(n.job.service, q.value.payload) = Accept([value |-> n.returned.result])
        BY <1>3, <1>5, <2>3, <2>4, <4>1
      <4>4. answer
        BY <4>2, <4>3
      <4> HIDE DEF answer, refusal
      <4> QED BY <3>1, <3>3, <3>5, <3>4, <4>4
    <3>6. CASE ~q.value.ok
      <4>1. /\ decodeOAServiceError(q.value.payload, 1).word = Blank
            /\ decodeOAServiceError(q.value.payload, 1).value.code # Blank
        BY <2>1, <3>2, <3>6
      <4>2. refusal
        BY <4>1
      <4> HIDE DEF answer, refusal
      <4> QED BY <3>1, <3>3, <3>6, <3>4, <4>2
    <3> QED BY <3>5, <3>6
  <2>6. TypedInv(k) => TypedInv(n)
    BY <1>5, <2>3 DEF TypedInv
  <2>7. JobInv(n, services)
    BY <1>6, <2>3 DEF JobInv
  <2>8. CallInv(n, services)
    BY <1>1, <1>5, <2>1, <2>3, <2>5, <2>6, <2>7 DEF CallInv
  <2> QED BY <1>2, <2>3, <2>8 DEF Keeps, EndedWell
<1> QED BY <1>7, <1>8

\* A typed client that believes a reply some call got has the result of a handler
\* of its service: the one that ran for that call.
LEMMA ReplyBelieved ==
  ASSUME NEW k, NEW services, CallInv(k, services), k.reply # Junk, NEW s \in {Resolver, Manifest},
         ClientRead(s, k.reply).word = Blank
  PROVE  /\ k.job # None /\ k.ran = << <<s, k.job.ref>> >> /\ k.returned.kind = "result"
         /\ ClientRead(s, k.reply).value = k.returned.result
<1> DEFINE r == decodeOAServiceReply(k.reply, 0)
<1>1. /\ r.value.service = s /\ r.value.ok
      /\ ClientRead(s, k.reply).value = decodeAnswer(s, r.value.payload).value.value
  BY Believed
<1>2. ReplyInv(k)
  BY DEF CallInv
<1>3. k.job # None
  BY <1>1, <1>2, ServiceNames DEF ReplyInv
<1>4. JobInv(k, services)
  BY <1>3 DEF CallInv
<1>5. k.job.service = s
  BY <1>1, <1>2, <1>4 DEF ReplyInv, JobInv
<1>6. k.returned.kind = "result" /\ decodeAnswer(s, r.value.payload) = Accept([value |-> k.returned.result])
  BY <1>1, <1>2, <1>3, <1>5 DEF ReplyInv
<1>7. decodeAnswer(s, r.value.payload).value.value = k.returned.result
  <2> DEFINE D == decodeAnswer(s, r.value.payload)
  <2> HIDE DEF D
  <2> QED BY <1>6, Words DEF D
<1> QED BY <1>1, <1>3, <1>4, <1>5, <1>6, <1>7 DEF JobInv

\* Arguments are read as one reference.
LEMMA OneReference ==
  ASSUME NEW x, NEW y, Accept([ref |-> x]) = Accept([ref |-> y])
  PROVE  x = y
<1>1. Accept([ref |-> x]).value = [ref |-> x] /\ Accept([ref |-> y]).value = [ref |-> y]
  BY DEF Accept
<1>2. [ref |-> x].ref = [ref |-> y].ref
  BY <1>1
<1> QED BY <1>2

\* A reply, perhaps not this call's, arrives.
LEMMA DeliverKeeps ==
  ASSUME EndpointInv, NEW c \in DOMAIN call, call[c].at = "replied",
         NEW frame \in {call[c].reply} \cup Crossing, NEW n,
         n = [call[c] EXCEPT !.at = "done", !.waits = FALSE,
                !.result = IF ~call[c].waits THEN @
                           ELSE IF call[c].service = Blank THEN Accept(Nil)
                           ELSE ClientRead(call[c].service, frame)]
  PROVE  Keeps(call[c], n, hosted)
<1> DEFINE k == call[c]
           result == IF ~k.waits THEN k.result
                     ELSE IF k.service = Blank THEN Accept(Nil) ELSE ClientRead(k.service, frame)
<1>1. CallInv(k, hosted)
  BY DEF EndpointInv
<1>2. /\ IsCall(k) /\ k.reply # Junk /\ k.result.word # Blank /\ (k.service # Blank => TypedInv(k))
      /\ ReplyInv(k)
  BY <1>1 DEF CallInv
<1>3. n = [k EXCEPT !.at = "done", !.waits = FALSE, !.result = result]
  BY <1>2 DEF IsCall
<1>4. /\ IsCall(n) /\ n.at = "done" /\ n.waits = FALSE /\ n.result = result
      /\ n.service = k.service /\ n.ref = k.ref /\ n.frame = k.frame /\ n.job = k.job
      /\ n.ran = k.ran /\ n.returned = k.returned /\ n.reply = k.reply
  <2> HIDE DEF k, result
  <2> QED BY <1>2, <1>3 DEF IsCall
<1>5. CallInv(n, hosted)
  <2> HIDE DEF k, result
  <2>1. /\ JobInv(k, hosted) => JobInv(n, hosted)
        /\ ReplyInv(k) => ReplyInv(n)
    BY <1>4 DEF JobInv, ReplyInv
  <2> QED BY <1>1, <1>2, <1>4, <2>1 DEF CallInv
<1>6. ASSUME EndedWell(n)
      PROVE  (Faithful => ByItsHandler(n)) /\ ByAHandler(n)
  <2> DEFINE s == k.service
  <2>1. /\ s # Blank /\ result = ClientRead(s, frame) /\ ClientRead(s, frame).word = Blank
        /\ TypedInv(k) /\ s \in {Resolver, Manifest}
    BY <1>2, <1>4, <1>6 DEF EndedWell, TypedInv
  <2>2. CASE frame = k.reply
    <3>1. /\ k.job # None /\ k.ran = << <<s, k.job.ref>> >> /\ k.returned.kind = "result"
          /\ ClientRead(s, frame).value = k.returned.result
      BY <1>1, <1>2, <2>1, <2>2, ReplyBelieved
    <3>2. k.job.ref = k.ref
      <4> DEFINE a == decodeOAModelResolverResolveArguments(servicePayload(k.frame).value.arguments, 1)
      <4>1. a = Accept([ref |-> k.job.ref])
        BY <1>1, <3>1 DEF CallInv, JobInv
      <4>2. a = Accept([ref |-> k.ref])
        BY <2>1, <4>1, Words DEF TypedInv
      <4> QED BY <4>1, <4>2, OneReference
    <3>3. ByItsHandler(n)
      BY <1>4, <2>1, <3>1, <3>2 DEF ByItsHandler
    <3>4. k.ran # <<>> /\ k.ran[1][1] = s
      BY <3>1
    <3> QED BY <1>4, <2>1, <3>1, <3>3, <3>4 DEF ByAHandler
  <2>3. CASE frame # k.reply
    <3>1. ~Faithful /\ frame \in Crossing
      BY <2>3 DEF Crossing
    <3>2. CASE frame \in StrayReplies[around]
      <4> DEFINE r == decodeOAServiceReply(frame, 0)
      <4>1. /\ r.word = Blank /\ r.value.version = "1" /\ r.value.service = s /\ r.value.method = "Resolve"
        BY <2>1, Believed
      <4>2. r.word = Blank /\ r.value.version = "1" /\ r.value.service \in {Resolver, Manifest} =>
              r.value.method # "Resolve"
        BY <3>2, StrayAssumption DEF EndpointInv
      <4> QED BY <2>1, <4>1, <4>2
    <3>3. CASE \E d \in DOMAIN call : call[d].reply # Junk /\ frame = call[d].reply
      <4>1. PICK d \in DOMAIN call : call[d].reply # Junk /\ frame = call[d].reply
        BY <3>3
      <4>2. CallInv(call[d], hosted)
        BY DEF EndpointInv
      <4>3. /\ call[d].ran = << <<s, call[d].job.ref>> >> /\ call[d].returned.kind = "result"
            /\ ClientRead(s, frame).value = call[d].returned.result
        BY <2>1, <4>1, <4>2, ReplyBelieved
      <4>4. call[d].ran # <<>> /\ call[d].ran[1][1] = s
        BY <4>3
      <4> QED BY <1>4, <2>1, <3>1, <4>3, <4>4 DEF ByAHandler
    <3> QED BY <3>1, <3>2, <3>3 DEF Crossing
  <2> QED BY <2>2, <2>3
<1> QED BY <1>4, <1>5, <1>6 DEF Keeps

\* The caller stops waiting.
LEMMA GiveUpKeeps ==
  ASSUME NEW k, NEW services, CallInv(k, services), k.waits, NEW n,
         n = [k EXCEPT !.waits = FALSE, !.result = Refuse("timeout")]
  PROVE  Keeps(k, n, services)
<1>1. IsCall(k) /\ k.at # "done" /\ k.at # "idle"
  BY DEF CallInv, NoCall
<1>2. /\ IsCall(n) /\ n.at = k.at /\ n.waits = FALSE /\ n.result = Refuse("timeout")
      /\ n.service = k.service /\ n.ref = k.ref /\ n.frame = k.frame /\ n.job = k.job
      /\ n.ran = k.ran /\ n.returned = k.returned /\ n.reply = k.reply
  BY <1>1 DEF IsCall
<1>3. n.result.word # Blank
  BY <1>2, Words, EndpointWords
<1>4. /\ TypedInv(k) => TypedInv(n)
      /\ JobInv(k, services) => JobInv(n, services)
      /\ ReplyInv(k) => ReplyInv(n)
  BY <1>2, SameCall
<1>5. CallInv(n, services)
  BY <1>1, <1>2, <1>3, <1>4 DEF CallInv
<1> QED BY <1>2, <1>3, <1>5 DEF Keeps, EndedWell

-----------------------------------------------------------------------------
\* No call has been made.
LEMMA InvInit == EndpointInit => EndpointInv
<1> SUFFICES ASSUME EndpointInit PROVE EndpointInv
  OBVIOUS
<1>1. DOMAIN call = Calls[around] /\ call = [c \in DOMAIN call |-> call[c]]
      /\ \A c \in DOMAIN call : call[c] = NoCall
  BY DEF EndpointInit
<1>2. /\ IsCall(NoCall) /\ NoCall.at = "idle" /\ NoCall.result = Refuse("none") /\ NoCall.job = None
      /\ NoCall.ran = <<>> /\ NoCall.returned = None /\ NoCall.reply = Junk
  BY DEF NoCall, IsCall
<1>3. NoCall.result.word # Blank
  BY <1>2, Words, EndpointWords
<1>4. \A services : CallInv(NoCall, services)
  <2> HIDE DEF NoCall
  <2> QED BY <1>2, <1>3 DEF CallInv
<1>5. \A c \in DOMAIN call : ~Succeeded(c)
  BY <1>1, <1>2 DEF Succeeded
<1>6. ResultIsTheHandlers /\ OwnServiceOnly
  BY <1>5 DEF ResultIsTheHandlers, OwnServiceOnly
<1> QED BY <1>1, <1>4, <1>6 DEF EndpointInit, EndpointInv, Lists

\* Every step of every call, one case for each action.
LEMMA InvNext == EndpointInv /\ [EndpointNext]_endpointVars => EndpointInv'
<1> SUFFICES ASSUME EndpointInv, [EndpointNext]_endpointVars PROVE EndpointInv'
  OBVIOUS
<1>1. CASE UNCHANGED endpointVars
  <2>1. Faithful' = Faithful
    BY <1>1 DEF endpointVars, Faithful
  <2> QED BY <1>1, <2>1 DEF endpointVars, EndpointInv, ResultIsTheHandlers, OwnServiceOnly, Succeeded
<1>2. ASSUME NEW c \in DOMAIN call, CallStep(c) PROVE EndpointInv'
  <2> DEFINE k == call[c]
  <2>0. CallInv(k, hosted) /\ around \in Surroundings /\ hosted \in Lists
    BY DEF EndpointInv
  <2>1. ASSUME NEW s \in {Resolver, Manifest}, NEW ref \in Refs[around], Call(c, s, ref) PROVE EndpointInv'
    <3> DEFINE f == ClientFrame(s, ref)
               r == servicePayload(f)
               n == [k EXCEPT !.service = s, !.ref = ref, !.frame = f,
                              !.at = IF r.word = Blank THEN "sent" ELSE "done",
                              !.waits = r.word = Blank,
                              !.result = IF r.word = Blank THEN @ ELSE r]
    <3>1. k.at = "idle" /\ Update(c, n)
      BY <2>1 DEF Call
    <3>2. GoFlat(RefSchema, ref)
      BY <2>0, GoValuesAssumption
    <3>3. Keeps(k, n, hosted)
      BY <2>0, <3>1, <3>2, CallKeeps
    <3> QED BY <3>1, <3>3, StepKeeps
  <2>2. ASSUME NEW ref \in Refs[around], CallCancelled(c, Resolver, ref) PROVE EndpointInv'
    <3> DEFINE n == [k EXCEPT !.at = "done", !.service = Resolver, !.ref = ref, !.result = Refuse("cancelled")]
    <3>1. k.at = "idle" /\ Update(c, n)
      BY <2>2 DEF CallCancelled
    <3>2. Keeps(k, n, hosted)
      BY <2>0, <3>1, CallCancelledKeeps
    <3> QED BY <3>1, <3>2, StepKeeps
  <2>3. ASSUME NEW frame \in ForeignFrames[around], Write(c, frame) PROVE EndpointInv'
    <3> DEFINE n == [k EXCEPT !.frame = frame, !.at = "sent", !.waits = TRUE]
    <3>1. k.at = "idle" /\ Update(c, n)
      BY <2>3 DEF Write
    <3>2. Keeps(k, n, hosted)
      BY <2>0, <3>1, WriteKeeps
    <3> QED BY <3>1, <3>2, StepKeeps
  <2>4. ASSUME NEW frame \in ForeignFrames[around], WriteOneWay(c, frame) PROVE EndpointInv'
    <3> DEFINE word == WriteFrame(hosted[1], servicePayload(frame))
               n == [k EXCEPT !.frame = frame, !.at = "done", !.result = Refuse(word)]
    <3>1. k.at = "idle" /\ Update(c, n)
      BY <2>4 DEF WriteOneWay
    <3>2. Keeps(k, n, hosted)
      BY <2>0, <3>1, WriteKeeps
    <3> QED BY <3>1, <3>2, StepKeeps
  <2>5. CASE Route(c)
    <3> DEFINE d == Dispatch(k.frame)
               n == Routed(k, d)
    <3>1. k.at = "sent" /\ Update(c, n)
      BY <2>5 DEF Route
    <3>2. Dealt(d, k.frame, hosted)
      BY <2>0, Routes
    <3>3. Keeps(k, n, hosted)
      BY <2>0, <3>1, <3>2, RouteKeeps
    <3> QED BY <3>1, <3>3, StepKeeps
  <2>6. ASSUME NEW x, Outcome(around, k.job.service, x), HandlerReturns(c, x) PROVE EndpointInv'
    <3> DEFINE n == Replied([k EXCEPT !.returned = x], Reply(k.job.envelope, Invoke(k.job.service, x)))
    <3>1. k.at = "handling" /\ Update(c, n)
      BY <2>6 DEF HandlerReturns
    <3>2. Keeps(k, n, hosted)
      BY <2>0, <2>6, <3>1, HandlerKeeps
    <3> QED BY <3>1, <3>2, StepKeeps
  <2>7. ASSUME NEW frame \in {k.reply} \cup Crossing, Deliver(c, frame) PROVE EndpointInv'
    <3> DEFINE n == [k EXCEPT !.at = "done", !.waits = FALSE,
                       !.result = IF ~k.waits THEN @
                                  ELSE IF k.service = Blank THEN Accept(Nil)
                                  ELSE ClientRead(k.service, frame)]
    <3>1. k.at = "replied" /\ Update(c, n)
      BY <2>7 DEF Deliver
    <3>2. Keeps(k, n, hosted)
      BY <3>1, DeliverKeeps
    <3> QED BY <3>1, <3>2, StepKeeps
  <2>8. CASE GiveUp(c)
    <3> DEFINE n == [k EXCEPT !.waits = FALSE, !.result = Refuse("timeout")]
    <3>1. k.waits /\ Update(c, n)
      BY <2>8 DEF GiveUp
    <3>2. Keeps(k, n, hosted)
      BY <2>0, <3>1, GiveUpKeeps
    <3> QED BY <3>1, <3>2, StepKeeps
  <2>9. ASSUME NEW x \in HandlerErrors[around], HandlerReturns(c, x) PROVE EndpointInv'
    BY <2>6, <2>9 DEF Outcome
  <2>10. ASSUME NEW v \in HandlerResults[around][call[c].job.service],
                HandlerReturns(c, [kind |-> "result", result |-> v])
         PROVE  EndpointInv'
    BY <2>6, <2>10 DEF Outcome
  <2> QED BY <1>2, <2>1, <2>2, <2>3, <2>4, <2>5, <2>7, <2>8, <2>9, <2>10 DEF CallStep
<1> QED BY <1>1, <1>2 DEF EndpointNext

\* The inductive invariant: what each call has sent, run, answered and been told.
THEOREM EndpointInvariant == EndpointSpec => []EndpointInv
<1>1. EndpointInit => EndpointInv
  BY InvInit
<1>2. EndpointInv /\ [EndpointNext]_endpointVars => EndpointInv'
  BY InvNext
<1> QED BY <1>1, <1>2, PTL DEF EndpointSpec

\* Over a transport that keeps calls apart, what a typed client returns is what its
\* own service's handler returned, once, for the reference it was asked about
\* (ModelResolverClient.Resolve to ModelResolverDispatcher.ExchangeFrame and back).
THEOREM ResultsAreTheHandlers == EndpointSpec => []ResultIsTheHandlers
<1>1. EndpointInv => ResultIsTheHandlers
  BY DEF EndpointInv
<1> QED BY <1>1, EndpointInvariant, PTL

\* Whatever replies a transport crosses, a typed client believes only a result a
\* handler of its own service returned (serviceResponse).
THEOREM OwnServiceBelieved == EndpointSpec => []OwnServiceOnly
<1>1. EndpointInv => OwnServiceOnly
  BY DEF EndpointInv
<1> QED BY <1>1, EndpointInvariant, PTL

\* A handler runs at most once for a frame, which names its service, hosted here,
\* the method and the reference (ExchangeFrame, ServeEndpoint).
THEOREM RunsWhatWasSent == EndpointSpec => []RunsOnlyWhatItWasSent
<1>1. EndpointInv => RunsOnlyWhatItWasSent
  <2> SUFFICES ASSUME EndpointInv, NEW c \in DOMAIN call, call[c].ran # <<>>
               PROVE  LET v == servicePayload(call[c].frame)
                      IN /\ Len(call[c].ran) = 1
                         /\ call[c].ran[1][1] \in ToSet(hosted)
                         /\ v.word = Blank /\ v.value.service = call[c].ran[1][1] /\ v.value.method = "Resolve"
                         /\ decodeOAModelResolverResolveArguments(v.value.arguments, 1)
                              = Accept([ref |-> call[c].ran[1][2]])
    BY DEF RunsOnlyWhatItWasSent
  <2> DEFINE k == call[c]
  <2>1. JobInv(k, hosted)
    BY DEF EndpointInv, CallInv
  <2>2. k.ran = << <<k.job.service, k.job.ref>> >>
    BY <2>1 DEF JobInv
  <2> DEFINE s == k.job.service
             ref == k.job.ref
  <2>3. Len(k.ran) = 1 /\ k.ran[1][1] = s /\ k.ran[1][2] = ref
    <3>1. k.ran = << <<s, ref>> >>
      BY <2>2
    <3> HIDE DEF k, s, ref
    <3> QED BY <3>1
  <2> QED BY <2>1, <2>3 DEF JobInv
<1> QED BY <1>1, EndpointInvariant, PTL

\* Every reply that goes out reads as an answer to its frame, with a payload the
\* client decodes or a named error (serviceReply, invokeResolve).
THEOREM RepliesReadable == EndpointSpec => []RepliesAreReadable
<1>1. EndpointInv => RepliesAreReadable
  <2> SUFFICES ASSUME EndpointInv, NEW c \in DOMAIN call, call[c].at = "replied"
               PROVE  LET v == servicePayload(call[c].frame).value
                          r == serviceResponse(call[c].reply, v.service, v.method)
                      IN /\ r.word \in {Blank, "service_error"}
                         /\ r.word = Blank /\ call[c].job # None => decodeAnswer(v.service, r.value).word = Blank
    BY DEF RepliesAreReadable
  <2> DEFINE k == call[c]
             v == servicePayload(k.frame).value
             d == decodeOAServiceReply(k.reply, 0)
             e == decodeOAServiceError(d.value.payload, 1)
             r == serviceResponse(k.reply, v.service, v.method)
  <2>1. ReplyInv(k)
    BY DEF EndpointInv, CallInv
  <2>2. /\ d.word = Blank /\ ~Trailing(k.reply) /\ d.value.version = "1"
        /\ d.value.service = v.service /\ d.value.method = v.method
        /\ ~d.value.ok => e.word = Blank /\ e.value.code # Blank
    BY <2>1 DEF ReplyInv
  <2>3. knownVersion(k.reply, d) = d
    <3> HIDE DEF d, k
    <3> QED BY <2>2 DEF knownVersion
  <2>4. r = IF d.value.ok THEN Accept(d.value.payload) ELSE namedError(e)
    <3> HIDE DEF d, k, v
    <3> QED BY <2>2, <2>3 DEF serviceResponse, answers, d
  <2>5. CASE d.value.ok
    <3>1. r = Accept(d.value.payload)
      <4> HIDE DEF d, r
      <4> QED BY <2>4, <2>5
    <3>2. r.word = Blank /\ r.value = d.value.payload
      <4> HIDE DEF d, r
      <4> QED BY <3>1, Words
    <3>3. ASSUME k.job # None PROVE decodeAnswer(v.service, r.value).word = Blank
      <4>1. JobInv(k, hosted)
        BY <3>3 DEF EndpointInv, CallInv
      <4>2. v.service = k.job.service
        BY <4>1 DEF JobInv
      <4>3. decodeAnswer(k.job.service, d.value.payload) = Accept([value |-> k.returned.result])
        BY <2>1, <2>5, <3>3 DEF ReplyInv
      <4> QED BY <3>2, <4>2, <4>3, Words
    <3> HIDE DEF r
    <3> QED BY <3>2, <3>3 DEF r
  <2>6. CASE ~d.value.ok
    <3>1. r = namedError(e)
      <4> HIDE DEF d, r, e
      <4> QED BY <2>4, <2>6
    <3>2. namedError(e).word = "service_error"
      <4> HIDE DEF e
      <4> QED BY <2>2, <2>6 DEF namedError
    <3>3. r.word = "service_error"
      BY <3>1, <3>2
    <3> HIDE DEF r
    <3> QED BY <3>3, EndpointWords DEF r
  <2> QED BY <2>5, <2>6
<1> QED BY <1>1, EndpointInvariant, PTL
=============================================================================
