------------------------------ MODULE WireDocs ------------------------------
(***************************************************************************)
(* A text another program sends: a record as this codec writes it, changed *)
(* in a few places by a writer of another version or by hand.  Whatever    *)
(* comes of it, the generated reader must agree with what the schema says. *)
(***************************************************************************)
EXTENDS Wire

CONSTANTS Types,        \* the records that are sent
          Samples(_),   \* the Go values of each record
          MaxEdits      \* bound: changes made to one text

\* Values with everything that is in them: the entries of a container are a list.
IsList(s) == s \in Seq({s[i] : i \in DOMAIN s})
Whole(values) ==
  \A x \in values : IsContainer(x) =>
     /\ x = Value(x.kind, x.text, x.fields) /\ IsList(x.fields)
     /\ \A i \in DOMAIN x.fields : x.fields[i][2] \in values

ASSUME SamplesAssumption ==
  \A t \in Types : t \in DOMAIN Schema /\ \A v \in Samples(t) : Whole(Nested(EncodeOf(t, v)))

VARIABLES type, doc, edits
docVars == <<type, doc, edits>>

OddValues == {Str("x"), Str(Blank), Str(BadText), Leaf("int", "1"), Leaf("number", "1.5"),
              Leaf("bool", "true"), Leaf("null", Blank), Junk, Object(<<>>),
              Object(<< <<"a", Leaf("null", Blank)>>, <<"a", Str("x")>> >>),
              Value("array", Blank, << <<Blank, Object(<<>>)>> >>)}

\* Every text one change away: an entry dropped, repeated, moved, renamed or
\* given another value, a bracket lost, or such a change further inside.
Refielded(d, fields) == [d EXCEPT !.fields = fields]
With(d, i, e) == Refielded(d, ReplaceAt(d.fields, i, e))
Moved(d, i) == {Refielded(d, RemoveAt(d.fields, i)), Refielded(d, Append(d.fields, d.fields[i])),
                Refielded(d, Append(RemoveAt(d.fields, i), d.fields[i]))}
Renamed(d, i) == {With(d, i, <<k, d.fields[i][2]>>) : k \in {"a", NoKey, BadText}}
Given(d, i) == {With(d, i, <<d.fields[i][1], v>>) : v \in OddValues}
Changes(d) ==
  {[d EXCEPT !.text = "open"]}
    \cup UNION {Moved(d, i) \cup Renamed(d, i) \cup Given(d, i) : i \in DOMAIN d.fields}

\* Of every value in d, when below says it for one level less.
editLevel(d, below) ==
  [x \in Nested(d) |->
     IF ~IsContainer(x) THEN {}
     ELSE Changes(x) \cup UNION {{With(x, i, <<x.fields[i][1], v>>) : v \in below[x.fields[i][2]]} :
                                   i \in {k \in DOMAIN x.fields : x.fields[k][2] \in Nested(d)}}]
EditLevels(d) ==
  LET edit[n \in 0..DepthLimit] == editLevel(d, IF n = 0 THEN [x \in Nested(d) |-> {}] ELSE edit[n - 1])
  IN edit
Edits(d) == EditLevels(d)[DepthLimit][d]

DocInit == /\ type \in Types
           /\ \E v \in Samples(type) : doc = EncodeOf(type, v)
           /\ edits = 0

Edit == /\ edits < MaxEdits
        /\ doc' \in Edits(doc)
        /\ edits' = edits + 1
        /\ UNCHANGED type

DocSpec == DocInit /\ [][Edit]_docVars

-----------------------------------------------------------------------------
(***************************************************************************)
(* What a schema says, without an order of reading.                        *)
(***************************************************************************)
Once(d) == \A i, j \in DOMAIN d.fields : d.fields[i][1] = d.fields[j][1] => i = j

\* A value that may be carried: nothing in it is wrong by itself, and nothing
\* lies deeper than the limit.
SoundAt(d, depth) ==
  CASE d.kind = "string" -> d.text # BadText
    [] d.kind = "junk" -> FALSE
    [] IsContainer(d) -> /\ depth < DepthLimit /\ d.text # "open"
                         /\ d.kind = "object" => Once(d) /\ Keys(d) \cap {NoKey, BadText} = {}
    [] OTHER -> TRUE
Sound(d, depth) == \A n \in 0..(DepthLimit - depth) : \A x \in Levels(d)[n] : SoundAt(x, depth + n)

FitsLeaf(t, d, depth) ==
  CASE t = "string" -> d.kind = "string" /\ d.text # BadText
    [] t = "int32" -> d.kind = "int"
    [] t = "bool" -> d.kind = "bool"
    [] t = "raw" -> Sound(d, depth)
    [] OTHER -> d.kind = "string" /\ d.text # BadText /\ d.text \in Vocabulary[t]

\* fits says it of the entries.
FitsRecord(fields, d, depth, fits) ==
  /\ d.kind = "object" /\ d.text # "open" /\ depth < DepthLimit
  /\ Once(d) /\ Required(fields) \subseteq Keys(d) /\ Keys(d) \subseteq Names(fields)
  /\ \A i \in DOMAIN d.fields : fits[i]

FitsFlat(fields, d, depth) ==
  FitsRecord(fields, d, depth,
             [i \in DOMAIN d.fields |-> FitsLeaf(TypeAt(fields, d, i), d.fields[i][2], depth + 1)])
FitsFlatField(t, d, depth) ==
  IF IsRecord(t) THEN FitsFlat(Schema[t], d, depth) ELSE FitsLeaf(t, d, depth)
FitsNested(fields, d, depth) ==
  FitsRecord(fields, d, depth,
             [i \in DOMAIN d.fields |-> FitsFlatField(TypeAt(fields, d, i), d.fields[i][2], depth + 1)])
FitsNestedField(t, d, depth) ==
  IF IsRecord(t) THEN FitsNested(Schema[t], d, depth) ELSE FitsLeaf(t, d, depth)
Fits(fields, d, depth) ==
  FitsRecord(fields, d, depth,
             [i \in DOMAIN d.fields |-> FitsNestedField(TypeAt(fields, d, i), d.fields[i][2], depth + 1)])

\* What such a text means; mean says it of the entries.
MeaningLeaf(t, d) == CASE t = "bool" -> d.text = "true" [] t = "raw" -> d [] OTHER -> d.text
MeaningRecord(fields, d, mean) ==
  [n \in Names(fields) |->
     IF n \in Keys(d) THEN mean[CHOOSE i \in DOMAIN d.fields : d.fields[i][1] = n]
     ELSE Zero(FieldOf(fields, n))]

MeaningFlat(fields, d) ==
  MeaningRecord(fields, d,
                [i \in DOMAIN d.fields |-> MeaningLeaf(TypeAt(fields, d, i), d.fields[i][2])])
MeaningFlatField(t, d) == IF IsRecord(t) THEN MeaningFlat(Schema[t], d) ELSE MeaningLeaf(t, d)
MeaningNested(fields, d) ==
  MeaningRecord(fields, d,
                [i \in DOMAIN d.fields |-> MeaningFlatField(TypeAt(fields, d, i), d.fields[i][2])])
MeaningNestedField(t, d) == IF IsRecord(t) THEN MeaningNested(Schema[t], d) ELSE MeaningLeaf(t, d)
Meaning(fields, d) ==
  MeaningRecord(fields, d,
                [i \in DOMAIN d.fields |-> MeaningNestedField(TypeAt(fields, d, i), d.fields[i][2])])

\* The reader accepts exactly the texts that fit the schema, each field once and
\* in any order, and gives them the meaning the schema gives them: reading left
\* to right with a bit per field loses, repeats and invents nothing.
ReadsTheSchema ==
  LET r == DecodeAt(type, doc, 0)
  IN type \in Types =>
        /\ (r.word = Blank) = Fits(Schema[type], doc, 0)
        /\ r.word = Blank => r.value = Meaning(Schema[type], doc)

\* What was read can be written again and reads the same, so that a record
\* survives a program that only carries it (EncodeRefAt reads back what it wrote
\* and panics otherwise).
RoundTrip ==
  LET r == DecodeAt(type, doc, 0)
      e == EncodeAt(type, r.value, 0)
  IN type \in Types /\ r.word = Blank => e.word = Blank /\ DecodeAt(type, e.value, 0) = r

\* The envelope's reader walks the arguments or the payload without reading them
\* and the dispatcher or the client reads them again at depth 1: the second
\* reading finds no fault that belongs to the first one.  Only such a frame is
\* answered, so a fault of syntax never reaches a reply.
OpaqueReadOnce ==
  LET r == DecodeAt(type, doc, 0)
      inner == IF type = "Frame" THEN decodeOAModelResolverResolveArguments(r.value.arguments, 1)
               ELSE decodeOAModelResolverResolveResult(r.value.payload, 1)
  IN (type \in Types /\ type \in {"Frame", "Reply"} /\ r.word = Blank) =>
        inner.word \notin {"malformed", "bad_string", "depth_exceeded", "duplicate_field", "duplicate_key"}
=============================================================================
