SPECIFICATION TextsSpec
CONSTANTS
  Types = {"Ref", "LookupResult", "ManifestResult", "Error", "Frame", "Reply", "ManifestResolveResult"}
  MaxEdits = 2
  Samples <- MCSamples
  DepthLimit = 4
  Width = 8
  RawBytes <- MCRawBytes
  Units <- MCUnits
  Characters <- MCCharacters
  MaxPieces = 4
  MaxCharacters = 5
  Words = {"a", ".."}
  MaxText = 7
  Texts = {"a", "true", ""}
  MaxGroups = 4
  MaxTokens = 3
  MaxSegments = 2
INVARIANTS ReadsTheSchema RoundTrip OpaqueReadOnce
  TextReadsBack SurrogatesPair IntegerExact
  WrittenReadsBack LineIsHonoured
  VariantsShareFamily FineTuneSplits
CHECK_DEADLOCK FALSE
