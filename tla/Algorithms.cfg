SPECIFICATION AlgSpec
CONSTANTS
  Size = 6
  Segments <- AnySegments
  MaxPn = 6
  MaxHeld = 4
  MaxLats = 5
CHECK_DEADLOCK FALSE
INVARIANTS InSequence NoNewByteIgnored RaisesOnRepeat RoundTrip CodecsAgree ReportSound
PROPERTY FlushMeetsDefinition
