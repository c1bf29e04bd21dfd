SPECIFICATION SegmentsSpec
CONSTANTS
  BodySize = 4
  MaxLength = 41
INVARIANT SegmentsAreData
