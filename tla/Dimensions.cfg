\* Arrays of one and of two dimensions.
SPECIFICATION SpecValues
CONSTANTS
  Codecs = {"eth", "icon"}
  ParamTypes <- DimensionedTypes
  Texts <- Amounts
  Bits = 3
INVARIANTS EveryDimensionDecoded
CHECK_DEADLOCK FALSE
