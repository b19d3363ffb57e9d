\* Every module between the networks and the clients of the API, one at a time.
SPECIFICATION SpecInterfaces
CONSTANTS
  MaxLogQueryRange = 1
  Modulus = 16
  InitHeights = {0, 1, 2}
  MaxHead = 4
  MaxLogs = 2
  Kinds = {"subscription", "icon"}
  c1 = c1
  c2 = c2
  None = None
  Callers = {c1, c2}
  Addrs = {"a", "server"}
  Server = "server"
  Networks = {"eth", "icon"}
  Requests <- Asked
  Codecs = {"eth", "icon"}
  ParamTypes <- FollowedTypes
  Texts <- Written
  Bits = 3
  Chains = {"eth", "icon"}
  Emitters = {"a", "b"}
  Signatures = {"s", "t"}
  Shapes <- EventShapes
  Numbers = {0, 1}
  Logs <- Emitted
  Notations = {"chain", "other"}
  Longest = 2
  Entries = {"method", "event"}
  Types = {"icon", "eth", "bsc"}
  PartValues <- Parts
  Flags <- Overloadable
SYMMETRY Symmetry
INVARIANTS TypeOK NothingSkipped PushedNothingSkipped SentAsAsked InvalidOnlyAtFirst ReplacedOnlyByRace ArrivesAsWritten FittingIsAccepted FilterFindsItsEvent WantedIsTold OnlyWantedIsTold EachFindsItsOwn TranslatesToOwn HttpMethodFits
PROPERTY StreamsAsPromised
CHECK_DEADLOCK FALSE
