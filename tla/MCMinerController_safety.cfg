SPECIFICATION Spec
CONSTANTS
  Margin = 1
  NoWindow = NoWindow
  NoHash = NoHash
  NoMarker = NoMarker
  NoRound = NoRound
  hashA = hashA
  hashB = hashB
  Served <- MCServed
  Activation = 1
  Era = 2
  MaxHead = 7
  MaxFaults = 3
INVARIANTS
  TypeOK
  OutstandingIsMarked
  GreenIsExact
PROPERTIES
  NeverBlindlyResubmitted
  RefusalIsFinal
  TrustNeverRegresses
