\* Two specs of a Hub, four of a Peer, four changes.
CONSTANTS
  Specs <- SomeSpecs
  Images = {"v1", "v2"}
  FirstImage = "v1"
  MaxChanges = 4
  Nil = Nil
SPECIFICATION FairSpec
INVARIANTS TypeOK RunsWhatWasAsked
PROPERTIES OwnerStays Converges
CHECK_DEADLOCK FALSE
