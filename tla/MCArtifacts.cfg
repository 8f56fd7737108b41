SPECIFICATION Spec
CONSTANTS
  LabelSets <- MCLabelSets
  l1 = l1
  l2 = l2
  MaxTrainings = 2
  NoFile = NoFile
  Torn = Torn
INVARIANTS
  TypeOK
  ArtifactsAgree
PROPERTIES
  ServesOnePair
  GoodBundleServed
