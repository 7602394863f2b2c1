SPECIFICATION Spec
CONSTANTS
  MaxNode = 5
INVARIANTS
  TypeOK
  LinksFormOneCircle
PROPERTIES
  ImplementsSequence
