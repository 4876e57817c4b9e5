SPECIFICATION Spec
CONSTANTS
  c1 = c1
  c2 = c2
  k1 = k1
  k2 = k2
  n1 = n1
  NULL = NULL
  Creates <- MCCreates
  Commands <- MCCommands
  Names <- MCNames
  NameOf <- MCNameOf
  Null = NULL
  KafkaConfigured = TRUE
  MaxFaults = 2
SYMMETRY Symmetry
CHECK_DEADLOCK FALSE
INVARIANTS
  TypeOK
  NamesUnique
  AnsweredHasTopic
  ActiveHasTopic
  AnswersHonest
PROPERTIES
  ImplementsTable
