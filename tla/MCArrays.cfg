SPECIFICATION Spec
CONSTANTS
  Places <- DocumentedPlaces
  Arrays <- ModelArrays
  Unreliable = TRUE
INVARIANTS
  EveryArrayObeysItsRow
  RowIsTheDocumentedOne
CHECK_DEADLOCK FALSE
