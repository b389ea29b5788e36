SPECIFICATION Spec
CONSTANTS
  Receipts <- ModelReceipts
  Deliveries <- ModelDeliveries
  MaxValidated = 2
INVARIANTS
  TypeOK
  StalePairIsNotAccepted
  DeliveryIsOfACompletedReceipt
PROPERTY
  PairEnds
CHECK_DEADLOCK FALSE
