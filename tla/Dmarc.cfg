SPECIFICATION Spec
CONSTANTS
  Messages <- SomeMessages
  Reports <- SomeReports
  IdOf <- SharedId
  Records <- SomeRecords
  Parts <- SomeParts
  MaxFaults = 3
INVARIANTS WholeReports CountedOnce LossReported
PROPERTIES Drained
