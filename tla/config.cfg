SPECIFICATION ConfigSpec
CONSTANTS
  Ports <- SomePorts
  Widths = {5, 8, 9, 10}
  Timeouts <- SomeTimeouts
  TimeoutForms = {"-t", "--timeout"}
  DnsArgs <- SomeDns
  IntMax <- SmallIntMax
  MaxInputs = 4
INVARIANTS
  ServesOnlyValid
  OutcomeTold
  ServedAsAsked
CHECK_DEADLOCK FALSE
