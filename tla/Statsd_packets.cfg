SPECIFICATION Spec
CONSTANTS
  Multimsg = {1, 2}
  Datagram <- MCDatagram
  Preceding = {"nul", "."}
  MaxReads <- MCMaxReads
INVARIANT RecordedOnce
PROPERTIES ParserExact StaleCostsOneError
CHECK_DEADLOCK FALSE
