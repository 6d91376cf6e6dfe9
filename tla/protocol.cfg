\* Streams of two items cut anywhere, two connections; codecs over bounded inputs.
SPECIFICATION MCSpec
CONSTANTS
  Byte = 6
  FILE_ID_LEN = 1
  Items <- MCItems
  Host = 4
  MaxMessageSize = 49
  MaxFrame = 52
  MaxItems = 2
  MaxConnections = 2
  PublicKeyBytes = 4
INVARIANTS FramingTypeOK ServerDeliversExactly ReaderDeliversExactly CodecSpeaksTheProtocol KeySurvivesMail
CHECK_DEADLOCK FALSE
