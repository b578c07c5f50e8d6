SPECIFICATION Spec
INVARIANTS
  FilesKept NamesFound CipherIsAES LookupsRight RadioFrames
PROPERTIES
  HostProtocol
CHECK_DEADLOCK FALSE
