SPECIFICATION Spec
CONSTANT Parts = {"plugin", "inputs", "index", "blobs", "metering", "connections", "submission"}
CONSTANTS
  Submissions <- MCSubmissions
  PipelineLists <- MCPipelineLists
  BuiltinList <- MCBuiltinList
  StoredConnections <- MCStoredConnections
  FilesFound <- MCFilesFound
  CreditAccounts = {"ten"}
  OwnIndex = "default"
  Tenants <- MCTenants
  ConnectionCalls <- MCConnectionCalls
  ConnectionReaders <- MCReaders
  Works <- MCWorks
  Hosts = {"h2"}
  IndexAttempts <- MCIndexAttempts
  IndexConfigs <- MCIndexConfigs
  IndexStates <- MCIndexStates
  DocKeys = {"id"}
  batch_size = 2
  max_batch_bytes = 6
  Slices = 2
  StepInputs <- MCStepInputs
  StepAttempts = {1, 2}
  UploadedFiles <- MCUploads
  threshold = 2
  inline_max = 2
CHECK_DEADLOCK FALSE
INVARIANTS
  DestinationSound
  WholeOnlyIfNamed
  IndexedMeansStored
  FilesWhole
  ReadsBounded
  MeteringExact
  DefinitionsSound
  RecordsFaithful
  SchemasAgree
  SectionsFaithful
  ChunksFaithful
  EnrichersFaithful
