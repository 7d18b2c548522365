\* A gateway request and a worker's request of two accounts, two steps through two control
\* plane replicas, two readers and two writers of the pipeline list.  An answer is reused for
\* one tick (credits) or two (AI targets), and fallen back on for one tick more.
SPECIFICATION MCSpec
SYMMETRY Symmetry
CONSTANTS
  Calls = {s1, s2}
  Accounts = {"lab", "cloud"}
  LabAccounts = {"lab"}
  GatewayCalls = {s1}
  FRESH_FOR = 1
  STALE_FOR = 2
  FAILURE_BACKOFF = 1
  MaxNowC = 2
  Steps = {a1, a2}
  Replicas = {r1, r2}
  KeyFresh = 2
  KeyStale = 3
  MaxAttempts = 2
  MaxKeys = 2
  MaxNowA = 3
  MaxOverlap = 1
  Readers = {q1, q2}
  Writers = {w1, w2}
  TTL = 1
  MaxVersion = 3
  MaxNowL = 2
INVARIANTS
  RetrySeesRotation
  OldListOnlyByOverlap
PROPERTIES
  AnswersRecent
