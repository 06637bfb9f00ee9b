SPECIFICATION EvidenceSpec
CONSTANTS
  Policies <- MCPolicies
  Corpora <- MCCorpora
  Iterations = 2
  Rejected = Rejected
  Draft <- MCDraft
  MaxRuns = 2
  MaxChanges = 2
INVARIANTS
  TypeOK
  CasesIndependent
  ControlsTellThePolicy
  EvidenceTypeOK
  ManifestOfOneRun
  ProvenanceExact
CHECK_DEADLOCK FALSE
