SPECIFICATION Spec
CONSTANTS
  workspaceGate = workspaceGate
  globalGate = globalGate
  inside = inside
  q1 = q1
  q2 = q2
  c1 = c1
  c2 = c2
  c3 = c3
  None = None
  Gate = {workspaceGate, globalGate}
  Invocation = {inside}
  Request = {q1, q2}
  Change = {c1, c2, c3}
  InvocationOf <- OneInvocation
  GateOf <- TwoGates
  Candidates <- MCCandidates
  MaxFaults = 1
SYMMETRY Symmetry
INVARIANTS TypeOK ChangesAudited NoLostChange EvaluationsAgree DecisionsJustified ReplacementIsDurable
CHECK_DEADLOCK FALSE
