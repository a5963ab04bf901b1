CONSTANTS
  a1 = a1
  a2 = a2
  a3 = a3
  h1 = h1
  h2 = h2
  r1 = r1
  r2 = r2
  NoApproval = NoApproval
  Approvals <- MCApprovals
  Handlers <- MCHandlers
  Runners <- MCRunners
  FirstRunner = r1
  TablesFail = TRUE
  TextReplies = FALSE
SPECIFICATION Spec
SYMMETRY MCSymmetry
CONSTRAINT MCPromised
INVARIANTS
  TypeOK
  OwnCallOnly
  ResumedOnce
PROPERTY ImplementsGate
