\* Requests over two processes, with Start called up to twice in each.
SPECIFICATION Spec
CONSTANTS
  Requests = {r1, r2}
  Nobody = Nobody
  NoRequest = NoRequest
  Inquiries <- MCInquiries
  Configured = {TRUE, FALSE}
  MaxProcesses = 2
  MaxStarts = 2
SYMMETRY Symmetry
INVARIANTS
  TypeOK
  IdsHonoured
  AnswersTrue
  ListensWhileStarted
