\* Two requests that overlap, one call that fails or process that dies.
SPECIFICATION Spec
CONSTANTS
  r1 = r1  r2 = r2  f1 = f1  f2 = f2  i1 = i1
  Files = {f1}
  Items = {i1}
  Requests = {r1, r2}
  MaxKeys <- TwoDocuments
  MaxFaults = 1
SYMMETRY Handles
INVARIANTS EvidenceReadable EvidenceNotStranded
\* Keys run out, and a company that is gone takes no request.
CHECK_DEADLOCK FALSE
