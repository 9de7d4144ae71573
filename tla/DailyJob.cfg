\* Two workers, two days: the reminder of the due date, which needs no offset.
CONSTANTS
  Workers = {w1, w2}
  Replicas = {w1, w2}
  Items = {i1}
  Users = {member, owner}
  SuperAdmins = {owner}
  Holders = {member}
  Due <- DueOnDay0
  Created = 0
  Offsets = {}
  Nudges = {}
  MaxDay = 1
  MaxRuns = 2
SPECIFICATION Spec
SYMMETRY WorkerSymmetry
INVARIANTS OneMailEach OneOwner
PROPERTY SomebodyHears
