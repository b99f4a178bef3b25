CONSTANTS
  UIs = {u1}
  MaxProc = 1
  MaxSetup = 1
  MaxInd = 0
SPECIFICATION Spec
INVARIANTS
  NoUnforeseenTimeout
