SPECIFICATION Spec
CONSTANTS
  v1 = v1 v2 = v2
  send1 = send1 edit1 = edit1 delete1 = delete1 change1 = change1 other1 = other1 send2 = send2
  None = None Blank = Blank
  Messages = {v1, v2} Tasks = {send1, edit1, delete1, other1, send2}
  Kind <- MCKind MessageOf <- MCMessageOf Own <- MCOwn
  Faults <- NoFaults
INVARIANTS MirrorFollows
