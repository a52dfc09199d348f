SPECIFICATION Spec
CONSTANTS
  Threads = {t1, t2, t3}
  Values = {a, b, c}
  Nodes = {n0, n1, n2, n3}
  First = n0
  NoValue = NoValue
  Null = Null
  NoThread = NoThread
INVARIANTS HeapIsSafe
PROPERTY IsFifo
SYMMETRY Symm
