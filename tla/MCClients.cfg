SPECIFICATION MCSpec
CONSTANTS
  Client = Client
  Server = Server
  MaxSess <- MCMaxSess
  MaxLossy = 2
  A = A
  B = B
  End = {A, B}
  SndWnd = 2
  RcvWnd = 2
  WndRcv = 3
  Resend = 1
  FastLimit = 0
  NoCwnd = FALSE
  MaxSent <- MCMaxSent
  MaxFrag = 2
  MaxNet <- MCMaxNet
  MaxDup = 1
  W = w
  Callers = {b1, b2}
  ClientBudgets <- MCClientBudgets
  Kinds = {"tcp", "udp", "cast"}
  Attempts = 1
INVARIANTS Agreement CompleteIsMutual NothingForgotten ClientCloseIsLast
PROPERTIES HandshakeResolved IsMessageStream EndReached
CHECK_DEADLOCK FALSE
