CONSTANTS
  Conns = {c1, c2, c3, c4}
  Pcbs = {p1, p2}
  SlotCount = 2
  Free = Free
  Listener = Listener
  Lost = Lost
  Scripts <- MCScripts
  Places = {p1, p2}
  NoPlace = NoPlace
  Errands <- MCErrands
SPECIFICATION TcpSpec
SYMMETRY Symmetric
INVARIANTS SlotsHeldOnce CallsReachTheirPcb ListensAsTold KnowsWhatIsSo
CHECK_DEADLOCK FALSE
