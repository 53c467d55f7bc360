SPECIFICATION Spec
CONSTANTS
  WORD = 1024
  Base = 2
  HeapSize = 24
  Neighbour = 16
  Requests <- Asked
  Foreign <- Neighbours
  Data <- Words
PROPERTY
  ForeignRefused
