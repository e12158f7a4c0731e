SPECIFICATION Spec
CONSTANTS
  Cards = {a, b}
  Break = "|"
  Space = " "
  WordChars = {"t", "x", "n"}
  SearchMax = 8
  Meta = {"x"}
  Special = {"x"}
  EndMarks = {"."}
  CandidateMin = 2
  CandidateMax = 6
  HeadLengths <- MCHeads
  HeadWords <- MCHeadWords
  TailMin = 1
  TailLengths <- MCTails
  TailWords <- MCTailWords
  LongNeedle = 4
  HardCap = 2
  Proposals <- MCProposals
  Documents <- MCDocuments
  MaxClicks = 2
  MaxMoves = 1
  MaxFailures = 1
SYMMETRY Symmetry
INVARIANTS TheCardTellsTheTruth ModeIsPutBack
 
CHECK_DEADLOCK FALSE
