SPECIFICATION FairSpec
CONSTANTS
  MaxRedirects = 3
  MaxLines = 3
INVARIANTS OnePost SendRowTrue PassIsProven OverallIsWorst ResolversAgree
PROPERTIES LateProvesNothing RunEnds
CHECK_DEADLOCK FALSE
