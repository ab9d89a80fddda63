SPECIFICATION FairSpec
CONSTANTS FinDelays = {4, 8}
          MaxElapsed = 9
INVARIANTS TypeOK StateIsCurrent
PROPERTIES FinalStays FinalReached
