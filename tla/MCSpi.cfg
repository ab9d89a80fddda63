SPECIFICATION SpiSpec
INVARIANTS OwnCompletion NoLostCompletion
