\* Every range of three positions over three futures: with futures that occur
\* twice and futures without a state.
CONSTANTS
  Calls = {"when_all", "when_all tuple", "when_any", "unwrap"}
  Futures = {f1, f2, f3}
  N = 3
  Invalid = Invalid
  NoneValid = NoneValid
  None = None
SPECIFICATION FairSpec
INVARIANTS
  ReadyMeansAll
  SetOnce
  AnswerReady
  SameOutcome
PROPERTIES
  AllReadyEnds
  Answered
  
