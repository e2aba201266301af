\* Every reachable state: no bound but the answers.
CONSTANT Answers <- MCAnswers
SPECIFICATION BoxFairSpec
INVARIANTS OneOwner ConfiguredHasPin DoneMeansDone NoCredentialLeft
PROPERTIES RestartRestarts ScreenReturns
