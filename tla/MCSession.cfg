\* Three data frames each way.
CONSTANT MaxData = 3
SPECIFICATION FairSpec
INVARIANTS SuccessMeansConnected OneReply CredentialsFirst PayloadIntact
           
PROPERTY EverySessionEnds
\* A session ends for good.
CHECK_DEADLOCK FALSE
