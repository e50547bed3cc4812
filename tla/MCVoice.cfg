\* The page as it is: every await and every request may be interleaved with
\* everything else.
SPECIFICATION FairSpec
CONSTANTS
  NoCall = NoCall
  Metered = TRUE
  Calls = {c1, c2}
  Teardowns = {t1, t2}
CHECK_DEADLOCK FALSE
INVARIANTS TypeOK PageTellsTruth NoForgottenSession NoPhantomPlace MicOnlyInCall
PROPERTIES ConversationSpec LimitMeansSpentIfHeeded HeartbeatsAreBooked ConnectSettles ExpiredCallIsCut
