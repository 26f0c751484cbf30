SPECIFICATION EndpointSpec
CONSTANTS
  DepthLimit = 6
  Surroundings <- Places
  Calls <- MCCalls
  Refs <- MCRefs
  ForeignFrames <- MCForeignFrames
  HandlerResults <- MCHandlerResults
  HandlerErrors <- MCHandlerErrors
  Programs <- MCPrograms
  StrayReplies <- MCStrayReplies
INVARIANTS ResultIsTheHandlers RunsOnlyWhatItWasSent  OwnServiceOnly
CHECK_DEADLOCK FALSE
