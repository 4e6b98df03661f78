CONSTANTS
  plain = plain  timed = timed  stream = stream
  Requests = {plain, timed, stream}
  MaxNew <- MCMaxNew
  Streams = {stream}
  Timed = {timed}
SPECIFICATION CompletionsFairSpec
INVARIANTS TypeOK StreamDeliversAll EventsAreTokens
PROPERTIES ClientReturns StopEndsThread
