SPECIFICATION Spec
CONSTANTS
  a = a
  b = b
  vote = vote
  pipe = pipe
  cast = cast
  Agents = {a, b}
  Watches = {w1}
  MaxEvents = 3
  MaxOps = 2
  Bridged = TRUE
  Jobs = {vote, pipe, cast}
  Kind <- MCKind
  Members <- MCMembers
INVARIANTS
  PollLosesNothing
  AnswersComplete
  PipelineRuns
CHECK_DEADLOCK FALSE
