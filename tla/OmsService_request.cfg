SPECIFICATION Spec
CONSTANTS
  Requests <- MCAnyLists
  SystemIds <- MCSystemIds
  ServiceIds <- MCServiceIds
  System = "mine"
  Me = "mine"
  Interval = 2
  RunTime = 5
  MaxSend = 2
  MaxLate = 1
  MaxRequests = 2
INVARIANT AnswersMatchContract
CHECK_DEADLOCK FALSE
