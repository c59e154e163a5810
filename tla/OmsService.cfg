SPECIFICATION Spec
CONSTANTS
  Requests <- MCBothOrNone
  SystemIds <- MCSystemIds
  ServiceIds <- MCServiceIds
  System = "mine"
  Me = "mine"
  Interval = 2
  RunTime = 5
  MaxSend = 2
  MaxLate = 1
  MaxRequests = 2
INVARIANT AnswersMatchContract
INVARIANT EndsInTime
PROPERTY ReportsPaced
CHECK_DEADLOCK FALSE
