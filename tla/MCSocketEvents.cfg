CONSTANTS
  Observers = {o1}
  NotificationSize = 3
  ErrorSize = 1
  Capacity = 6
  MaxConns = 2
  MaxNotifications = 2
  MaxRequests = 2
  MaxCalls = 1
  None = None
SPECIFICATION FairSpec
INVARIANTS DescriptorsAccounted NotifierSurvives
PROPERTIES InOrder CancelReturns
CHECK_DEADLOCK FALSE
