SPECIFICATION Spec
CONSTANTS
  Absent = Absent
  ArgLists <- MCArgLists
  OtherCounts <- MCOtherCounts
  Feed <- MCFeed
  Fields <- MCFields
  Values = {3, 7}
  MAX_SUBSCRIPTIONS_PER_CLIENT = 3
  MAX_MESSAGE_RATE_PER_CLIENT = 1
  SECOND = 2
  Horizon = 4
  MaxConnections = 2
INVARIANTS
  TypeOK
  AtMostTwiceTheRate
  GrantedIsFed
  CountsFollowKeys
  RoutedBack
  ViewIsCurrent
CHECK_DEADLOCK FALSE
