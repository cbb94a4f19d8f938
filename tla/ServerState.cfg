\* One key kept for a window, a component that polls it and one that does not.
SPECIFICATION FairSpec
CONSTANTS
  k1 = k1  o1 = o1  o2 = o2
  Key <- OneKey
  Observer = {o1, o2}
  Retain <- Window
  Polls = {o1}
  Forgettable <- Calls
  Changed <- Calls
  MaxInFlight = 2
  MaxGen = 2
  MaxTeardown = 2
  MaxVersion = 2
  MaxForget = 1
  MaxRefresh = 1
INVARIANTS TypeOK ForgottenGone ObserversKept OneLiveRequest InvalidatedNotFresh NobodyWaitsInVain
PROPERTIES ImplementsFollower PollCatchesUp InvalidatedSettles
