SPECIFICATION AdminViewFairSpec
CONSTANTS
  Call = {w1}
  Forwarder = forwarder
  Notifier = notifier
  Subscriber = {forwarder, notifier}
  Event <- ViewEvent
  Subscription <- ViewSubscription
  Any = "*"
  Capacity = 1
  NoEvent = NoEvent
  MaxQueue = 1
INVARIANTS
  AdminViewTypeOK
  ViewIsFresh
PROPERTIES
  RadiosAreShown
  DispatchEnds
  BusImplementsQueues
