SPECIFICATION Spec
CONSTANTS
  Subs = {message, delete}
  MaxConns = 4
INVARIANT
  LiveHasSubscriptions
PROPERTY
  SubscriptionsServed
CHECK_DEADLOCK FALSE
