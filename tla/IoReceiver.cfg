SPECIFICATION Spec
CONSTANTS
  Priorities = {0, 7}
  Sites <- ReceiverSites
  None = None
PROPERTY
  ReceiverDoneRequests
