SPECIFICATION FairDelivery
CONSTANTS
  c1 = c1
  c2 = c2
  AdapterOf <- MCAdapterOf
  Call = {c1, c2}
  Threshold = 2
  CoolDown = 2
  Window = 2
  CallLimit = 1
  Text = {t1, t2, t3}
  TooLong = {t3}
  MaxCache = 1
  MaxRetries = 1
INVARIANTS
  DeliverySound
  OnlyProbe
PROPERTIES
  ProbeDecides
  DeliveriesEnd
