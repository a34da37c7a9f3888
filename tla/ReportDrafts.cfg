SPECIFICATION Spec
CONSTANTS
  Employer = Employer
  Address = Address
  Facts = {Employer}
  NRequests = 2
  Calls <- Every
  MaxEvents = 2
INVARIANTS TypeOK OfItsTime
CHECK_DEADLOCK FALSE
