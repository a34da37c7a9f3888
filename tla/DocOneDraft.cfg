SPECIFICATION Spec
CONSTANTS
  Employer = Employer
  Address = Address
  Facts = {Employer, Address}
  NRequests = 2
  Calls <- Plain
  MaxEvents = 1
PROPERTIES NoRedundantRun
CHECK_DEADLOCK FALSE
