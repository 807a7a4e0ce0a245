\* One worker of the SLA check and two requests on the lead it looks at.
SPECIFICATION Spec
CONSTANTS
  h1 = h1  h2 = h2  l1 = l1  l2 = l2
  Handlers = {h1, h2}
  LeadIds = {l1}
  Managers = {m1}
  Owner = owner
  Unassigned = unassigned
  LeadStatuses = {"NEW", "CONTACTED"}
  Mails <- MCMails
  Attempts = 3
  Workers = {w1}
  MaxFailures = 1
INVARIANTS AnsweredIsStamped OneNotificationPerLead NothingLostQuietly InTimeIsNotReported OutcomeIsTrue
CHECK_DEADLOCK FALSE
SYMMETRY Symmetry
