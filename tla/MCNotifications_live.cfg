\* Two late leads, one worker, one failed job; mails with two attempts.
SPECIFICATION LiveSpec
CONSTANTS
  h1 = h1  h2 = h2  l1 = l1  l2 = l2
  Handlers = {}
  LeadIds = {l1, l2}
  Managers = {m1}
  Owner = owner
  Unassigned = unassigned
  LeadStatuses = {"NEW", "CONTACTED"}
  Mails <- MCMails
  Attempts = 2
  Workers = {w1}
  MaxFailures = 1
CHECK_DEADLOCK FALSE
PROPERTIES BreachReported MailSettled
