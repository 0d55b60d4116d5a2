CONSTANTS
  r1 = r1
  r2 = r2
  r3 = r3
  i1 = i1
  i2 = i2
  p1 = p1
  p2 = p2
  s1 = s1
  s2 = s2
  Runs = {r1, r2}
  Issues = {i1}
  Repos = {p1}
  Slugs = {s1}
  IssueOf <- SameIssue
  SlugOf <- OneSlug
  Admission <- AllAdmitted
  NoIssue = NoIssue
  NoHead = NoHead
  NoPull = NoPull
  RefusesEmpty = TRUE
  Reviewers = {"merge"}
  MaxFaults = 1
  MaxPulls = 2
SPECIFICATION RememberingSpec
CHECK_DEADLOCK FALSE
PROPERTIES InterruptedCompletes
