SPECIFICATION Spec
CONSTANTS
  Clicks = {a, b}
  Selectors = {0, 1}
  Profiles = {"php", "full"}
  DefaultProfile = "php"
  Strategies = {"symlink", "in_place"}
  Panels <- MCPanels
  MaxMinted = 2
  MaxRelease = 3
  MaxFaults = 1
SYMMETRY ClicksAreAlike
INVARIANTS OneAttemptPerToken LockIsGivenBack
 
CHECK_DEADLOCK FALSE
