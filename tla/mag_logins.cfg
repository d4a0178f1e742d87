SPECIFICATION Spec
CONSTANTS
  Users <- MCUsers
  Aliases = {"group1"}
  Cases <- MCCases
  MaxCases = 3
  MaxFaults = 2
  Course <- MCCourse
INVARIANTS CredentialsFit FailureStaysInCase
