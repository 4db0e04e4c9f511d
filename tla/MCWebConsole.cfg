\* One job; a refresh, a form, a retry and a detail at a time.
SPECIFICATION Spec
CONSTANTS
  Ids = {i1}
  Refreshes = {refresh}
  Forms = {form}
  Retriers = {retry}
  Inspectors = {detail}
  Opening = refresh
  MaxRetries = 1
PROPERTIES
  ToldIsTrue
  OperatorErrorStays
  PageFollowsAgent
