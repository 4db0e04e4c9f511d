\* Three launches, three ports.
SPECIFICATION Spec
CONSTANTS
  Launches = {l1, l2, l3}
  FirstPort = 1
  LastPort = 3
  Nobody = Nobody
INVARIANTS
  ReadsItsLaunch
  FoundIfThere
PROPERTIES
  SearchEnds
