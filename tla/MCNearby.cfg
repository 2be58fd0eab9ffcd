SPECIFICATION Spec
CONSTANTS
  Host = h
  Guests = {g1, g2}
  MaxLinks = 2
INVARIANT HostIsTold
PROPERTIES TimesOutAlone AloneEnds
CHECK_DEADLOCK FALSE
