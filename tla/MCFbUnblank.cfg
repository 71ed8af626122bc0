CONSTANTS
  MaxOpens = 1
  Sources = {480, 720}
SPECIFICATION FbSpec
CHECK_DEADLOCK FALSE
PROPERTIES UnblankShows
