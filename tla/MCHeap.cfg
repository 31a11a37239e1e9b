CONSTANTS
  low = low
  mid = mid
  same = same
  high = high
  Element <- MCElement
  Key <- MCKey
  MaxSize = 6
SPECIFICATION Spec
CHECK_DEADLOCK FALSE
PROPERTY TakesWhatItShows
PROPERTY EnqueueKeepsOrder
