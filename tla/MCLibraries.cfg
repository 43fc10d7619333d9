\* A string of up to four characters; an array of up to five items; heads of every shape, up to three of them.
SPECIFICATION Spec
CONSTANTS
  Alphabet = {"a", "b", " "}
  MaxText = 4
  StringSize = 2
  Streams <- AllStreams
  TextSize = 5
  PoolSize = 36
  MaxLines = 3
  LengthMod = 64
  Elements = {x, y}
  Capacities = {0, 1, 2}
  MaxItems = 5
INVARIANTS StringsExact FindersExact HeadsTakenExactly WellFormedParsed ParseDefined UrlDecoded PathExact ArrayExact
CHECK_DEADLOCK FALSE
