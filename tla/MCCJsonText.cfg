CONSTANTS
  INT_MAX = 18
  default_buffer_size = 4
  CJSON_NESTING_LIMIT = 2
  NumberLength = 3
  Values <- MCValues
  Codes <- MCCodes
  Comments <- MCComments
  Alphabet <- MCAlphabet
  Sizes = {0, 1, 2, 3, 5, 8, 11, 14, 17, 18}
  Fuel = {0, 1, 2, 3, 4, 12}
  MaxEdits = 1
  Bodies <- MCBodies
  Url <- MCUrl
  Params <- MCParams
  Responses <- MCResponses
SPECIFICATION BodySpec
INVARIANTS
  PrintIsSafe
  PrintIsRendering
  PreallocatedNeedsOneByte
  PrintedIsParsedBack
  AcceptsTheGrammar
  ParseIsSafe
  EscapesMeanTheirCharacter
  MinifyKeepsValue
  UrlMeansParams
  BodyMeansParams
  ResponseIsFound
CHECK_DEADLOCK FALSE
