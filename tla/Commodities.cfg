SPECIFICATION HSpec
CONSTANTS
  oil = oil
  widgets = widgets
  escaped = escaped
  cxcomm = cxcomm
  upperCxcomm = upperCxcomm
  cOil = cOil
  cShort = cShort
  cHash = cHash
  NoStr = NoStr
  NoCode = NoCode
  Client = {t1}
  Locked = TRUE
  Str <- MCStr
  Code <- MCCode
  CustomCode <- MCCustomCode
  tolower <- MClower
  removeEscapeSequences <- MCunescape
  commodity_codes <- MCcodes
  cxcomm_code <- MCcxcode
  short_code <- MCshortcode
  stringHash <- MChash
  commodity_names <- MCnames
  short_name <- MCshortname
  cxcomm_name <- MCcxname
INVARIANTS
  TypeOK
  StringsKeepTheirCode
  MapsAreInverse
  CodesReadBack
