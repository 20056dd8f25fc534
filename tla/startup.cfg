\* Two processes that are started again and again, with every kind of option.
SPECIFICATION Spec
CONSTANTS
  p1 = p1
  p2 = p2
  home = home
  tmp = tmp
  datadir = datadir
  prefix = prefix
  dir = dir
  equation = equation
  bare = bare
  Processes = {p1, p2}
  Arguments <- Lists
  Paths <- AllPaths
  Home = home
  Tmp = tmp
  Hints <- TwoHints
  Complete = {prefix}
  Files = {datadir, equation, bare}
  Empty = Empty
  Cut <- CutValues
  LikeConfig = {bare}
SYMMETRY Symmetric
INVARIANTS TypeOK ConfigExists DataComplete LastReadCounts
PROPERTIES HelpMakesNothing EveapiLeftOut
