\* A failed replace of a part before the last.
SPECIFICATION Spec
CONSTANTS
  Handlers = {main}
  Main = main
  Archives = {a1, a2}
  Values = {a1, a2}
  Nothing = Nothing
INVARIANT
  FailureKeepsNew
