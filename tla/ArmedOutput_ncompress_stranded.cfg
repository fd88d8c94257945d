\* ncompress: a signal between the disarm and the removal of a failed output.
SPECIFICATION Spec
CONSTANTS
  Handlers = {main}
  Own = main
  Nothing = Nothing
  Values <- Names
  Count = 2
  Temps <- TwoTemps
  Setups <- Ncompress
INVARIANTS
  NothingStranded
