CHECK_DEADLOCK FALSE
SPECIFICATION Spec
CONSTANTS
  r1 = r1
  r2 = r2
  Remotes = {r1, r2}
  Commands <- TwoCommands
  Tracks = 2
  Volumes = {1, 3}
  Uris = {"u"}
  Locales <- TwoLocales
  AskedLocales <- SecondAsks
  NoUri = NoUri
  NoProxy = NoProxy
  MaxUses = 4
  MaxTexts = 2
INVARIANT SubtitlesRun
INVARIANT MirrorsAgree
PROPERTY TextForward
