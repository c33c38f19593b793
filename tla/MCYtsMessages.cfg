CHECK_DEADLOCK FALSE
SPECIFICATION MessagesSpec
SYMMETRY Symmetry
CONSTANTS
  Messages = {m1, m2, m3}
  m1 = m1
  m2 = m2
  m3 = m3
  LastAtom = 2
  NoText = NoText
  c = c
  s1 = s1
  s2 = s2
  cap = cap
  Clients <- Everyone
  Contact <- Devices
  Sees <- SeesTheOther
  Coming <- ComeAndGo
  Troubled = {m1}
  Caps <- Published
  Texts <- SomeTexts
  Lists <- SomeLists
  Dictionaries <- SomeDictionaries
INVARIANT ReportedOnce
INVARIANT DataLive
INVARIANT AtomsApart
INVARIANT HeardAsSent
INVARIANT NothingSilent
INVARIANT ProxiesAgreed
