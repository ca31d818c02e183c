CONSTANTS
  HubServers = {s1, s2}
  MaxBookmarks = 2
  NoId = NoId
  Typed = Typed
  NotYet = NotYet
SPECIFICATION SLSpec
INVARIANT JoinsServerShown
