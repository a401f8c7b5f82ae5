SPECIFICATION Spec
CONSTANTS
  m1 = m1
  m2 = m2
  Msg = {m1, m2}
  Requests <- TwoRequests
  Services <- Yields
  Sizes = {0, 7}
  MaxCommands = 1
  HeaderLen = 2
  QuestionLen = 1
  OptLen = 1
  KeepaliveLen = 1
  CookieLen = 2
  TsigLen = 3
  MinimumLen = 6
  MessageLen = 14
  SerialMod = 10
  Now = 1
  OneHour = 2
  FiveMinutes = 1
INVARIANTS  OptAnswersOpt DeniedNeedFreshCookie SignedGetSigned
PROPERTY ShutdownDrains
CHECK_DEADLOCK FALSE
