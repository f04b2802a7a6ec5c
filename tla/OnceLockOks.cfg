CONSTANTS
  Threads = {t1, t2}
  Uninit = Uninit
  Torn = Torn
  Given = Given
  MaxCalls = 1
SPECIFICATION OnceSpec
INVARIANT
  AtMostOneOk
