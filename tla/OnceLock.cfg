CONSTANTS
  Threads = {t1, t2, t3}
  Uninit = Uninit
  Torn = Torn
  Given = Given
  MaxCalls = 2
SPECIFICATION OnceFairSpec
INVARIANTS
  StatusGuardsCell
  ReadersAgree
PROPERTY
  CallsReturn
