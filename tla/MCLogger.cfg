CONSTANTS
  Threads = {t1, t2}
  Nobody = nobody
  Types = {0, 3}
  Categories = {c1}
  MaxLevel = 4
SYMMETRY Symmetry
SPECIFICATION Spec
INVARIANTS LinesWhole
PROPERTIES SettingsObeyed
