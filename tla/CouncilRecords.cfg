\* Two requests beside a deletion, a re-creation, reviews and the watcher.
SPECIFICATION Spec
CONSTANTS
  Countries = {US}
  Providers = {p1}
  Wallets = {w1}
  Fields = {label, contact}
  Texts = {t1}
  Handlers = {h1, h2}
  MaxDeletions = 1
SYMMETRY RecordsSymmetry
INVARIANTS RecordsTypeOK ErrorsNeedOverlap WholeSummary NotFoundMeansAbsent
PROPERTIES OnlyWhatWasAsked
CHECK_DEADLOCK FALSE
