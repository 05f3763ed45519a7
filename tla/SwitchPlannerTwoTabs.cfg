SPECIFICATION Spec
CONSTANTS
  Tab = {t1, t2}
  Resource = {script}
  MaxPanels = 3
  NoPanel = NoPanel
INVARIANT RecordsWhileTicked
