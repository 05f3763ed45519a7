SPECIFICATION PartsSpec
CONSTANTS
  MaxClicks = 3
  MaxRemote = 2
  MaxRestarts = 1
  Tab = {t1, t2}
  Resource = {script}
  MaxPanels = 3
  NoPanel = NoPanel
  File = {index, style}
  MaxBackups = 2
  Site = {a, b}
  None = None
  Label = {"a", "b", "c"}
  MaxLabels = 5
  Database <- MCDatabase
INVARIANTS
  CopyCorrectWhenSettled ForgottenWhenClosed OriginalKept
  HooksMatchSwitch NothingOutlivesClearing OcspGivenBack
  CallbackComes ProbesMatchDocs AnswerComplete
PROPERTIES CopyEventuallyCorrect EventuallyForgotten
