CONSTANTS
  None = None
  DefaultPlaces <- SmallPlaces
  Readers <- SmallReaders
  Emitters <- SmallEmitters
  Writers <- SmallEmitters
  Words <- SmallWords
  MaxRepeats = 1
  Starts <- SmallStarts
  MaxInvocations = 2
  MaxSettings = 2
SPECIFICATION Spec
INVARIANTS
  TypeOK
  ContradictionsTouchNothing
  ConfigurationErrorsTouchNothing
  SuccessMeansDone
  DumpRefusesOnlyWhatValidateIgnores
  SettingsComeFromTheLastWord
