SPECIFICATION Spec
CONSTANTS
  Texts = {a}
  Blank = Blank
  MaxRetries = 1
  MaxEdits = 3
  MaxFaults = 2
INVARIANTS ConfirmedIsStored
PROPERTIES NothingUnseenReplaced SealsWhatIsShown EditorComesBack ImplementsTask
