\* One tab, no loss: typing goes on during the first autosave, then Publish.
SPECIFICATION EdSpec
CONSTANTS
  Tab = {t1}
  DraftId = {d1}
  Image = {}
  DraftCap = 2
  MaxEdits = 2
  MaxLost = 0
  MaxOpened = 1
  Pages = {"new"}
  NoDraft = NoDraft
  NoRow = NoRow
  NoSave = NoSave
  NoForm = NoForm
CHECK_DEADLOCK FALSE
INVARIANT NoOrphan
