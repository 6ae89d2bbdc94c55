SPECIFICATION MixSpec
CONSTANTS
  Day = 6
  Queries <- MCQueries
  e1 = e1  e2 = e2  e3 = e3  NaN = NaN  NotText = NotText
  EventId = {e1, e2, e3}
  PageSize = 1
  maxPages = 2
  MaxChanges = 1
  Text <- Texts  Blank <- Blanks  Length <- Lengths  Address <- Addresses
  Date <- Dates  Numeral <- Numerals
  NotesKey = "notes"
  maxNotesLen = 2
  Schemas <- MCSchemas  Submissions <- MCSubmissions
INVARIANTS SlotsSound SlotsComplete BusyHeeded FormRight
CHECK_DEADLOCK FALSE
