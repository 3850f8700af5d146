\* Two processes over the questions about one folder and the notes on one topic,
\* three rows in all.
CONSTANTS
  s1 = s1  s2 = s2  f1 = f1  t1 = t1  code = code  work = work
  Surface = {s1, s2}
  Terminal = {s1}
  Folder = {f1}
  Topic = {t1}
  Category = {code, work}
  Ignore = Ignore
  Note = Note
  None = None
  MaxRows = 3
  MaxRaced = 2
SPECIFICATION Spec
SYMMETRY Symmetry
INVARIANT EveryQuestionHasMenu
CHECK_DEADLOCK FALSE
