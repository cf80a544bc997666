SPECIFICATION Spec
CONSTANTS
  article = article
  widget = widget
  retired = retired
  title = title
  body = body
  blank = blank
  text = text
  k1 = k1
  k2 = k2
  team = team
  i1 = i1
  i2 = i2
  None = None
  Missing = Missing
  Null = Null
  NullMap = NullMap
  ContentType = {article, widget, retired}
  Schema <- MCSchema
  Slot = {title, body}
  Value = {blank, text}
  Blank = blank
  Key = {k1, k2}
  Owner = {team}
  Request = {r1, r2}
  OldID = {i1, i2}
  InitialContents <- TwoItems
  Inputs <- SequentialInputs
  Overlap = FALSE
  Faults = TRUE
SYMMETRY RequestSymmetry
INVARIANT CreateOnlyCreates
PROPERTY ImplementsLifecycle
