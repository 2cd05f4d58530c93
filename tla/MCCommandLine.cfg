SPECIFICATION Spec
CONSTANTS
  base = base
  over = over
  aka = aka
  out = out
  trace = trace
  patch = patch
  schema = schema
  Stdin = Stdin
  Job = {j1, j2}
  Name <- Names
  File <- Files
  Opens <- FileOf
  Checked <- FileOf
  Form <- FormOf
  Commands <- LinesInUse
  Texts <- TextsOf
  Editable <- Inputs
  Exclusive = TRUE
  Edits = 2
  Merge <- MergePatch
  Diff <- CreatePatch
  WellFormed <- IsWellFormed
  Declared <- DeclaredIn
  Payloads <- PayloadsOf
  Conforms <- PayloadConforms
  Prefixes <- Part
INVARIANTS TypeOK TracesAreTrue DiffThenResolve PinnedSchemasAgree
PROPERTIES InputsSurvive SuccessIsComplete
CHECK_DEADLOCK FALSE
