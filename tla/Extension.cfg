SPECIFICATION MCSpec
CONSTANTS
  Accounts = {"ann"}
  Names = {"ann", "bob"}
  Posts = {"m", "c"}
  MaxLogins = 2
  Texts = {x, y}
  Prompts = {x, y, z}
  MaxRuns = 2
  MaxFields = 2
  x = x
  y = y
  z = z
  Budgets <- MCBudgets
SYMMETRY MCSymmetry
CHECK_DEADLOCK FALSE
INVARIANT DebuggerReleased
INVARIANT DraftKept
INVARIANT SpinnerHasRequest
INVARIANT IdKeepsPrompt
INVARIANT PanelAgrees
PROPERTY PanelPromptKept
