SPECIFICATION MCSpec
CONSTANTS
  Accounts = {"ann", "bob"}
  Staff = {"root"}
  MaxLogins = 2
  Budgets <- MCBudgets
  Plans = {2}
  Texts = {"x", "y"}
  Finds = {"", "f"}
  Sorts = {"popular", "latest"}
  MaxPage = 2
  Names = {"a", "b"}
  MaxFolders = 2
  Prompts = {"m", "c"}
  Author <- MCAuthor
CHECK_DEADLOCK FALSE
INVARIANT PageIsMine
INVARIANT BusyEnds
INVARIANT AnswerFollowsQuestion
INVARIANT OneIdOnePrompt
INVARIANT HomeIsAsked
INVARIANT RecoveryArmed
INVARIANT LibraryAgrees
INVARIANT FoldersAgree
INVARIANT TalkAgrees
INVARIANT AdminAgrees
PROPERTY NewestWins
PROPERTY PromptIsKept
