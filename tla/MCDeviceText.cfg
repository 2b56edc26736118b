SPECIFICATION Spec
CONSTANTS
  Posts <- MCPosts
  Lists <- MCLists
  Urls <- MCUrls
  Reports <- MCReports
  Meaning <- MCMeaning
  Field = 8
INVARIANTS
  SettingsArrive
  AnsweredAsAsked
  DownloadUnderstood
