SPECIFICATION MCSpec
CONSTANTS
    ats = ats
    board = board
    j1 = j1
    j2 = j2
    u1 = u1
    Sources = {ats, board}
    Tier <- MCTier
    Records <- MCRecords
    Jobs = {j1, j2}
    Sessions = {u1}
    Moves = {"preparing", "submitted"}
    Recommendations = {"apply", "skip"}
    MaxDelivered = 2
    MaxScores = 2
    Facts <- MCFacts
    Strategies <- MCStrategies
    Replies <- MCReplies
    OptionSets <- MCOptionSets
    Config <- MCConfig
    Installed <- MCInstalled
    BoardAnswers <- MCAnswers
    MaxResults = 2
    MaxRuns = 1
    MaxVisitsToSettings = 1
    Tokens <- MCTokens
    MaxTokens = 4
    Pays <- MCPays
    Providers <- MCProviders
    Objects <- MCObjects
    Valid <- MCValid
    Surroundings <- MCSurroundings
    People <- MCPeople
    Wordings <- MCWordings
    Others <- MCOthers
    MaxRewrites = 2
    Addresses <- MCAddresses
    Edits <- MCEdits
    MaxLessons = 3
    MaxMoments = 5
    MaxBundled = 3
SYMMETRY PipelineSymmetry
 
 
INVARIANT MergingKeepsTheBest
 
 
 
PROPERTY SubmissionStaysOnRecord
CHECK_DEADLOCK FALSE
