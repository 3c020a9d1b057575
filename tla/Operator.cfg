SPECIFICATION FairSpec
CONSTANTS
  MaxEdits = 2
  MaxJobs = 2
  MaxRestarts = 1
PROPERTIES RefinesPhases NoEditIsLost RunningIsWhatWasAsked NoResourceStaysPending
