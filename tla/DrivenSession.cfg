SPECIFICATION Spec
CONSTANTS
    MaxPages = 5
    Backends = 2
    Offers <- MCOffers
    Preferences <- MCPreferences
    Contracts <- MCContracts
    Questions = 2
    Sensitivities = {"ordinary", "work_authorization", "demographic"}
    Levels = {"model_suggestion", "user_approved"}
    Citations <- MCCitations
    Overrides <- MCOverrides
    Modes = {"prepare_application", "fill_no_submit", "autonomous_submit"}
    Pool <- MCArrivals
    Pages <- MCPages
    Texts <- MCTexts
    MaxChanges = 2
    MaxVisits = 3
    Machines <- MCMachines
    Names = {1, 2}
    LocalName = 1
    MaxSpaces = 3
INVARIANTS TabsAreWhatTheCallerMeans HandoffIsRespected DrivenByTheContract   
PROPERTIES OnlyThePersonGivesBack PersonsAnswerStands
CHECK_DEADLOCK FALSE
