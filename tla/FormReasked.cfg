SPECIFICATION Spec
CONSTANTS
    MaxPages = 5
    Backends = 2
    Offers <- MCOffers
    Preferences <- MCPreferences
    Contracts <- MCContracts
    Questions = 1
    Sensitivities = {"compensation"}
    Levels = {"user_approved"}
    Citations <- MCCitations
    Overrides <- MCOverrides
    Modes = {"autonomous_submit"}
    Pool <- MCControls
    Pages <- MCPages
    Texts <- MCTexts
    MaxChanges = 1
    MaxVisits = 2
    Machines <- MCMachines
    Names = {1, 2}
    LocalName = 1
    MaxSpaces = 3
INVARIANT AnsweredIsNotAskedAgain
CHECK_DEADLOCK FALSE
