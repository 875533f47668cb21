\* Seven scenarios over two rows, whose steps the server answers always, first
\* or never; test runs of two requests and of all.
CONSTANTS
    Scenarios <- MCScenarios
    Limits = {2, 20}
    Passes = 2
SPECIFICATION Spec
CONSTRAINT FewDisturbances
INVARIANTS
    
    FreshUnlessWritten
    PagesAreWhole
    BoardTellsTheFailure
CHECK_DEADLOCK FALSE
