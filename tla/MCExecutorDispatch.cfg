SPECIFICATION Spec
CONSTANTS
    Accounts = {1, 2, 3}
    Turns = {"Claim", "Reconcile"}
    MaxAccounts = 2
    MaxQueueDepth = 2
    MaxGlobalInFlight = 1
    MaxRestarts = 1
INVARIANTS LoopNeverRefused FreshSnapshots
PROPERTIES NoOvertaking SerializesTurns FirstServed
