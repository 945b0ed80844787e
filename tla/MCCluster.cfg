SPECIFICATION Spec
CONSTANT Setups <- AllSetups
INVARIANTS OneWinnerPerEpoch FailNeedsMajority LastFailoverWins ViewsAgree
CHECK_DEADLOCK FALSE
