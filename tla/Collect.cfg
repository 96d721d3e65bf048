SPECIFICATION Spec
CONSTANTS
    Reading <- MCReading
    MaxChanges <- MCMaxChanges
    Unreadable = Unreadable
    Top = 1
INVARIANTS WorstMeanwhile IssuesExplain AlarmsAreTrue PortsAreReal ServicesAgree UsersAgree
