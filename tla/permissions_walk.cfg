SPECIFICATION FairSpec
CONSTANTS
    Groups = {"default", "muted", "staff"}
    DefaultGroup = "default"
    Inherited <- UpToTwo
    Assigned <- UpToOne
    Grants <- MCGrants
    Direct <- MCDirect
    Nodes <- MCNodes
INVARIANTS CollectsMembership DecisionFollowsRules
PROPERTY Terminates
CHECK_DEADLOCK FALSE
