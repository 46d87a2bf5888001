SPECIFICATION FairSpec
CONSTANTS
    Orgs = {"BankA", "Regulator"}
    Identities = {"bankA-admin", "regulator-admin"}
    Default = "bankA-admin"
    OrgOf <- MCOrgOf
    Users = {"regulator"}
    SharedLabel <- MCSharedLabel
    MaxSequence = 2
    MaxMishaps = 1
INVARIANT UpMeansDeployed
