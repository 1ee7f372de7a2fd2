\* Registrations at the same time.
CONSTANTS
    None = None
    Requests = {r1, r2, r3}
    Names = {ana, bob}
    Emails = {mail, post}
    CpfInputs <- MCCpfs
    CpfLength = 4
    Groups <- MCGroups
    Wrongs <- MCWrongs
SYMMETRY Symmetry
SPECIFICATION Spec
INVARIANTS
    AccountsAreTheirs
    CpfIsKept
CHECK_DEADLOCK FALSE
