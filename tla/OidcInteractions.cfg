\* Three requests at a time.
CONSTANTS
    None = None
    f1 = f1
    f2 = f2
    f3 = f3
    Flows = {f1, f2, f3}
    Asked <- MCAsked
    OidcScopes = {"openid", "email", "profile"}
    OpenId = "openid"
    MaxLogouts = 1
SPECIFICATION Spec
PROPERTIES
    CodesAreConsentedTo
    AskedAgainOnlyIfOvertaken
CHECK_DEADLOCK FALSE
