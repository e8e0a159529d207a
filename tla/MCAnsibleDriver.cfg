CONSTANTS
    PsinetHosts = {"ha", "hb", "hc"}
    Providers = {"linode", "digitalocean"}
    ProviderOf <- MCProviderOf
    TestHosts = {"ha"}
    SubsetHosts = {"hb"}
    TestGroup = "test"
    BaseHost = "linode_base_image"
    VerboseLevel = 1
INIT DriverInit
NEXT DriverNext
CHECK_DEADLOCK FALSE
INVARIANT MailIffRequested
