\* Config.Validate against spec.md 6's validation rules, over the config files of MC_EndpointURL.
CONSTANTS
    ConfigSources <- MCConfigSources
    ArgsSources <- MCArgsSources
    LegalPool <- MCLegalPool
    LegalSource <- MCLegalSource
SPECIFICATION Spec
INVARIANT ValidateMatchesSpecRules
CHECK_DEADLOCK FALSE
