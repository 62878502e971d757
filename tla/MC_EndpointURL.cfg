\* Config files and command lines built from the pieces in MC_EndpointURL.
CONSTANTS
    ConfigSources <- MCConfigSources
    ArgsSources <- MCArgsSources
    LegalPool <- MCLegalPool
    LegalSource <- MCLegalSource
SPECIFICATION Spec
INVARIANT TypeOK
INVARIANT PoolRoundTrip
INVARIANT IRODSURLConfigures
CHECK_DEADLOCK FALSE
