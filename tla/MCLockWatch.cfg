SPECIFICATION FairSpec
CONSTANTS
    r1 = r1
    e1 = e1
    NoOne = NoOne
    Supervisor = Supervisor
    Ticker = Ticker
    Reporters <- OneReporter
    Installers <- OneEnforcer
    MaxClock = 1
    ActivityLease = 1
    MayStop = TRUE
INVARIANT TypeOK
INVARIANT OrdersObeyed
INVARIANT NoSessionNoHold
INVARIANT StopRaisesRadio
PROPERTY Converges
