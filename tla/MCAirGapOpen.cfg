SPECIFICATION Spec
CONSTANTS
    car = car
    phone = phone
    grok = grok
    mine = mine
    a1 = a1
    a2 = a2
    Main = Main
    Refresher = Refresher
    Free = Free
    NoIP = NoIP
    NoRow = NoRow
    Torn = Torn
    NoRules = NoRules
    Down = Down
    Devices <- TwoDevices
    IPs <- TwoIPs
    Rules <- OneRule
    RuleRows <- SomeRows
    SysFilters <- OneSys
    UserFilters <- OneUser
    UDPPorts <- UDP
    TCPPorts <- TCP
    Names <- SomeNames
    Zones <- SomeZones
    protectedDeny <- Floor
    assistantExempt = {}
    spoofConnManHost = "cm.vn.services"
    Seeds <- OneSeed
    MaxEvents = 2
INVARIANT DefaultDeny
