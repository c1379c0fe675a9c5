\* The whole state machine with late responses and changes of the mode.
SPECIFICATION FairSpec
CONSTANTS
    Targets = {"DISCOVERY"}
    Modes = {"poll", "listen"}
    ListenModes = {"listen"}
    RoutingKinds = {"mixed"}
    Timeouts = TRUE
    MaxOut = 2
    MaxWire = 1
INVARIANTS TypeOK ClientIsUpToDate TransitioningMeansTransition TransitionIsTimed
    CommandIsTimed TransitionFitsState DiscoveryHasDefaultPayload
PROPERTIES TransitionsEnd RefinesRfStates
