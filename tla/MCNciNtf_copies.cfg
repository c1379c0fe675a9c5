\* Notifications and their copies.
SPECIFICATION Spec
CONSTANTS
    Setups <- SomeSetups
    Targets <- SomeTargets
    Activations <- AllActivations
    Others <- SomeData
    Cuts = {0, 1}
    MaxTargets = 3
INVARIANTS CollectedAsAnnounced HandedOverAsAnnounced SelectsBest
    ClientCopyAsAnnounced CopiesFit
