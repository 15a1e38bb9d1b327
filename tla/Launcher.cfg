\* Every way to start jpgsync, and children that fail or die at any moment.
SPECIFICATION Spec
CONSTANT Modes = {"both", "master", "slave"}
INVARIANTS TypeOK SuccessOfAll SlaveFindsMaster
PROPERTY EndsUnlessStranded
