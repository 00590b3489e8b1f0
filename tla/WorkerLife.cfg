CONSTANT Settings <- Every
SPECIFICATION Spec
PROPERTIES
    NoFalseLoss
    CleanedUp
    LostIsNoticed
CHECK_DEADLOCK FALSE
