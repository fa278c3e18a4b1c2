\* The order of the rules the commands of one start leave behind.
CONSTANT MaxStarts = 2
SPECIFICATION Spec
CHECK_DEADLOCK FALSE
INVARIANT DropsComeFirst
